--------------------------- MODULE MainLoop_proofs ---------------------------
(***************************************************************************)
(* What holds of the main loop for all periods, durations of instructions   *)
(* and widths of the clocks within the assumptions of MainLoop.             *)
(*                                                                          *)
(* The argument for the clocks: differences stay so small that CLOCK_GE     *)
(* and CLOCK_LT compare them as integers do; one sample for each            *)
(* instruction is enough because no instruction is longer than a period;    *)
(* what has been caught up stays so until the instruction is executed,      *)
(* also when the debugger comes in between.                                 *)
(***************************************************************************)
EXTENDS MainLoop, TLAPS

USE DEF clocks, video, modes, requests, counts

(* CLOCK_GE tells whether a period is over as long as less than a period    *)
(* and an instruction has passed since.                                     *)
LEMMA ClockGeExact ==
  ASSUME NEW P \in Nat, P + MaxT <= Half, NEW d \in 0..(P + MaxT - 1)
  PROVE  ClockGe(d, P) <=> d >= P
<1> DEFINE x == d - P
<1>1. x \in Int /\ MaxT \in Nat /\ Half \in Nat /\ Wrap \in Nat \ {0}
  BY PeriodsAssumption, WrapAssumption
<1>2. CASE d >= P
  <2>1. x \in 0..(Wrap - 1) /\ x < Half
    BY <1>1, <1>2, WrapAssumption
  <2>2. x % Wrap = x
    BY <1>1, <2>1
  <2> QED BY <1>2, <2>1, <2>2 DEF ClockGe
<1>3. CASE d < P
  <2>1. x \in (-Wrap)..(-1) /\ x + Wrap >= Half
    BY <1>1, <1>3, WrapAssumption
  <2>2. x % Wrap = x + Wrap
    BY <1>1, <2>1
  <2>3. ~(x % Wrap < Half)
    BY <1>1, <2>1, <2>2
  <2> QED BY <1>1, <1>3, <2>3 DEF ClockGe
<1> QED BY <1>1, <1>2, <1>3

(* CLOCK_LT never takes a clock that is behind for one that is not, in the  *)
(* time that an unsigned long can count.                                    *)
LEMMA NotBehind ==
  ASSUME NEW v \in Nat, NEW c \in 0..(MaxClock + MaxT), ~ClockLt(v, c)
  PROVE  v >= c
<1> DEFINE x == v - c
<1>1. x \in Int /\ MaxT \in Nat /\ MaxClock \in Nat /\ Half \in Nat /\ Wrap \in Nat \ {0}
  BY PeriodsAssumption, WrapAssumption, BoundsAssumption
<1> SUFFICES ASSUME v < c PROVE FALSE
  BY <1>1
<1>2. x \in (-Wrap)..(-1) /\ x + Wrap >= Half
  BY <1>1, LongAssumption
<1>3. x % Wrap = x + Wrap
  BY <1>1, <1>2
<1> QED BY <1>1, <1>2, <1>3 DEF ClockLt

(***************************************************************************)
(* Types.                                                                   *)
(***************************************************************************)

LEMMA TypeInitially == Init => TypeOK
<1> SUFFICES ASSUME Init PROVE TypeOK
  OBVIOUS
<1>1. ula \in [cbase : Nat, clock : 0..(Field - 1)]
  BY PeriodsAssumption DEF Init
<1>2. cpu \in [pending : BOOLEAN, lock : BOOLEAN]
  BY Zenon DEF Init
<1>3. dbg \in [itrap : BOOLEAN, stop : BOOLEAN, prev : BOOLEAN]
  BY Zenon DEF Init
<1> QED BY <1>1, <1>2, <1>3 DEF Init, TypeOK

(* Drawing a part of a field or a whole one, and requesting interrupts.     *)
LEMMA RequestTypes ==
  ASSUME TypeOK, RequestInt
  PROVE  /\ cpu' \in [pending : BOOLEAN, lock : BOOLEAN]
         /\ gpus' \in BOOLEAN
         /\ lastInt' \in Nat
<1>1. cpu' \in [pending : BOOLEAN, lock : BOOLEAN]
  BY Zenon DEF RequestInt, TypeOK
<1> QED BY <1>1 DEF RequestInt, TypeOK

LEMMA DrawTypes ==
  ASSUME TypeOK, DispFast \/ DispCell
  PROVE  /\ cpu' \in [pending : BOOLEAN, lock : BOOLEAN]
         /\ gpus' \in BOOLEAN
         /\ lastInt' \in Nat
         /\ ula' \in [cbase : Nat, clock : 0..(Field - 1)]
         /\ spec' \in Nat
<1>1. Field \in Nat \ {0} /\ Cell \in Nat
  BY PeriodsAssumption
<1>2. NextField(ula) \in [cbase : Nat, clock : 0..(Field - 1)]
  BY <1>1 DEF NextField, TypeOK
<1>3. CASE DispFast
  <2>1. RequestInt
    BY <1>3 DEF DispFast
  <2>2. ula' \in [cbase : Nat, clock : 0..(Field - 1)] /\ spec' \in Nat
    BY <1>1, <1>2, <1>3 DEF DispFast, TypeOK
  <2> QED BY <2>1, <2>2, RequestTypes
<1>4. CASE DispCell
  <2>1. spec' \in Nat
    BY <1>4 DEF DispCell, TypeOK
  <2>2. CASE ula.clock + Cell >= Field
    BY <1>2, <1>4, <2>1, <2>2, RequestTypes DEF DispCell
  <2>3. CASE ~(ula.clock + Cell >= Field)
    <3>1. ula' = [ula EXCEPT !.clock = @ + Cell] /\ UNCHANGED requests
      BY <1>4, <2>3 DEF DispCell
    <3>2. ula' \in [cbase : Nat, clock : 0..(Field - 1)]
      BY <1>1, <2>3, <3>1 DEF TypeOK
    <3> QED BY <2>1, <3>1, <3>2 DEF TypeOK
  <2> QED BY <2>2, <2>3
<1> QED BY <1>3, <1>4

(* What the debugger leaves of its fields when it is entered.               *)
LEMMA EnterTypes ==
  ASSUME TypeOK, NEW back \in {"keys", "exec", "trapped"}, EnterDebugger(back)
  PROVE  /\ dbg' \in [itrap : BOOLEAN, stop : BOOLEAN, prev : BOOLEAN]
         /\ ret' \in {"top", "keys", "exec", "trapped"}
         /\ pc' \in {"top", "keys", "catch", "exec", "debug", "quit"}
         /\ steps' \in Nat
<1>1. dbg' \in [itrap : BOOLEAN, stop : BOOLEAN, prev : BOOLEAN]
  BY Zenon DEF EnterDebugger, TypeOK
<1> QED BY <1>1 DEF EnterDebugger, TypeOK

LEMMA TypeStep == TypeOK /\ [Next]_vars => TypeOK'
<1> SUFFICES ASSUME TypeOK, [Next]_vars PROVE TypeOK'
  OBVIOUS
<1> USE PeriodsAssumption
<1>1. CASE Top
  BY <1>1 DEF Top, TypeOK
<1>2. CASE KeysDone \/ Quit
  BY <1>2 DEF KeysDone, Quit, TypeOK
<1>3. ASSUME NEW mode \in {0, 1}, ChooseMode(mode) PROVE TypeOK'
  BY <1>3 DEF ChooseMode, Key, ScrMode, TypeOK
<1>4. CASE Reset
  <2>1. cpu' \in [pending : BOOLEAN, lock : BOOLEAN]
    BY <1>4, Zenon DEF Reset, Key, ResetCpu
  <2>2. gpu_on' \in BOOLEAN /\ gpus' \in BOOLEAN /\ video_mode' \in {0, 1} /\ late' \in BOOLEAN
          /\ pace' \in {"changed", "caught", "regular"}
    BY <1>4 DEF Reset, Key, ScrMode, TypeOK
  <2> QED BY <1>4, <2>1, <2>2 DEF Reset, Key, TypeOK
<1>5. CASE LoadAY
  <2>1. cpu' \in [pending : BOOLEAN, lock : BOOLEAN]
    BY <1>5, Zenon DEF LoadAY, Key, TypeOK
  <2> QED BY <1>5, <2>1 DEF LoadAY, Key, TypeOK
<1>6. ASSUME NEW gfx \in BOOLEAN, NEW missing \in BOOLEAN, LoadSnapshot(gfx, missing) PROVE TypeOK'
  <2>1. cpu' \in [pending : BOOLEAN, lock : BOOLEAN]
    BY <1>6, Zenon DEF LoadSnapshot, Key, ResetCpu
  <2>2. gpu_on' \in BOOLEAN /\ gpus' \in BOOLEAN /\ video_mode' \in {0, 1} /\ late' \in BOOLEAN
          /\ pace' \in {"changed", "caught", "regular"}
    BY <1>6 DEF LoadSnapshot, Key, ScrMode, TypeOK
  <2> QED BY <1>6, <2>1, <2>2 DEF LoadSnapshot, Key, TypeOK
<1>7. CASE ToggleDblLn \/ ViewScreen
  <2>1. DispFast /\ forced' = forced + 1
    BY <1>7 DEF ToggleDblLn, ViewScreen, Key, DrawNow
  <2>2. UNCHANGED <<pc, ret, clk, snd_t, tapp_t, disp_t, gpu_on, video_mode, dbg, late, steps>> /\ pace' = "changed"
    BY <1>7 DEF ToggleDblLn, ViewScreen, Key, DrawNow
  <2> QED BY <2>1, <2>2, DrawTypes DEF TypeOK
<1>8. CASE DebugKey
  <2>1. EnterDebugger("keys")
    BY <1>8 DEF DebugKey
  <2> QED BY <1>8, <2>1, EnterTypes DEF DebugKey, TypeOK
<1>9. ASSUME NEW itrap \in BOOLEAN, NEW stop \in BOOLEAN, LeaveDebugger(itrap, stop) PROVE TypeOK'
  <2>1. cpu.lock \in BOOLEAN /\ dbg.prev \in BOOLEAN
    BY Zenon DEF TypeOK
  <2>2. dbg' \in [itrap : BOOLEAN, stop : BOOLEAN, prev : BOOLEAN]
    BY <1>9, <2>1, Zenon DEF LeaveDebugger
  <2>3. pc' \in {"top", "keys", "exec"} \cup {ret}
    BY <1>9 DEF LeaveDebugger
  <2> QED BY <1>9, <2>2, <2>3 DEF LeaveDebugger, TypeOK
<1>10. CASE CatchUp
  <2>1. DispFast \/ DispCell
    BY <1>10 DEF CatchUp
  <2>2. late' \in BOOLEAN /\ pace' \in {"changed", "caught", "regular"}
    BY <1>10 DEF CatchUp, TypeOK
  <2> QED BY <1>10, <2>1, <2>2, DrawTypes DEF CatchUp, TypeOK
<1>11. ASSUME NEW hit \in BOOLEAN, Sample(hit) PROVE TypeOK'
  <2>1. snd_t' \in Nat /\ tapp_t' \in Nat /\ pace' \in {"changed", "caught", "regular"}
    BY <1>11 DEF Sample, Sampled, TypeOK
  <2>2. CASE EnterDebugger("exec")
    BY <1>11, <2>1, <2>2, EnterTypes DEF Sample, TypeOK
  <2>3. CASE pc' = "exec" /\ UNCHANGED <<ret, dbg, steps>>
    BY <1>11, <2>1, <2>3 DEF Sample, TypeOK
  <2> QED BY <1>11, <2>2, <2>3 DEF Sample
<1>12. ASSUME NEW t \in Times, NEW lock \in BOOLEAN, Exec(t, lock) PROVE TypeOK'
  <2>1. clk' \in Nat
    BY <1>12 DEF Exec, TypeOK
  <2>2. cpu.pending \in BOOLEAN /\ cpu.lock \in BOOLEAN
    BY Zenon DEF TypeOK
  <2>3. cpu' \in [pending : BOOLEAN, lock : BOOLEAN]
    BY <1>12, <2>2, Zenon DEF Exec
  <2>4. gpus' \in BOOLEAN
    BY <1>12, <2>2 DEF Exec, TypeOK
  <2>5. CASE Stops(lock)
    <3>1. EnterDebugger("trapped")
      BY <1>12, <2>5 DEF Exec
    <3> QED BY <1>12, <2>1, <2>3, <2>4, <3>1, EnterTypes DEF Exec, TypeOK
  <2>6. CASE ~Stops(lock)
    <3>1. dbg' \in [itrap : BOOLEAN, stop : BOOLEAN, prev : BOOLEAN]
      BY <1>12, <2>6, Zenon DEF Exec, TypeOK
    <3>2. pc' = "top" /\ ret' = ret /\ steps' \in Nat
      BY <1>12, <2>6 DEF Exec, TypeOK
    <3> QED BY <1>12, <2>1, <2>3, <2>4, <3>1, <3>2 DEF Exec, TypeOK
  <2> QED BY <2>5, <2>6
<1>13. CASE UNCHANGED vars
  BY <1>13 DEF vars, TypeOK
<1>14. CASE GpusOff
  BY <1>14 DEF GpusOff, Key, ScrMode, TypeOK
<1> QED
  BY <1>1, <1>2, <1>3, <1>4, <1>5, <1>6, <1>7, <1>8, <1>9, <1>10, <1>11, <1>12, <1>13, <1>14 DEF Next

(* Clocks, modes, requests and the debugger's fields keep their types.      *)
THEOREM TypeCorrect == Spec => []TypeOK
BY TypeInitially, TypeStep, PTL DEF Spec

(***************************************************************************)
(* Samples and keys on time.                                                *)
(***************************************************************************)

(* Between the samples and the instruction that they precede.               *)
Sampling == pc = "exec" \/ (pc = "debug" /\ ret = "exec")

(* Before the keys of a field are looked for.                               *)
AtTop == pc = "top" \/ (pc = "debug" /\ ret = "trapped")

TimeInv ==
  /\ pc = "debug" => ret \in {"keys", "exec", "trapped"}
  /\ clk \in 0..(MaxClock + MaxT)
  /\ OnTime
  /\ Sampling => clk - snd_t < Sound /\ clk - tapp_t < Tape
  /\ ~AtTop => clk - disp_t < Field

LEMMA TimeInitially == Init => TimeInv
BY PeriodsAssumption, BoundsAssumption DEF Init, TimeInv, OnTime, Sampling, AtTop

(* A step that leaves the clocks alone and stays on its side of the samples *)
(* and of the keys.                                                         *)
LEMMA TimeStays ==
  ASSUME TypeOK, TimeInv, UNCHANGED <<clk, snd_t, tapp_t, disp_t>>,
         pc' = "debug" => ret' \in {"keys", "exec", "trapped"},
         Sampling' => Sampling, AtTop => AtTop'
  PROVE  TimeInv'
BY DEF TimeInv, OnTime

(* A period that is over is counted, and one is enough.                     *)
LEMMA SampledInTime ==
  ASSUME NEW P \in Nat, MaxT <= P, P + MaxT <= Half,
         clk \in Nat, NEW t \in Nat, clk - t \in 0..(P + MaxT - 1)
  PROVE  clk - Sampled(t, P) \in 0..(P - 1)
<1>1. MaxT \in Nat
  BY PeriodsAssumption
<1>2. ClockGe(clk - t, P) <=> clk - t >= P
  BY ClockGeExact
<1> QED BY <1>1, <1>2 DEF Sampled

LEMMA TimeStep == TypeOK /\ TimeInv /\ [Next]_vars => TimeInv'
<1> SUFFICES ASSUME TypeOK, TimeInv, [Next]_vars PROVE TimeInv'
  OBVIOUS
<1> USE PeriodsAssumption
<1>1. CASE Top
  <2>1. clk \in Nat /\ disp_t \in Nat /\ clk - disp_t \in 0..(Field + MaxT - 1)
    BY DEF TypeOK, TimeInv, OnTime
  <2>2. ClockGe(clk - disp_t, Field) <=> clk - disp_t >= Field
    BY <2>1, WrapAssumption, ClockGeExact
  <2>3. clk - disp_t' \in 0..(Field - 1) /\ UNCHANGED <<clk, snd_t, tapp_t>> /\ pc' \in {"keys", "catch"}
    BY <1>1, <2>1, <2>2 DEF Top
  <2> QED BY <2>3 DEF TimeInv, OnTime, Sampling, AtTop
<1>2. CASE KeysDone \/ Quit
  BY <1>2, TimeStays DEF KeysDone, Quit, Sampling, AtTop
<1>3. ASSUME NEW mode \in {0, 1}, ChooseMode(mode) PROVE TimeInv'
  BY <1>3, TimeStays DEF ChooseMode, Key, Sampling, AtTop
<1>4. CASE Reset
  BY <1>4, TimeStays DEF Reset, Key, Sampling, AtTop
<1>5. CASE LoadAY
  BY <1>5, TimeStays DEF LoadAY, Key, Sampling, AtTop
<1>6. ASSUME NEW gfx \in BOOLEAN, NEW missing \in BOOLEAN, LoadSnapshot(gfx, missing) PROVE TimeInv'
  BY <1>6, TimeStays DEF LoadSnapshot, Key, Sampling, AtTop
<1>7. CASE ToggleDblLn \/ ViewScreen
  <2>1. UNCHANGED <<pc, ret, clk, snd_t, tapp_t, disp_t>>
    BY <1>7 DEF ToggleDblLn, ViewScreen, Key, DrawNow
  <2> QED BY <2>1 DEF TimeInv, OnTime, Sampling, AtTop
<1>8. CASE DebugKey
  BY <1>8, TimeStays DEF DebugKey, EnterDebugger, Sampling, AtTop
<1>9. ASSUME NEW itrap \in BOOLEAN, NEW stop \in BOOLEAN, LeaveDebugger(itrap, stop) PROVE TimeInv'
  <2>1. UNCHANGED <<clk, snd_t, tapp_t, disp_t, ret>> /\ pc = "debug"
    BY <1>9 DEF LeaveDebugger
  <2>2. pc' = IF ret = "trapped" THEN "top" ELSE ret
    BY <1>9 DEF LeaveDebugger
  <2>3. ret \in {"keys", "exec", "trapped"}
    BY <2>1 DEF TimeInv
  <2> QED BY <2>1, <2>2, <2>3, TimeStays DEF Sampling, AtTop
<1>10. CASE CatchUp
  <2>1. UNCHANGED <<pc, ret, clk, snd_t, tapp_t, disp_t>>
    BY <1>10 DEF CatchUp
  <2> QED BY <2>1 DEF TimeInv, OnTime, Sampling, AtTop
<1>11. ASSUME NEW hit \in BOOLEAN, Sample(hit) PROVE TimeInv'
  <2>1. clk - Sampled(snd_t, Sound) \in 0..(Sound - 1)
    BY WrapAssumption, SampledInTime DEF TypeOK, TimeInv, OnTime
  <2>2. clk - Sampled(tapp_t, Tape) \in 0..(Tape - 1)
    BY WrapAssumption, SampledInTime DEF TypeOK, TimeInv, OnTime
  <2>3. pc = "catch" /\ snd_t' = Sampled(snd_t, Sound) /\ tapp_t' = Sampled(tapp_t, Tape)
          /\ UNCHANGED <<clk, disp_t>>
    BY <1>11 DEF Sample
  <2>4. pc' = "exec" \/ (pc' = "debug" /\ ret' = "exec")
    BY <1>11 DEF Sample, EnterDebugger
  <2> QED BY <2>1, <2>2, <2>3, <2>4 DEF TimeInv, OnTime, Sampling, AtTop
<1>12. ASSUME NEW t \in Times, NEW lock \in BOOLEAN, Exec(t, lock) PROVE TimeInv'
  <2>1. t \in 1..MaxT /\ clk' = clk + t /\ clk < MaxClock /\ pc = "exec"
    BY <1>12 DEF Exec
  <2>2. UNCHANGED <<snd_t, tapp_t, disp_t>>
    BY <1>12 DEF Exec
  <2>3. pc' = "top" \/ (pc' = "debug" /\ ret' = "trapped")
    BY <1>12 DEF Exec, EnterDebugger
  <2>4. /\ clk - snd_t \in 0..(Sound - 1) /\ clk - tapp_t \in 0..(Tape - 1)
        /\ clk - disp_t \in 0..(Field - 1)
    BY <2>1 DEF TypeOK, TimeInv, OnTime, Sampling, AtTop
  <2>5. OnTime' /\ clk' \in 0..(MaxClock + MaxT)
    BY <2>1, <2>2, <2>4, BoundsAssumption DEF TypeOK, OnTime
  <2> QED BY <2>3, <2>5 DEF TimeInv, Sampling, AtTop
<1>13. CASE UNCHANGED vars
  BY <1>13 DEF vars, TimeInv, OnTime, Sampling, AtTop
<1>14. CASE GpusOff
  BY <1>14, TimeStays DEF GpusOff, Key, Sampling, AtTop
<1> QED
  BY <1>1, <1>2, <1>3, <1>4, <1>5, <1>6, <1>7, <1>8, <1>9, <1>10, <1>11, <1>12, <1>13, <1>14 DEF Next

(* Samples are taken and keys are read neither early nor more than an       *)
(* instruction late, for all periods that no instruction exceeds            *)
(* (zx_proc_instr(), main()).                                               *)
THEOREM OnTimeCorrect == Spec => []OnTime
<1>1. TimeInv => OnTime
  BY DEF TimeInv
<1> QED BY TypeInitially, TypeStep, TimeInitially, TimeStep, <1>1, PTL DEF Spec

(***************************************************************************)
(* The picture.                                                             *)
(***************************************************************************)

(* What has been drawn up to the instruction stays so until it is executed. *)
DrawnInv == Sampling => VideoClock >= clk

LEMMA DrawnInitially == Init => DrawnInv
BY DEF Init, DrawnInv, Sampling

(* A whole field more never moves the video's clock back.                   *)
LEMMA DrawGoesOn ==
  ASSUME TypeOK, DispFast, UNCHANGED video_mode
  PROVE  VideoClock' >= VideoClock
<1>1. Field \in Nat
  BY PeriodsAssumption
<1>2. ula.cbase \in Nat /\ ula.clock \in 0..(Field - 1) /\ spec \in Nat
  BY DEF TypeOK
<1>3. CASE video_mode = 1
  BY <1>1, <1>2, <1>3 DEF DispFast, VideoClock
<1>4. CASE video_mode # 1
  <2>1. ula' = [cbase |-> ula.cbase + Field, clock |-> 0]
    BY <1>4 DEF DispFast, NextField
  <2> QED BY <1>1, <1>2, <1>4, <2>1 DEF VideoClock
<1> QED BY <1>3, <1>4

LEMMA VideoClockType == TypeOK => VideoClock \in Nat
BY PeriodsAssumption DEF TypeOK, VideoClock

LEMMA DrawnStep == TypeOK /\ TimeInv /\ DrawnInv /\ [Next]_vars => DrawnInv'
<1> SUFFICES ASSUME TypeOK, TimeInv, DrawnInv, [Next]_vars, Sampling'
             PROVE  VideoClock' >= clk'
  BY DEF DrawnInv
<1>1. CASE Top
  BY <1>1 DEF Top, Sampling
<1>2. CASE KeysDone \/ Quit
  BY <1>2 DEF KeysDone, Quit, Sampling
<1>3. ASSUME pc = "keys", UNCHANGED pc PROVE FALSE
  BY <1>3 DEF Sampling
<1>4. CASE GpusOff \/ Reset \/ LoadAY \/ ToggleDblLn
  BY <1>3, <1>4 DEF GpusOff, Reset, LoadAY, ToggleDblLn, Key
<1>5. ASSUME NEW mode \in {0, 1}, ChooseMode(mode) PROVE FALSE
  BY <1>3, <1>5 DEF ChooseMode, Key
<1>6. ASSUME NEW gfx \in BOOLEAN, NEW missing \in BOOLEAN, LoadSnapshot(gfx, missing) PROVE FALSE
  BY <1>3, <1>6 DEF LoadSnapshot, Key
<1>7. CASE ViewScreen
  <2>1. DispFast /\ UNCHANGED <<pc, ret, clk, video_mode>>
    BY <1>7 DEF ViewScreen, DrawNow
  <2>2. VideoClock >= clk
    BY <2>1 DEF DrawnInv, Sampling
  <2>3. VideoClock' >= VideoClock
    BY <2>1, DrawGoesOn
  <2>4. TypeOK'
    BY TypeStep
  <2>5. VideoClock' \in Nat
    BY <2>4, PeriodsAssumption DEF TypeOK, VideoClock
  <2>6. VideoClock \in Nat /\ clk \in Nat
    BY VideoClockType DEF TypeOK
  <2> QED BY <2>1, <2>2, <2>3, <2>5, <2>6
<1>8. CASE DebugKey
  BY <1>8 DEF DebugKey, EnterDebugger, Sampling
<1>9. ASSUME NEW itrap \in BOOLEAN, NEW stop \in BOOLEAN, LeaveDebugger(itrap, stop)
      PROVE  VideoClock' >= clk'
  <2>1. UNCHANGED <<clk, ula, spec, video_mode>> /\ Sampling
    BY <1>9 DEF LeaveDebugger, Sampling
  <2> QED BY <2>1 DEF DrawnInv, VideoClock
<1>10. CASE CatchUp
  BY <1>10 DEF CatchUp, Sampling
<1>11. ASSUME NEW hit \in BOOLEAN, Sample(hit) PROVE VideoClock' >= clk'
  <2>1. ~ClockLt(VideoClock, clk) /\ UNCHANGED <<clk, ula, spec, video_mode>>
    BY <1>11 DEF Sample
  <2>2. VideoClock >= clk
    BY <2>1, NotBehind, VideoClockType DEF TimeInv
  <2> QED BY <2>1, <2>2 DEF VideoClock
<1>12. ASSUME NEW t \in Times, NEW lock \in BOOLEAN, Exec(t, lock) PROVE FALSE
  BY <1>12 DEF Exec, EnterDebugger, Sampling
<1>13. CASE UNCHANGED vars
  BY <1>13 DEF vars, DrawnInv, Sampling, VideoClock
<1> QED
  BY <1>1, <1>2, <1>4, <1>5, <1>6, <1>7, <1>8, <1>9, <1>10, <1>11, <1>12, <1>13 DEF Next

(* No instruction is executed before the picture has been drawn up to it,   *)
(* also when the debugger draws fields in between (zx_proc_instr()).        *)
THEOREM CaughtUpCorrect == Spec => []CaughtUp
<1>1. DrawnInv => CaughtUp
  BY DEF DrawnInv, CaughtUp, Sampling
<1> QED BY TypeInitially, TypeStep, TimeInitially, TimeStep, DrawnInitially, DrawnStep, <1>1, PTL DEF Spec

(***************************************************************************)
(* Interrupts once in a field.  A generator requests the next one when its  *)
(* clock has passed the end of a field, so it is enough to know how far     *)
(* each of them, also the one that is not shown, can be ahead of the last   *)
(* request and of the CPU.                                                  *)
(***************************************************************************)

Fields(n) == Field * n

LEMMA FieldsAdd ==
  /\ Fields(0) = 0
  /\ \A n \in Nat : Fields(n) \in Nat /\ Fields(n + 1) = Fields(n) + Field
<1>1. Field \in Nat
  BY PeriodsAssumption
<1>2. ASSUME NEW n \in Nat PROVE Field * n \in Nat /\ Field * (n + 1) = (Field * n) + Field
  BY <1>1, <1>2
<1> QED BY <1>1, <1>2 DEF Fields

LEMMA FieldsMonotone ==
  ASSUME NEW n \in Nat, NEW m \in Nat, n <= m
  PROVE  Fields(n) <= Fields(m)
<1>1. Field \in Nat
  BY PeriodsAssumption
<1>2. Field * (m - n) \in Nat
  BY <1>1
<1>3. Field * m = (Field * n) + (Field * (m - n))
  BY <1>1
<1> QED BY <1>1, <1>2, <1>3 DEF Fields

(* CLOCK_LT never takes a clock for one that is behind if it is not, while  *)
(* few fields are drawn ahead.                                              *)
LEMMA BehindIsBehind ==
  ASSUME NEW v \in Nat, NEW c \in Nat, v - c < Half, ClockLt(v, c)
  PROVE  v < c
<1> DEFINE x == v - c
<1>1. x \in Int /\ Half \in Nat /\ Wrap \in Nat \ {0}
  BY WrapAssumption
<1> SUFFICES ASSUME v >= c PROVE FALSE
  BY <1>1
<1>2. x \in 0..(Wrap - 1) /\ x < Half
  BY <1>1, WrapAssumption
<1>3. x % Wrap = x
  BY <1>1, <1>2
<1> QED BY <1>1, <1>2, <1>3 DEF ClockLt

(* How far the ULA, drawing cell by cell, and any generator may be ahead of *)
(* the last request; the latter also ahead of the CPU.                      *)
Near == lastInt + Cell + Fields(forced)
Far == Near + Field

AheadInv ==
  /\ forced <= MaxForced
  /\ lastInt <= clk
  /\ spec <= lastInt + Fields(forced) + Field
  /\ ula.cbase <= Far
  /\ ~gpu_on /\ ~late => ula.cbase <= Near
  /\ gpu_on /\ ~late => ula.cbase + ula.clock < Far
  /\ ula.cbase + ula.clock < clk + Cell + Fields(forced) + Field

(* The time that may have passed since the last request, in fields.         *)
Slack == Fields(forced) + Field + (IF late THEN Field ELSE 0) + MaxT + Cell
RegularInv == clk - lastInt < Slack

LEMMA SlackIsDue == TypeOK => (RegularInv <=> IntsDue)
<1> SUFFICES ASSUME TypeOK PROVE RegularInv <=> IntsDue
  OBVIOUS
<1>1. forced \in Nat /\ late \in BOOLEAN /\ Field \in Nat
  BY PeriodsAssumption DEF TypeOK
<1>2. Field * (1 + forced) = Fields(forced) + Field
  BY <1>1, FieldsAdd DEF Fields
<1>3. Field * (1 + forced + 1) = Fields(forced) + Field + Field
  <2>1. Fields((forced + 1) + 1) = Fields(forced) + Field + Field
    BY <1>1, FieldsAdd
  <2>2. 1 + forced + 1 = (forced + 1) + 1
    BY <1>1
  <2> QED BY <2>1, <2>2 DEF Fields
<1>4. Field * Due = Fields(forced) + Field + (IF late THEN Field ELSE 0)
  <2>1. CASE late
    <3>1. Due = 1 + forced + 1
      BY <2>1 DEF Due
    <3> QED BY <1>3, <2>1, <3>1
  <2>2. CASE ~late
    <3>1. Due = 1 + forced
      BY <1>1, <2>2 DEF Due
    <3>2. Fields(forced) \in Nat
      BY <1>1, FieldsAdd
    <3> QED BY <1>1, <1>2, <2>2, <3>1, <3>2
  <2> QED BY <1>1, <2>1, <2>2
<1> QED BY <1>4 DEF RegularInv, Slack, IntsDue

LEMMA AheadInitially == Init => AheadInv /\ RegularInv
BY PeriodsAssumption, BoundsAssumption, FieldsAdd DEF Init, AheadInv, RegularInv, Near, Far, Slack

(* The types that the arithmetic below needs.                               *)
Numbers ==
  /\ Field \in Nat \ {0} /\ Cell \in 1..Field /\ MaxT \in Nat
  /\ clk \in Nat /\ spec \in Nat /\ lastInt \in Nat /\ forced \in Nat
  /\ ula.cbase \in Nat /\ ula.clock \in 0..(Field - 1)
  /\ Fields(forced) \in Nat /\ MaxForced \in Nat

LEMMA NumbersCorrect == TypeOK => Numbers
BY PeriodsAssumption, BoundsAssumption, FieldsAdd DEF TypeOK, Numbers

(* A whole field, in turn or not.                                           *)
LEMMA FastAhead ==
  ASSUME TypeOK, AheadInv, DispFast, UNCHANGED <<clk, gpu_on>>,
         \/ forced < MaxForced /\ forced' = forced + 1 /\ UNCHANGED late
         \/ VideoClock < clk /\ gpu_on /\ UNCHANGED forced /\ late' = FALSE
  PROVE  AheadInv' /\ RegularInv'
<1>1. Numbers
  BY NumbersCorrect
<1>2. lastInt' = clk
  BY DEF DispFast, RequestInt
<1>3. Fields(forced') \in Nat /\ Fields(forced') >= Fields(forced)
  BY <1>1, FieldsAdd DEF Numbers
<1>4. RegularInv'
  BY <1>1, <1>2, <1>3 DEF RegularInv, Slack, Numbers
<1>5. CASE video_mode = 1
  <2>1. UNCHANGED ula /\ spec' = spec + Field
    BY <1>5 DEF DispFast
  <2>2. CASE forced < MaxForced /\ forced' = forced + 1 /\ UNCHANGED late
    <3>1. Fields(forced') = Fields(forced) + Field
      BY <1>1, <2>2, FieldsAdd DEF Numbers
    <3> QED BY <1>1, <1>2, <1>4, <2>1, <2>2, <3>1 DEF AheadInv, Near, Far, Numbers
  <2>3. CASE VideoClock < clk /\ gpu_on /\ UNCHANGED forced /\ late' = FALSE
    <3>1. spec < clk
      BY <1>5, <2>3 DEF VideoClock
    <3> QED BY <1>1, <1>2, <1>4, <2>1, <2>3, <3>1 DEF AheadInv, Near, Far, Numbers
  <2> QED BY <2>2, <2>3
<1>6. CASE video_mode # 1
  <2>1. ula' = [cbase |-> ula.cbase + Field, clock |-> 0] /\ UNCHANGED spec
    BY <1>6 DEF DispFast, NextField
  <2>2. ula'.cbase = ula.cbase + Field /\ ula'.clock = 0
    BY <2>1
  <2>3. CASE forced < MaxForced /\ forced' = forced + 1 /\ UNCHANGED late
    <3>1. Fields(forced') = Fields(forced) + Field
      BY <1>1, <2>3, FieldsAdd DEF Numbers
    <3> QED BY <1>1, <1>2, <1>4, <2>1, <2>2, <2>3, <3>1 DEF AheadInv, Near, Far, Numbers
  <2>4. CASE VideoClock < clk /\ gpu_on /\ UNCHANGED forced /\ late' = FALSE
    <3>1. ula.cbase + ula.clock < clk
      BY <1>6, <2>4 DEF VideoClock
    <3> QED BY <1>1, <1>2, <1>4, <2>1, <2>2, <2>4, <3>1 DEF AheadInv, Near, Far, Numbers
  <2> QED BY <2>3, <2>4
<1> QED BY <1>5, <1>6

(* A cell of the ULA's picture.                                             *)
LEMMA CellAhead ==
  ASSUME TypeOK, AheadInv, RegularInv, DispCell, UNCHANGED <<clk, gpu_on, forced>>,
         ~gpu_on, ula.cbase + ula.clock < clk,
         late' = (late /\ ~(ula.clock + Cell >= Field))
  PROVE  AheadInv' /\ RegularInv'
<1>1. Numbers
  BY NumbersCorrect
<1>2. CASE ula.clock + Cell >= Field
  <2>1. ula' = NextField(ula) /\ lastInt' = clk /\ UNCHANGED spec
    BY <1>2 DEF DispCell, RequestInt
  <2>2. ula'.cbase = ula.cbase + Field /\ ula'.clock = 0
    BY <2>1 DEF NextField
  <2>3. ula'.cbase < clk + Cell
    BY <1>1, <1>2, <2>2 DEF Numbers
  <2>4. RegularInv'
    BY <1>1, <2>1 DEF RegularInv, Slack, Numbers
  <2> QED BY <1>1, <2>1, <2>2, <2>3, <2>4 DEF AheadInv, Near, Far, Numbers
<1>3. CASE ~(ula.clock + Cell >= Field)
  <2>1. ula' = [ula EXCEPT !.clock = @ + Cell] /\ UNCHANGED <<lastInt, spec>>
    BY <1>3 DEF DispCell
  <2>2. ula'.cbase = ula.cbase /\ ula'.clock = ula.clock + Cell
    BY <2>1 DEF TypeOK
  <2>3. late' = late
    BY <1>1, <1>3 DEF Numbers, TypeOK
  <2>4. RegularInv'
    BY <2>1, <2>3 DEF RegularInv, Slack
  <2> QED BY <1>1, <2>1, <2>2, <2>3, <2>4 DEF AheadInv, Near, Far, Numbers
<1> QED BY <1>2, <1>3

(* No clock moves and the GPUs are left alone.                              *)
LEMMA AheadStays ==
  ASSUME AheadInv, RegularInv, UNCHANGED <<clk, ula, spec, lastInt, forced, late, gpu_on>>
  PROVE  AheadInv' /\ RegularInv'
BY DEF AheadInv, RegularInv, Near, Far, Slack

(* The GPUs are turned on or off.                                           *)
LEMMA AheadSwitched ==
  ASSUME TypeOK, AheadInv, RegularInv, UNCHANGED <<clk, ula, spec, lastInt, forced>>,
         gpu_on' \in BOOLEAN, late' = (late \/ (gpu_on /\ ~gpu_on'))
  PROVE  AheadInv' /\ RegularInv'
<1>1. Numbers
  BY NumbersCorrect
<1>2. late \in BOOLEAN /\ gpu_on \in BOOLEAN
  BY DEF TypeOK
<1>3. RegularInv'
  BY <1>1, <1>2 DEF RegularInv, Slack, Numbers
<1>4. CASE gpu_on'
  BY <1>1, <1>2, <1>3, <1>4 DEF AheadInv, Near, Far, Numbers
<1>5. CASE ~gpu_on'
  BY <1>1, <1>2, <1>3, <1>5 DEF AheadInv, Near, Far, Numbers
<1> QED BY <1>4, <1>5

(* The memory of the GPUs is shown only while they are on.                  *)
ShownInv == video_mode = 1 => gpu_on

LEMMA ShownStep == TypeOK /\ ShownInv /\ [Next]_vars => ShownInv'
<1> SUFFICES ASSUME TypeOK, ShownInv, [Next]_vars PROVE ShownInv'
  OBVIOUS
<1>1. ASSUME UNCHANGED <<video_mode, gpu_on>> PROVE ShownInv'
  BY <1>1 DEF ShownInv
<1>2. CASE Top \/ KeysDone \/ Quit \/ LoadAY \/ ToggleDblLn \/ DebugKey \/ ViewScreen \/ CatchUp
  BY <1>1, <1>2 DEF Top, KeysDone, Quit, LoadAY, ToggleDblLn, DebugKey, ViewScreen, CatchUp, Key, DrawNow
<1>3. ASSUME NEW mode \in {0, 1}, ChooseMode(mode) PROVE ShownInv'
  BY <1>3 DEF ChooseMode, Key, ScrMode, ShownInv
<1>4. CASE GpusOff \/ Reset
  BY <1>4 DEF GpusOff, Reset, Key, ScrMode, ShownInv
<1>5. ASSUME NEW gfx \in BOOLEAN, NEW missing \in BOOLEAN, LoadSnapshot(gfx, missing) PROVE ShownInv'
  BY <1>5 DEF LoadSnapshot, Key, ScrMode, ShownInv
<1>6. ASSUME NEW itrap \in BOOLEAN, NEW stop \in BOOLEAN, LeaveDebugger(itrap, stop) PROVE ShownInv'
  BY <1>1, <1>6 DEF LeaveDebugger
<1>7. ASSUME NEW hit \in BOOLEAN, Sample(hit) PROVE ShownInv'
  BY <1>1, <1>7 DEF Sample
<1>8. ASSUME NEW t \in Times, NEW lock \in BOOLEAN, Exec(t, lock) PROVE ShownInv'
  BY <1>1, <1>8 DEF Exec
<1>9. CASE UNCHANGED vars
  BY <1>1, <1>9 DEF vars
<1> QED BY <1>2, <1>3, <1>4, <1>5, <1>6, <1>7, <1>8, <1>9 DEF Next

(* The video is never so far ahead that CLOCK_LT would be mistaken.         *)
LEMMA VideoNear ==
  ASSUME TypeOK, AheadInv
  PROVE  VideoClock - clk < Half
<1>1. Numbers
  BY NumbersCorrect
<1>2. Fields(forced) <= Fields(MaxForced)
  BY <1>1, FieldsMonotone, BoundsAssumption DEF AheadInv, Numbers
<1>3. Field * (1 + MaxForced) = Fields(MaxForced) + Field
  BY <1>1, BoundsAssumption DEF Fields, Numbers
<1>4. Fields(MaxForced) \in Nat /\ Half \in Nat
  BY FieldsAdd, BoundsAssumption, WrapAssumption
<1>5. Fields(forced) + Field + Cell <= Half
  BY <1>1, <1>2, <1>3, <1>4, BoundsAssumption DEF Numbers
<1>6. CASE video_mode = 1
  BY <1>1, <1>4, <1>5, <1>6 DEF AheadInv, VideoClock, Numbers
<1>7. CASE video_mode # 1
  BY <1>1, <1>4, <1>5, <1>7 DEF AheadInv, VideoClock, Numbers
<1> QED BY <1>6, <1>7

LEMMA AheadStep ==
  TypeOK /\ DrawnInv /\ ShownInv /\ AheadInv /\ RegularInv /\ [Next]_vars
    => AheadInv' /\ RegularInv'
<1> SUFFICES ASSUME TypeOK, DrawnInv, ShownInv, AheadInv, RegularInv, [Next]_vars PROVE AheadInv' /\ RegularInv'
  OBVIOUS
<1>1. CASE Top \/ KeysDone \/ Quit
  BY <1>1, AheadStays DEF Top, KeysDone, Quit
<1>2. ASSUME NEW mode \in {0, 1}, ChooseMode(mode) PROVE AheadInv' /\ RegularInv'
  BY <1>2, AheadStays DEF ChooseMode, Key, ScrMode
<1>3. CASE Reset
  <2>1. gpu_on' = FALSE /\ late' = (late \/ gpu_on)
    BY <1>3 DEF Reset, Key, ScrMode, TypeOK
  <2>2. UNCHANGED <<clk, ula, spec, lastInt, forced>>
    BY <1>3 DEF Reset, Key
  <2> QED BY <2>1, <2>2, AheadSwitched DEF TypeOK
<1>4. CASE LoadAY
  BY <1>4, AheadStays DEF LoadAY, Key
<1>5. ASSUME NEW gfx \in BOOLEAN, NEW missing \in BOOLEAN, LoadSnapshot(gfx, missing)
      PROVE  AheadInv' /\ RegularInv'
  <2>1. gpu_on' = gfx /\ late' = (late \/ (gpu_on /\ ~gfx))
    BY <1>5 DEF LoadSnapshot, Key, ScrMode
  <2>2. UNCHANGED <<clk, ula, spec, lastInt, forced>>
    BY <1>5 DEF LoadSnapshot, Key
  <2> QED BY <2>1, <2>2, AheadSwitched
<1>6. CASE ToggleDblLn \/ ViewScreen
  <2>1. DispFast /\ forced < MaxForced /\ forced' = forced + 1 /\ UNCHANGED <<clk, gpu_on, late>>
    BY <1>6 DEF ToggleDblLn, ViewScreen, Key, DrawNow
  <2> QED BY <2>1, FastAhead
<1>7. CASE DebugKey
  BY <1>7, AheadStays DEF DebugKey
<1>8. ASSUME NEW itrap \in BOOLEAN, NEW stop \in BOOLEAN, LeaveDebugger(itrap, stop)
      PROVE  AheadInv' /\ RegularInv'
  BY <1>8, AheadStays DEF LeaveDebugger
<1>9. CASE CatchUp
  <2>1. UNCHANGED <<clk, gpu_on, forced>>
    BY <1>9 DEF CatchUp
  <2>2. VideoClock < clk
    <3>1. VideoClock - clk < Half
      BY VideoNear
    <3> QED BY <1>9, <3>1, BehindIsBehind, VideoClockType DEF CatchUp, TypeOK
  <2>3. CASE gpu_on
    <3>1. DispFast /\ late' = FALSE
      BY <1>9, <2>3 DEF CatchUp, FieldEnds
    <3> QED BY <2>1, <2>2, <2>3, <3>1, FastAhead
  <2>4. CASE ~gpu_on
    <3>1. DispCell /\ late' = (late /\ ~(ula.clock + Cell >= Field))
      BY <1>9, <2>4 DEF CatchUp, FieldEnds
    <3>2. ula.cbase + ula.clock < clk
      BY <2>2, <2>4 DEF ShownInv, VideoClock
    <3> QED BY <2>1, <2>4, <3>1, <3>2, CellAhead
  <2> QED BY <2>3, <2>4
<1>10. ASSUME NEW hit \in BOOLEAN, Sample(hit) PROVE AheadInv' /\ RegularInv'
  BY <1>10, AheadStays DEF Sample
<1>11. ASSUME NEW t \in Times, NEW lock \in BOOLEAN, Exec(t, lock) PROVE AheadInv' /\ RegularInv'
  <2>1. t \in 1..MaxT /\ clk' = clk + t /\ pc = "exec"
    BY <1>11, PeriodsAssumption DEF Exec
  <2>2. UNCHANGED <<ula, spec, lastInt, forced, late, gpu_on>>
    BY <1>11 DEF Exec
  <2>3. Numbers
    BY NumbersCorrect
  <2>4. AheadInv'
    BY <2>1, <2>2, <2>3 DEF AheadInv, Near, Far, Numbers
  <2>5. VideoClock >= clk
    BY <2>1 DEF DrawnInv, Sampling
  <2>6. late \in BOOLEAN /\ gpu_on \in BOOLEAN
    BY DEF TypeOK
  <2>7. CASE video_mode = 1
    <3>1. clk <= lastInt + Fields(forced) + Field
      BY <2>3, <2>5, <2>7 DEF AheadInv, VideoClock, Numbers
    <3> QED BY <2>1, <2>2, <2>3, <2>4, <2>6, <3>1 DEF RegularInv, Slack, Numbers
  <2>8. CASE video_mode # 1
    <3>1. clk <= ula.cbase + ula.clock
      BY <2>5, <2>8 DEF VideoClock
    <3>2. CASE late
      BY <2>1, <2>2, <2>3, <2>4, <3>1, <3>2 DEF AheadInv, RegularInv, Slack, Near, Far, Numbers
    <3>3. CASE ~late
      BY <2>1, <2>2, <2>3, <2>4, <2>6, <3>1, <3>3 DEF AheadInv, RegularInv, Slack, Near, Far, Numbers
    <3> QED BY <2>6, <3>2, <3>3
  <2> QED BY <2>7, <2>8
<1>12. CASE UNCHANGED vars
  BY <1>12, AheadStays DEF vars
<1>13. CASE GpusOff
  <2>1. gpu_on' = FALSE /\ late' = (late \/ (gpu_on /\ ~gpu_on'))
    BY <1>13 DEF GpusOff, Key, ScrMode
  <2>2. UNCHANGED <<clk, ula, spec, lastInt, forced>>
    BY <1>13 DEF GpusOff, Key
  <2> QED BY <2>1, <2>2, AheadSwitched
<1> QED
  BY <1>1, <1>2, <1>3, <1>4, <1>5, <1>6, <1>7, <1>8, <1>9, <1>10, <1>11, <1>12, <1>13 DEF Next

(* The other side: while no mode is changed and no field drawn out of turn, *)
(* the generator is an instruction behind the CPU at most, so a request     *)
(* comes within an instruction of the end of the field that it draws.  The  *)
(* field that follows ends when the ULA, or a whole field after it the      *)
(* generator that draws fields at once, has come that far.                  *)
FieldStart == IF gpu_on THEN VideoClock - Field ELSE ula.cbase

PaceInv ==
  /\ pace # "changed" => clk <= VideoClock + MaxT
  /\ pace = "regular" => lastInt <= FieldStart + MaxT /\ WholeField

LEMMA PaceInitially == Init => PaceInv
BY PeriodsAssumption DEF Init, PaceInv, FieldStart, VideoClock, WholeField

(* No clock moves, and pace is kept unless a mode changes.                  *)
LEMMA PaceStays ==
  ASSUME PaceInv, UNCHANGED <<clk, ula, spec, lastInt>>,
         (UNCHANGED <<gpu_on, video_mode>> /\ pace' = pace) \/ pace' = "changed"
  PROVE  PaceInv'
BY DEF PaceInv, FieldStart, VideoClock, WholeField

(* A step of the generator that is behind the CPU.                          *)
LEMMA PaceCaughtUp ==
  ASSUME TypeOK, ShownInv, PaceInv, VideoClock < clk, CatchUp
  PROVE  PaceInv' /\ NotAgain
<1>1. Numbers
  BY NumbersCorrect
<1>2. UNCHANGED <<clk, gpu_on, video_mode>>
  BY DEF CatchUp
<1>3. pace' # "changed" => pace # "changed"
  BY DEF CatchUp
<1>4. CASE gpu_on
  <2>1. DispFast /\ lastInt' = clk
    BY <1>4 DEF CatchUp, DispFast, RequestInt
  <2>2. VideoClock' >= VideoClock /\ (WholeField => VideoClock' = VideoClock + Field) /\ WholeField'
    <3>1. CASE video_mode = 1
      <4>1. spec' = spec + Field
        BY <2>1, <3>1 DEF DispFast
      <4> QED BY <1>1, <1>2, <3>1, <4>1 DEF VideoClock, WholeField, Numbers
    <3>2. CASE video_mode # 1
      <4>1. video_mode = 0 /\ ula' = NextField(ula)
        BY <2>1, <3>2 DEF DispFast, TypeOK
      <4>2. ula'.cbase = ula.cbase + Field /\ ula'.clock = 0
        BY <4>1 DEF NextField
      <4> QED BY <1>1, <1>2, <1>4, <4>1, <4>2 DEF VideoClock, WholeField, Numbers
    <3> QED BY <3>1, <3>2
  <2>3. pace' = "regular" => WholeField
    BY DEF CatchUp, PaceInv
  <2>4. PaceInv'
    <3>1. VideoClock \in Nat /\ VideoClock' \in Nat
      <4>1. TypeOK'
        BY TypeStep DEF Next
      <4> QED BY <4>1, VideoClockType, PeriodsAssumption DEF TypeOK, VideoClock
    <3>2. pace # "changed" => clk <= VideoClock + MaxT
      BY DEF PaceInv
    <3>3. pace' # "changed" => clk' <= VideoClock' + MaxT
      <4>1. MaxT \in Nat /\ clk \in Nat /\ clk' = clk
        BY <1>1, <1>2 DEF Numbers
      <4>2. VideoClock' >= VideoClock
        BY <2>2
      <4>3. clk <= VideoClock + MaxT => clk <= VideoClock' + MaxT
        <5>1. \A v, w, c \in Nat : w >= v /\ c <= v + MaxT => c <= w + MaxT
          BY <4>1
        <5> QED BY <3>1, <4>1, <4>2, <5>1, Zenon
      <4> QED BY <1>3, <3>2, <4>1, <4>3
    <3>4. pace' = "regular" => lastInt' <= VideoClock' - Field + MaxT
      <4>1. ASSUME pace' = "regular" PROVE clk <= VideoClock + MaxT /\ VideoClock' = VideoClock + Field
        BY <1>3, <2>2, <2>3, <3>2, <4>1
      <4> QED BY <1>1, <2>1, <3>1, <4>1 DEF Numbers
    <3> QED BY <1>2, <1>4, <2>2, <3>3, <3>4 DEF PaceInv, FieldStart
  <2>5. pace = "regular" => clk - lastInt > Field - MaxT - Cell
    BY <1>1, <1>4, VideoClockType DEF PaceInv, FieldStart, Numbers
  <2> QED BY <2>4, <2>5 DEF NotAgain
<1>5. CASE ~gpu_on /\ ula.clock + Cell >= Field
  <2>1. ula' = NextField(ula) /\ lastInt' = clk
    BY <1>5 DEF CatchUp, DispCell, RequestInt
  <2>2. ula'.cbase = ula.cbase + Field /\ ula'.clock = 0
    BY <2>1 DEF NextField
  <2>3. VideoClock = ula.cbase + ula.clock /\ VideoClock' = ula.cbase + Field
    BY <1>1, <1>2, <1>5, <2>2 DEF ShownInv, VideoClock, Numbers
  <2>4. PaceInv'
    BY <1>1, <1>2, <1>3, <1>5, <2>1, <2>2, <2>3 DEF PaceInv, FieldStart, WholeField, Numbers
  <2>5. pace = "regular" => clk - lastInt > Field - MaxT - Cell
    BY <1>1, <1>5, <2>3 DEF PaceInv, FieldStart, Numbers
  <2> QED BY <2>4, <2>5 DEF NotAgain
<1>6. CASE ~gpu_on /\ ~(ula.clock + Cell >= Field)
  <2>1. ula' = [ula EXCEPT !.clock = @ + Cell] /\ UNCHANGED lastInt /\ UNCHANGED pace
    BY <1>6 DEF CatchUp, DispCell, FieldEnds
  <2>2. ula'.cbase = ula.cbase /\ ula'.clock = ula.clock + Cell
    BY <2>1 DEF TypeOK
  <2>3. VideoClock = ula.cbase + ula.clock /\ VideoClock' = ula.cbase + ula.clock + Cell
    BY <1>1, <1>2, <1>6, <2>2 DEF ShownInv, VideoClock, Numbers
  <2>4. PaceInv'
    BY <1>1, <1>2, <1>6, <2>1, <2>2, <2>3 DEF PaceInv, FieldStart, WholeField, Numbers
  <2> QED BY <1>6, <2>4 DEF NotAgain, FieldEnds
<1> QED BY <1>4, <1>5, <1>6

LEMMA PaceStep ==
  TypeOK /\ TimeInv /\ DrawnInv /\ ShownInv /\ AheadInv /\ PaceInv /\ [Next]_vars
    => PaceInv' /\ [NotAgain]_vars
<1> SUFFICES ASSUME TypeOK, TimeInv, DrawnInv, ShownInv, AheadInv, PaceInv, [Next]_vars
             PROVE  PaceInv' /\ [NotAgain]_vars
  OBVIOUS
<1>1. CASE CatchUp
  <2>1. VideoClock - clk < Half
    BY VideoNear
  <2>2. VideoClock < clk
    BY <1>1, <2>1, BehindIsBehind, VideoClockType DEF CatchUp, TypeOK
  <2> QED BY <1>1, <2>2, PaceCaughtUp
<1>2. ASSUME ~CatchUp PROVE NotAgain
  BY <1>2 DEF NotAgain
<1> SUFFICES ASSUME ~CatchUp PROVE PaceInv'
  BY <1>1, <1>2
<1>3. CASE Top \/ KeysDone \/ Quit \/ LoadAY \/ DebugKey
  BY <1>3, PaceStays DEF Top, KeysDone, Quit, LoadAY, DebugKey, Key
<1>4. ASSUME NEW mode \in {0, 1}, ChooseMode(mode) PROVE PaceInv'
  BY <1>4, PaceStays DEF ChooseMode, Key, ScrMode
<1>5. CASE GpusOff \/ Reset
  BY <1>5, PaceStays DEF GpusOff, Reset, Key, ScrMode
<1>6. ASSUME NEW gfx \in BOOLEAN, NEW missing \in BOOLEAN, LoadSnapshot(gfx, missing) PROVE PaceInv'
  BY <1>6, PaceStays DEF LoadSnapshot, Key, ScrMode
<1>7. CASE ToggleDblLn \/ ViewScreen
  <2>1. pace' = "changed"
    BY <1>7 DEF ToggleDblLn, ViewScreen, Key, DrawNow
  <2> QED BY <2>1 DEF PaceInv
<1>8. ASSUME NEW itrap \in BOOLEAN, NEW stop \in BOOLEAN, LeaveDebugger(itrap, stop) PROVE PaceInv'
  BY <1>8, PaceStays DEF LeaveDebugger
<1>9. ASSUME NEW hit \in BOOLEAN, Sample(hit) PROVE PaceInv'
  <2>1. UNCHANGED <<clk, ula, spec, lastInt, gpu_on, video_mode>>
    BY <1>9 DEF Sample
  <2>2. ~ClockLt(VideoClock, clk) /\ pace' = IF pace = "changed" THEN "caught" ELSE pace
    BY <1>9 DEF Sample
  <2>3. VideoClock >= clk
    BY <2>2, NotBehind, VideoClockType DEF TimeInv
  <2>4. clk <= VideoClock + MaxT
    BY <2>3, VideoClockType, PeriodsAssumption DEF TypeOK
  <2> QED BY <2>1, <2>2, <2>4 DEF PaceInv, FieldStart, VideoClock, WholeField
<1>10. ASSUME NEW t \in Times, NEW lock \in BOOLEAN, Exec(t, lock) PROVE PaceInv'
  <2>1. t \in 1..MaxT /\ clk' = clk + t /\ pc = "exec"
    BY <1>10, PeriodsAssumption DEF Exec
  <2>2. UNCHANGED <<ula, spec, lastInt, gpu_on, video_mode, pace>>
    BY <1>10 DEF Exec
  <2>3. VideoClock >= clk
    BY <2>1 DEF DrawnInv, Sampling
  <2>4. clk' <= VideoClock + MaxT
    BY <2>1, <2>3, VideoClockType, PeriodsAssumption DEF TypeOK
  <2>5. VideoClock' = VideoClock /\ FieldStart' = FieldStart /\ WholeField' = WholeField
    BY <2>2 DEF VideoClock, FieldStart, WholeField
  <2> QED BY <2>2, <2>4, <2>5 DEF PaceInv
<1>11. CASE UNCHANGED vars
  BY <1>11, PaceStays DEF vars
<1> QED BY <1>3, <1>4, <1>5, <1>6, <1>7, <1>8, <1>9, <1>10, <1>11 DEF Next

(* Interrupts are requested once in a field, for all periods and in every   *)
(* mode: no request comes later than a field, an instruction and a cell     *)
(* after the last one, and a field more for each that was drawn out of turn *)
(* and for turning off the GPUs; and none comes earlier than a field less   *)
(* an instruction and a cell, from the first whole field on after the       *)
(* picture has caught up with such a change (zx_proc_instr(),               *)
(* video_ula_disp(), video_spec256_disp_fast()).                            *)
THEOREM IntsCorrect == Spec => IntsRegular
<1>1. TypeOK /\ RegularInv => IntsDue
  BY SlackIsDue
<1>2. Init => ShownInv
  BY DEF Init, ShownInv
<1> QED BY TypeInitially, TypeStep, TimeInitially, TimeStep, DrawnInitially, DrawnStep,
           <1>2, ShownStep, AheadInitially, AheadStep, PaceInitially, PaceStep, <1>1, PTL
        DEF Spec, IntsRegular

(***************************************************************************)
(* The GPUs' interrupts.                                                    *)
(***************************************************************************)

LEMMA GpuStep == TypeOK /\ GpuInStep /\ [Next]_vars => GpuInStep'
<1> SUFFICES ASSUME TypeOK, GpuInStep, [Next]_vars PROVE GpuInStep'
  OBVIOUS
<1>1. ASSUME UNCHANGED <<cpu, gpus, gpu_on>> PROVE GpuInStep'
  BY <1>1 DEF GpuInStep
<1>2. ASSUME RequestInt, UNCHANGED gpu_on PROVE GpuInStep'
  <2>1. cpu'.pending = TRUE
    BY <1>2, Zenon DEF RequestInt, TypeOK
  <2>2. gpu_on' => gpus' = TRUE
    BY <1>2 DEF RequestInt
  <2> QED BY <2>1, <2>2, Zenon DEF GpuInStep
<1>3. CASE Top \/ KeysDone \/ Quit
  BY <1>1, <1>3 DEF Top, KeysDone, Quit
<1>4. ASSUME NEW mode \in {0, 1}, ChooseMode(mode) PROVE GpuInStep'
  BY <1>1, <1>4 DEF ChooseMode, Key, ScrMode
<1>5. CASE Reset
  <2>1. gpu_on' = FALSE
    BY <1>5 DEF Reset, Key, ScrMode, TypeOK
  <2> QED BY <2>1 DEF GpuInStep
<1>6. CASE LoadAY
  <2>1. cpu'.pending = cpu.pending
    BY <1>6, Zenon DEF LoadAY, Key, TypeOK
  <2>2. UNCHANGED <<gpus, gpu_on>>
    BY <1>6 DEF LoadAY, Key
  <2> QED BY <2>1, <2>2, Zenon DEF GpuInStep
<1>7. ASSUME NEW gfx \in BOOLEAN, NEW missing \in BOOLEAN, LoadSnapshot(gfx, missing) PROVE GpuInStep'
  <2>1. cpu'.pending = FALSE
    BY <1>7, Zenon DEF LoadSnapshot, Key, ResetCpu
  <2>2. gpu_on' => ~missing
    BY <1>7 DEF LoadSnapshot, Key, ScrMode
  <2>3. gpu_on' => gpus' = FALSE
    BY <1>7, <2>2 DEF LoadSnapshot, Key
  <2> QED BY <2>1, <2>3, Zenon DEF GpuInStep
<1>8. CASE ToggleDblLn \/ ViewScreen
  BY <1>2, <1>8 DEF ToggleDblLn, ViewScreen, Key, DrawNow, DispFast
<1>9. CASE DebugKey
  BY <1>1, <1>9 DEF DebugKey
<1>10. ASSUME NEW itrap \in BOOLEAN, NEW stop \in BOOLEAN, LeaveDebugger(itrap, stop) PROVE GpuInStep'
  BY <1>1, <1>10 DEF LeaveDebugger
<1>11. CASE CatchUp
  <2>1. UNCHANGED gpu_on /\ (RequestInt \/ UNCHANGED requests)
    BY <1>11 DEF CatchUp, DispFast, DispCell
  <2> QED BY <1>1, <1>2, <2>1
<1>12. ASSUME NEW hit \in BOOLEAN, Sample(hit) PROVE GpuInStep'
  BY <1>1, <1>12 DEF Sample
<1>13. ASSUME NEW t \in Times, NEW lock \in BOOLEAN, Exec(t, lock) PROVE GpuInStep'
  <2>1. cpu'.pending = (cpu.pending /\ cpu.lock)
    BY <1>13, Zenon DEF Exec
  <2>2. UNCHANGED gpu_on /\ (gpu_on => gpus' = (gpus /\ cpu.lock))
    BY <1>13 DEF Exec
  <2> QED BY <2>1, <2>2, Zenon DEF GpuInStep
<1>14. CASE UNCHANGED vars
  BY <1>1, <1>14 DEF vars
<1>15. CASE GpusOff
  <2>1. gpu_on' = FALSE
    BY <1>15 DEF GpusOff, Key, ScrMode
  <2> QED BY <2>1 DEF GpuInStep
<1> QED
  BY <1>3, <1>4, <1>5, <1>6, <1>7, <1>8, <1>9, <1>10, <1>11, <1>12, <1>13, <1>14, <1>15 DEF Next

(* The GPUs have a pending request exactly when the CPU has one, whatever   *)
(* is loaded, reset or chosen (z80_g_int(), z80_g_execinstr()).             *)
THEOREM GpusCorrect == Spec => []GpuInStep
<1>1. Init => GpuInStep
  BY DEF Init, GpuInStep
<1> QED BY TypeInitially, TypeStep, <1>1, GpuStep, PTL DEF Spec

(***************************************************************************)
(* The single step.                                                         *)
(***************************************************************************)

(* A step that has not ended behind the first instruction remembers its     *)
(* lock, and ends behind the second for it.                                 *)
StepInv == dbg.itrap => steps = 0 \/ (steps = 1 /\ dbg.prev)

LEMMA StepStep == TypeOK /\ StepInv /\ [Next]_vars => StepInv'
<1> SUFFICES ASSUME TypeOK, StepInv, [Next]_vars PROVE StepInv'
  OBVIOUS
<1>1. ASSUME UNCHANGED <<dbg, steps>> PROVE StepInv'
  BY <1>1 DEF StepInv
<1>2. ASSUME NEW back, EnterDebugger(back) PROVE StepInv'
  <2>1. ~dbg'.itrap
    BY <1>2, Zenon DEF EnterDebugger, TypeOK
  <2> QED BY <2>1 DEF StepInv
<1>3. CASE Top \/ KeysDone \/ Quit
  BY <1>1, <1>3 DEF Top, KeysDone, Quit
<1>4. ASSUME NEW mode \in {0, 1}, ChooseMode(mode) PROVE StepInv'
  BY <1>1, <1>4 DEF ChooseMode, Key
<1>5. CASE GpusOff \/ Reset \/ LoadAY
  BY <1>1, <1>5 DEF GpusOff, Reset, LoadAY, Key
<1>6. ASSUME NEW gfx \in BOOLEAN, NEW missing \in BOOLEAN, LoadSnapshot(gfx, missing) PROVE StepInv'
  BY <1>1, <1>6 DEF LoadSnapshot, Key
<1>7. CASE ToggleDblLn \/ ViewScreen
  BY <1>1, <1>7 DEF ToggleDblLn, ViewScreen, Key, DrawNow
<1>8. CASE DebugKey
  BY <1>2, <1>8 DEF DebugKey
<1>9. ASSUME NEW itrap \in BOOLEAN, NEW stop \in BOOLEAN, LeaveDebugger(itrap, stop) PROVE StepInv'
  BY <1>9 DEF LeaveDebugger, StepInv
<1>10. CASE CatchUp
  BY <1>1, <1>10 DEF CatchUp
<1>11. ASSUME NEW hit \in BOOLEAN, Sample(hit) PROVE StepInv'
  BY <1>1, <1>2, <1>11 DEF Sample
<1>12. ASSUME NEW t \in Times, NEW lock \in BOOLEAN, Exec(t, lock) PROVE StepInv'
  <2>1. CASE Stops(lock)
    BY <1>2, <1>12, <2>1 DEF Exec
  <2>2. CASE ~Stops(lock) /\ dbg.itrap
    <3>1. dbg' = [dbg EXCEPT !.prev = lock] /\ steps' = steps + 1
      BY <1>12, <2>2 DEF Exec
    <3>2. lock /\ ~dbg.prev
      BY <2>2 DEF Stops
    <3>3. dbg'.prev
      BY <3>1, <3>2, Zenon DEF TypeOK
    <3>4. steps = 0
      BY <2>2, <3>2 DEF StepInv
    <3> QED BY <3>1, <3>3, <3>4 DEF StepInv
  <2>3. CASE ~Stops(lock) /\ ~dbg.itrap
    <3>1. dbg' = dbg
      BY <1>12, <2>3 DEF Exec
    <3> QED BY <2>3, <3>1 DEF StepInv
  <2> QED BY <2>1, <2>2, <2>3
<1>13. CASE UNCHANGED vars
  BY <1>1, <1>13 DEF vars
<1> QED
  BY <1>3, <1>4, <1>5, <1>6, <1>7, <1>8, <1>9, <1>10, <1>11, <1>12, <1>13 DEF Next

(* A single step ends behind the second instruction at the latest, for      *)
(* every sequence of prefixes (zx_proc_instr()).                            *)
THEOREM StepsCorrect == Spec => []StepEnds
<1>1. Init => StepInv
  BY DEF Init, StepInv
<1>2. StepInv => StepEnds
  BY DEF StepInv, StepEnds
<1> QED BY TypeInitially, TypeStep, <1>1, StepStep, <1>2, PTL DEF Spec
=============================================================================
