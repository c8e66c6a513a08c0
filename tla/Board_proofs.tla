---------------------------- MODULE Board_proofs ----------------------------
(***************************************************************************)
(* Theorems of the board: the boot stays within the hardware's limits and  *)
(* arrives complete, whatever part is broken; the enumeration opens what   *)
(* the host binds, in the memory there is; the telemetry never passes for  *)
(* a measurement what is none; and no part leaves its types.               *)
(***************************************************************************)
EXTENDS MCBoard, SequenceTheorems, FiniteSetTheorems, WellFoundedInduction, NaturalsInduction, TLAPS

-----------------------------------------------------------------------------
(* The program, written out                                                *)

Listing ==
  << "EnableFpu", "CopyData", "ZeroBss", "Constructors", "InitFaultLed",
     "HseOff", "HseGone", "HseBypass", "HseOn", "HseReady", "Latency", "LatencyTaken", "Prescalers",
     "PllOff", "PllGone", "PllConfig", "PllOn", "PllReady", "Switch", "Switched",
     "InitOtgFsGpio", "InitOtgFsClock", "InitTinyUsbStack", "PrepareEffect", "EnableBlockTimer",
     "Serve" >>

Steps == {Listing[i] : i \in 1..26}

\* Two neighbouring pieces of a sequence make one.
LEMMA Joined ==
  ASSUME NEW S, NEW f \in Seq(S), NEW m \in Nat, NEW n \in Nat, m <= n, n <= Len(f)
  PROVE  SubSeq(f, 1, m) \o SubSeq(f, m + 1, n) = SubSeq(f, 1, n)
OBVIOUS

\* The parts of the program, put together.
LEMMA ProgramListed == Program = Listing
<1>1. Listing \in Seq(Steps) /\ Len(Listing) = 26
  BY DEF Listing, Steps
<1>2. ResetSequence = SubSeq(Listing, 1, 4)
  BY DEF ResetSequence, Listing
<1>3. << "InitFaultLed" >> = SubSeq(Listing, 5, 5)
  BY DEF Listing
<1>4. ClockSequence = SubSeq(Listing, 6, 20)
  BY DEF ClockSequence, Listing
<1>5. Bringup = SubSeq(Listing, 21, 26)
  BY DEF Bringup, Listing
<1>6. SubSeq(Listing, 1, 4) \o SubSeq(Listing, 5, 5) = SubSeq(Listing, 1, 5)
  BY <1>1, Joined, 4 + 1 = 5
<1>7. SubSeq(Listing, 1, 5) \o SubSeq(Listing, 6, 20) = SubSeq(Listing, 1, 20)
  BY <1>1, Joined, 5 + 1 = 6
<1>8. SubSeq(Listing, 1, 20) \o SubSeq(Listing, 21, 26) = SubSeq(Listing, 1, 26)
  BY <1>1, Joined, 20 + 1 = 21
<1>9. SubSeq(Listing, 1, 26) = Listing
  BY <1>1
<1> QED
  BY <1>2, <1>3, <1>4, <1>5, <1>6, <1>7, <1>8, <1>9, Zenon DEF Program

\* Where each step leads.
LEMMA NextStep ==
  /\ After("EnableFpu") = "CopyData"
  /\ After("CopyData") = "ZeroBss"
  /\ After("ZeroBss") = "Constructors"
  /\ After("Constructors") = "InitFaultLed"
  /\ After("InitFaultLed") = "HseOff"
  /\ After("HseOff") = "HseGone"
  /\ After("HseGone") = "HseBypass"
  /\ After("HseBypass") = "HseOn"
  /\ After("HseOn") = "HseReady"
  /\ After("HseReady") = "Latency"
  /\ After("Latency") = "LatencyTaken"
  /\ After("LatencyTaken") = "Prescalers"
  /\ After("Prescalers") = "PllOff"
  /\ After("PllOff") = "PllGone"
  /\ After("PllGone") = "PllConfig"
  /\ After("PllConfig") = "PllOn"
  /\ After("PllOn") = "PllReady"
  /\ After("PllReady") = "Switch"
  /\ After("Switch") = "Switched"
  /\ After("Switched") = "InitOtgFsGpio"
  /\ After("InitOtgFsGpio") = "InitOtgFsClock"
  /\ After("InitOtgFsClock") = "InitTinyUsbStack"
  /\ After("InitTinyUsbStack") = "PrepareEffect"
  /\ After("PrepareEffect") = "EnableBlockTimer"
  /\ After("EnableBlockTimer") = "Serve"
BY ProgramListed, SMTT(60) DEF After, Listing

\* Where reset starts.
LEMMA FirstStep == Program[1] = "EnableFpu"
BY ProgramListed DEF Listing

\* Where a poll that gives up goes on, and the poll that ends InitSystemClock.
LEMMA Milestones == Bringup[1] = "InitOtgFsGpio" /\ ClockSequence[Len(ClockSequence)] = "Switched"
BY ProgramListed DEF Listing, Bringup, ClockSequence

-----------------------------------------------------------------------------
(* The inductive invariant                                                 *)

\* The parts of the program: Reset_Handler, InitSystemClock up to the wait states
\* and from there on, and the rest of main.
Starting == {"EnableFpu", "CopyData", "ZeroBss", "Constructors"}
Slow == {"HseOff", "HseGone", "HseBypass", "HseOn", "HseReady", "Latency", "LatencyTaken"}
Fast == {"Prescalers", "PllOff", "PllGone", "PllConfig", "PllOn", "PllReady", "Switch", "Switched"}
Bringing ==
  {"InitOtgFsGpio", "InitOtgFsClock", "InitTinyUsbStack", "PrepareEffect", "EnableBlockTimer",
   "Serve"}
Places == Starting \cup {"InitFaultLed"} \cup Slow \cup Fast \cup Bringing \cup {"Halted"}

\* The shape of the records, and the fields a step tests or hands on.
Shapes ==
  /\ cpu = [pc |-> cpu.pc, polls |-> cpu.polls, status |-> cpu.status,
            fpu |-> cpu.fpu, data |-> cpu.data, bss |-> cpu.bss]
  /\ app = [built |-> app.built, effect |-> app.effect, timer |-> app.timer,
            irq |-> app.irq, queue |-> app.queue]
  /\ reg = [gpio |-> reg.gpio, otg |-> reg.otg, led |-> reg.led, pins |-> reg.pins,
            hse |-> reg.hse, bypass |-> reg.bypass, hseReady |-> reg.hseReady,
            latency |-> reg.latency, prescalers |-> reg.prescalers,
            pll |-> reg.pll, pllReady |-> reg.pllReady,
            config |-> reg.config, mux |-> reg.mux, sw |-> reg.sw, sws |-> reg.sws]
  /\ cpu.pc \in Places
  /\ reg.pll \in BOOLEAN /\ reg.pllReady \in BOOLEAN
  /\ reg.mux = "pllq" /\ reg.sw \in {"hsi", "pll"} /\ reg.sws \in {"hsi", "pll"}
  /\ app.built # "garbage"

\* What Reset_Handler has prepared by the time a step needs it.
MemoryInOrder ==
  /\ cpu.pc # "EnableFpu" => cpu.fpu
  /\ cpu.pc \notin {"EnableFpu", "CopyData"} => cpu.data
  /\ cpu.pc \notin {"EnableFpu", "CopyData", "ZeroBss"} => cpu.bss
  /\ cpu.pc \notin Starting => app.built = "whole"

\* What each step of InitSystemClock finds done by the ones before.
ClockInOrder ==
  /\ cpu.pc \in Fast => reg.latency = 5
  /\ cpu.pc \in Fast \ {"Prescalers"} => reg.prescalers = <<1, 4, 2>>
  /\ cpu.pc \in {"PllGone", "PllConfig"} => ~reg.pll
  /\ cpu.pc \in {"PllOn", "PllReady", "Switch", "Switched"} => reg.config = kPllCfgr
  /\ cpu.pc \in {"PllReady", "Switch", "Switched"} => reg.pll
  /\ cpu.pc \in {"Switch", "Switched"} => reg.pllReady

\* Once the switch is requested, everything it depends on is in place and stays so.
OnThePll ==
  /\ reg.sw = "pll" =>
       /\ cpu.pc \in {"Switched", "Halted"} \cup Bringing
       /\ reg.latency = 5 /\ reg.prescalers = <<1, 4, 2>> /\ reg.config = kPllCfgr
       /\ reg.pll /\ reg.pllReady
  /\ reg.sws = "pll" => reg.sw = "pll"
  /\ cpu.status = "kOk" => reg.sws = "pll"

\* What main has brought up by the time a later step needs it.
InPlace ==
  /\ cpu.pc \notin Starting \cup {"InitFaultLed"} => reg.gpio /\ reg.led
  /\ cpu.pc \in Bringing \ {"InitOtgFsGpio"} => reg.pins = "af10"
  /\ cpu.pc \in Bringing \ {"InitOtgFsGpio", "InitOtgFsClock"} => reg.otg
  /\ cpu.pc \in {"PrepareEffect", "EnableBlockTimer", "Serve"} => app.irq
  /\ cpu.pc \in {"EnableBlockTimer", "Serve"} => app.effect = 48000
  /\ cpu.pc = "Serve" => app.timer

\* None of the parts is inductive alone: the limits on the PLL rest on the order of
\* the clock steps, and that on where the program is.
BootInv == Shapes /\ MemoryInOrder /\ ClockInOrder /\ OnThePll /\ InPlace

\* Out of reset, or started by a debugger.
FromReset == cpu = PoweredUp /\ reg \in {ResetRegisters, LeftRunning} /\ app = Unbuilt

\* Both establish the invariant.
LEMMA ResetKeeps == FromReset => BootInv
<1> SUFFICES ASSUME FromReset PROVE BootInv
  OBVIOUS
<1> USE DEF FromReset
<1>1. cpu.pc = "EnableFpu" /\ cpu.status = "none"
  <2>1. cpu.pc = Program[1] /\ cpu.status = "none"
    BY DEF PoweredUp
  <2> QED
    BY <2>1, FirstStep
<1>2. reg.sw = "hsi" /\ reg.sws = "hsi"
  <2>1. CASE reg = ResetRegisters
    BY <2>1 DEF ResetRegisters
  <2>2. CASE reg = LeftRunning
    BY <2>2 DEF ResetRegisters, LeftRunning
  <2> QED
    BY <2>1, <2>2
<1>3. Shapes
  <2>1. cpu = [pc |-> cpu.pc, polls |-> cpu.polls, status |-> cpu.status,
               fpu |-> cpu.fpu, data |-> cpu.data, bss |-> cpu.bss]
    BY DEF PoweredUp
  <2>2. /\ app = [built |-> app.built, effect |-> app.effect, timer |-> app.timer,
                  irq |-> app.irq, queue |-> app.queue]
        /\ app.built # "garbage"
    BY DEF Unbuilt
  <2>3. CASE reg = ResetRegisters
    BY <1>1, <2>1, <2>2, <2>3 DEF Shapes, ResetRegisters, Places, Starting
  <2>4. CASE reg = LeftRunning
    BY <1>1, <2>1, <2>2, <2>4 DEF Shapes, ResetRegisters, LeftRunning, Places, Starting
  <2> QED
    BY <2>3, <2>4
<1> QED
  BY <1>1, <1>2, <1>3 DEF BootInv, MemoryInOrder, ClockInOrder, OnThePll, InPlace,
     Starting, Fast, Bringing

-----------------------------------------------------------------------------
(* One lemma for each action                                               *)

\* Reset_Handler.
LEMMA EnableFpuKeeps == ASSUME BootInv, EnableFpu PROVE BootInv'
<1>1. cpu.pc = "EnableFpu"
  BY DEF EnableFpu, At
<1>2. /\ cpu' = [cpu EXCEPT !.fpu = TRUE, !.pc = "CopyData"]
      /\ reg' = reg /\ app' = app
  BY <1>1, NextStep DEF EnableFpu, Proceed
<1>3. Shapes'
  BY <1>1, <1>2 DEF BootInv, Shapes, Places, Starting, Slow, Fast, Bringing
<1>4. MemoryInOrder'
  BY <1>1, <1>2 DEF BootInv, Shapes, MemoryInOrder, Starting
<1>5. ClockInOrder'
  BY <1>1, <1>2 DEF BootInv, Shapes, ClockInOrder, Fast
<1>6. OnThePll'
  BY <1>1, <1>2 DEF BootInv, Shapes, OnThePll, Bringing
<1>7. InPlace'
  BY <1>1, <1>2 DEF BootInv, Shapes, InPlace, Starting, Bringing
<1> QED
  BY <1>3, <1>4, <1>5, <1>6, <1>7 DEF BootInv

\* .data is copied from flash.
LEMMA CopyDataKeeps == ASSUME BootInv, CopyData PROVE BootInv'
<1>1. cpu.pc = "CopyData"
  BY DEF CopyData, At
<1>2. /\ cpu' = [cpu EXCEPT !.data = TRUE, !.pc = "ZeroBss"]
      /\ reg' = reg /\ app' = app
  BY <1>1, NextStep DEF CopyData, Proceed
<1>3. Shapes'
  BY <1>1, <1>2 DEF BootInv, Shapes, Places, Starting, Slow, Fast, Bringing
<1>4. MemoryInOrder'
  BY <1>1, <1>2 DEF BootInv, Shapes, MemoryInOrder, Starting
<1>5. ClockInOrder'
  BY <1>1, <1>2 DEF BootInv, Shapes, ClockInOrder, Fast
<1>6. OnThePll'
  BY <1>1, <1>2 DEF BootInv, Shapes, OnThePll, Bringing
<1>7. InPlace'
  BY <1>1, <1>2 DEF BootInv, Shapes, InPlace, Starting, Bringing
<1> QED
  BY <1>3, <1>4, <1>5, <1>6, <1>7 DEF BootInv

\* .bss is cleared.
LEMMA ZeroBssKeeps == ASSUME BootInv, ZeroBss PROVE BootInv'
<1>1. cpu.pc = "ZeroBss"
  BY DEF ZeroBss, At
<1>2. /\ cpu' = [cpu EXCEPT !.bss = TRUE, !.pc = "Constructors"]
      /\ reg' = reg /\ app' = app
  BY <1>1, NextStep DEF ZeroBss, Proceed
<1>3. Shapes'
  BY <1>1, <1>2 DEF BootInv, Shapes, Places, Starting, Slow, Fast, Bringing
<1>4. MemoryInOrder'
  BY <1>1, <1>2 DEF BootInv, Shapes, MemoryInOrder, Starting
<1>5. ClockInOrder'
  BY <1>1, <1>2 DEF BootInv, Shapes, ClockInOrder, Fast
<1>6. OnThePll'
  BY <1>1, <1>2 DEF BootInv, Shapes, OnThePll, Bringing
<1>7. InPlace'
  BY <1>1, <1>2 DEF BootInv, Shapes, InPlace, Starting, Bringing
<1> QED
  BY <1>3, <1>4, <1>5, <1>6, <1>7 DEF BootInv

\* The constructors run with FPU and memory ready.
LEMMA ConstructorsKeeps == ASSUME BootInv, Constructors PROVE BootInv'
<1>1. cpu.pc = "Constructors"
  BY DEF Constructors, At
<1>0. cpu.fpu /\ cpu.data /\ cpu.bss
  BY <1>1 DEF BootInv, MemoryInOrder
<1>2. /\ cpu' = [cpu EXCEPT !.pc = "InitFaultLed"]
      /\ reg' = reg /\ app' = [app EXCEPT !.built = "whole"]
  BY <1>1, <1>0, NextStep DEF Constructors, Proceed
<1>3. Shapes'
  BY <1>1, <1>2 DEF BootInv, Shapes, Places, Starting, Slow, Fast, Bringing
<1>4. MemoryInOrder'
  BY <1>1, <1>2 DEF BootInv, Shapes, MemoryInOrder, Starting
<1>5. ClockInOrder'
  BY <1>1, <1>2 DEF BootInv, Shapes, ClockInOrder, Fast
<1>6. OnThePll'
  BY <1>1, <1>2 DEF BootInv, Shapes, OnThePll, Bringing
<1>7. InPlace'
  BY <1>1, <1>2 DEF BootInv, Shapes, InPlace, Starting, Bringing
<1> QED
  BY <1>3, <1>4, <1>5, <1>6, <1>7 DEF BootInv

\* The LED pin gets its clock first.
LEMMA InitFaultLedKeeps == ASSUME BootInv, InitFaultLed PROVE BootInv'
<1>1. cpu.pc = "InitFaultLed"
  BY DEF InitFaultLed, At
<1>2. /\ cpu' = [cpu EXCEPT !.pc = "HseOff"]
      /\ reg' = [reg EXCEPT !.gpio = TRUE, !.led = TRUE] /\ app' = app
  BY <1>1, NextStep DEF InitFaultLed, Proceed
<1>3. Shapes'
  BY <1>1, <1>2 DEF BootInv, Shapes, Places, Starting, Slow, Fast, Bringing
<1>4. MemoryInOrder'
  BY <1>1, <1>2 DEF BootInv, Shapes, MemoryInOrder, Starting
<1>5. ClockInOrder'
  BY <1>1, <1>2 DEF BootInv, Shapes, ClockInOrder, Fast
<1>6. OnThePll'
  BY <1>1, <1>2 DEF BootInv, Shapes, OnThePll, Bringing
<1>7. InPlace'
  BY <1>1, <1>2 DEF BootInv, Shapes, InPlace, Starting, Bringing
<1> QED
  BY <1>3, <1>4, <1>5, <1>6, <1>7 DEF BootInv

\* The writes of InitSystemClock, with the hardware taking each or not.
LEMMA InitSystemClockKeeps == ASSUME BootInv, InitSystemClock PROVE BootInv'
<1>1. app' = app
  BY DEF InitSystemClock
<1>2. /\ cpu.pc = "PllConfig" => ~reg.pll
      /\ cpu.pc = "Prescalers" => reg.latency = 5
  BY DEF BootInv, ClockInOrder, Fast
<1>3. \/ /\ cpu.pc = "HseOff" /\ cpu' = [cpu EXCEPT !.pc = "HseGone"]
         /\ reg' = [reg EXCEPT !.hse = FALSE]
      \/ /\ cpu.pc = "HseBypass" /\ cpu' = [cpu EXCEPT !.pc = "HseOn"]
         /\ reg' \in {reg, [reg EXCEPT !.bypass = TRUE]}
      \/ /\ cpu.pc = "HseOn" /\ cpu' = [cpu EXCEPT !.pc = "HseReady"]
         /\ reg' = [reg EXCEPT !.hse = TRUE]
      \/ /\ cpu.pc = "Latency" /\ cpu' = [cpu EXCEPT !.pc = "LatencyTaken"]
         /\ reg' \in {reg, [reg EXCEPT !.latency = 5]}
      \/ /\ cpu.pc = "Prescalers" /\ cpu' = [cpu EXCEPT !.pc = "PllOff"]
         /\ reg' = [reg EXCEPT !.prescalers = <<1, 4, 2>>]
      \/ /\ cpu.pc = "PllOff" /\ cpu' = [cpu EXCEPT !.pc = "PllGone"]
         /\ reg' = [reg EXCEPT !.pll = FALSE]
      \/ /\ cpu.pc = "PllConfig" /\ cpu' = [cpu EXCEPT !.pc = "PllOn"]
         /\ reg' = [reg EXCEPT !.config = kPllCfgr, !.mux = "pllq"]
      \/ /\ cpu.pc = "PllOn" /\ cpu' = [cpu EXCEPT !.pc = "PllReady"]
         /\ reg' = [reg EXCEPT !.pll = TRUE]
      \/ /\ cpu.pc = "Switch" /\ cpu' = [cpu EXCEPT !.pc = "Switched"]
         /\ reg' = [reg EXCEPT !.sw = "pll"]
  BY <1>2, NextStep DEF InitSystemClock, Writes, AfterWrite
<1>4. Shapes'
  <2>1. /\ cpu' = [pc |-> cpu'.pc, polls |-> cpu'.polls, status |-> cpu'.status,
                  fpu |-> cpu'.fpu, data |-> cpu'.data, bss |-> cpu'.bss]
        /\ cpu'.pc \in Slow \cup Fast
    BY <1>3 DEF BootInv, Shapes, Slow, Fast
  <2>2. reg' = [gpio |-> reg'.gpio, otg |-> reg'.otg, led |-> reg'.led, pins |-> reg'.pins,
                hse |-> reg'.hse, bypass |-> reg'.bypass, hseReady |-> reg'.hseReady,
                latency |-> reg'.latency, prescalers |-> reg'.prescalers,
                pll |-> reg'.pll, pllReady |-> reg'.pllReady,
                config |-> reg'.config, mux |-> reg'.mux, sw |-> reg'.sw, sws |-> reg'.sws]
    BY <1>3 DEF BootInv, Shapes
  <2>3. /\ reg'.pll \in BOOLEAN /\ reg'.pllReady \in BOOLEAN
        /\ reg'.mux = "pllq" /\ reg'.sw \in {"hsi", "pll"} /\ reg'.sws \in {"hsi", "pll"}
    BY <1>3 DEF BootInv, Shapes
  <2> QED
    BY <1>1, <2>1, <2>2, <2>3 DEF BootInv, Shapes, Places
<1>5. MemoryInOrder'
  BY <1>1, <1>3 DEF BootInv, Shapes, MemoryInOrder, Starting
<1>6. ClockInOrder'
  <2>1. \/ cpu'.pc \notin Fast
        \/ cpu.pc = "Prescalers" /\ cpu'.pc = "PllOff"
        \/ cpu.pc = "PllOff" /\ cpu'.pc = "PllGone"
        \/ cpu.pc = "PllConfig" /\ cpu'.pc = "PllOn"
        \/ cpu.pc = "PllOn" /\ cpu'.pc = "PllReady"
        \/ cpu.pc = "Switch" /\ cpu'.pc = "Switched"
    BY <1>3 DEF BootInv, Shapes, Fast
  <2>2. cpu.pc # "Latency" => reg'.latency = reg.latency
    BY <1>3 DEF BootInv, Shapes
  <2>3. reg'.prescalers = IF cpu.pc = "Prescalers" THEN <<1, 4, 2>> ELSE reg.prescalers
    BY <1>3 DEF BootInv, Shapes
  <2>4. reg'.config = IF cpu.pc = "PllConfig" THEN kPllCfgr ELSE reg.config
    BY <1>3 DEF BootInv, Shapes
  <2>5. /\ cpu.pc = "PllOff" => ~reg'.pll
        /\ cpu.pc = "PllOn" => reg'.pll
        /\ cpu.pc = "Switch" => reg'.pll = reg.pll /\ reg'.pllReady = reg.pllReady
    BY <1>3 DEF BootInv, Shapes
  <2> QED
    BY <2>1, <2>2, <2>3, <2>4, <2>5 DEF BootInv, ClockInOrder, Fast
<1>7. OnThePll'
  <2>1. reg.sw # "pll" /\ reg.sws # "pll" /\ cpu.status # "kOk"
    BY <1>3 DEF BootInv, OnThePll, Bringing
  <2>2. cpu'.status = cpu.status /\ reg'.sws = reg.sws
    BY <1>3 DEF BootInv, Shapes
  <2>3. reg'.sw = "pll" =>
          cpu.pc = "Switch" /\ cpu'.pc = "Switched" /\ reg' = [reg EXCEPT !.sw = "pll"]
    BY <1>3, <2>1 DEF BootInv, Shapes
  <2>4. cpu.pc = "Switch" =>
          /\ reg.latency = 5 /\ reg.prescalers = <<1, 4, 2>> /\ reg.config = kPllCfgr
          /\ reg.pll /\ reg.pllReady
    BY DEF BootInv, ClockInOrder, Fast
  <2>5. reg'.sw = "pll" =>
          /\ reg'.latency = 5 /\ reg'.prescalers = <<1, 4, 2>> /\ reg'.config = kPllCfgr
          /\ reg'.pll /\ reg'.pllReady
    BY <2>3, <2>4 DEF BootInv, Shapes
  <2> QED
    BY <2>1, <2>2, <2>3, <2>5 DEF OnThePll
<1>8. InPlace'
  <2>1. reg'.gpio = reg.gpio /\ reg'.led = reg.led
    BY <1>3 DEF BootInv, Shapes
  <2>2. cpu.pc \notin Starting \cup {"InitFaultLed"} /\ cpu'.pc \notin Bringing
    BY <1>3 DEF BootInv, Shapes, Starting, Bringing
  <2> QED
    BY <2>1, <2>2 DEF BootInv, InPlace, Bringing
<1> QED
  BY <1>4, <1>5, <1>6, <1>7, <1>8 DEF BootInv

\* A poll sees its condition, turns once more, or gives up.
LEMMA PollKeeps == ASSUME BootInv, Poll PROVE BootInv'
<1>1. app' = app /\ reg' = reg
  BY DEF Poll
<1>2. cpu.pc \in {"HseGone", "HseReady", "LatencyTaken", "PllGone", "PllReady", "Switched"}
  BY DEF Poll, ClockInitStatus
<1>3. CASE ~Arrived(cpu.pc) /\ cpu.polls < PollLimit
  <2>1. cpu' = [cpu EXCEPT !.polls = @ + 1]
    BY <1>3 DEF Poll
  <2> QED
    BY <1>1, <2>1 DEF BootInv, Shapes, MemoryInOrder, ClockInOrder, OnThePll, InPlace
<1>4. CASE ~Arrived(cpu.pc) /\ ~(cpu.polls < PollLimit)
  <2>1. ClockInitStatus[cpu.pc] # "kOk"
    BY <1>2 DEF ClockInitStatus
  <2>2. /\ cpu'.pc = "InitOtgFsGpio" /\ cpu'.status # "kOk"
        /\ cpu' = [cpu EXCEPT !.pc = "InitOtgFsGpio", !.polls = 0,
                               !.status = ClockInitStatus[cpu.pc]]
    BY <1>4, <2>1, Milestones DEF Poll, BootInv, Shapes
  <2>3. Shapes'
    BY <1>1, <2>2 DEF BootInv, Shapes, Places, Bringing
  <2>4. MemoryInOrder' /\ ClockInOrder'
    BY <1>1, <1>2, <2>2 DEF BootInv, Shapes, MemoryInOrder, ClockInOrder, Starting, Fast
  <2>5. OnThePll'
    BY <1>1, <2>2 DEF BootInv, OnThePll, Bringing
  <2>6. InPlace'
    BY <1>1, <1>2, <2>2 DEF BootInv, InPlace, Starting, Bringing
  <2> QED
    BY <2>3, <2>4, <2>5, <2>6 DEF BootInv
<1>5. CASE Arrived(cpu.pc)
  <2>1. cpu' = [cpu EXCEPT !.pc = After(cpu.pc), !.polls = 0,
                            !.status = IF cpu.pc = "Switched" THEN "kOk" ELSE @]
    BY <1>5, Milestones DEF Poll
  <2>2. cpu'.pc = After(cpu.pc) /\ cpu'.status = IF cpu.pc = "Switched" THEN "kOk" ELSE cpu.status
    BY <2>1 DEF BootInv, Shapes
  <2>3. /\ cpu.pc = "LatencyTaken" => reg.latency = 5
        /\ cpu.pc = "PllReady" => reg.pllReady
        /\ cpu.pc = "Switched" => reg.sws = "pll"
    BY <1>5 DEF Arrived
  <2>4. \/ cpu.pc = "HseGone" /\ cpu'.pc = "HseBypass" /\ cpu'.status = cpu.status
        \/ cpu.pc = "HseReady" /\ cpu'.pc = "Latency" /\ cpu'.status = cpu.status
        \/ /\ cpu.pc = "LatencyTaken" /\ cpu'.pc = "Prescalers" /\ cpu'.status = cpu.status
           /\ reg.latency = 5
        \/ cpu.pc = "PllGone" /\ cpu'.pc = "PllConfig" /\ cpu'.status = cpu.status
        \/ cpu.pc = "PllReady" /\ cpu'.pc = "Switch" /\ cpu'.status = cpu.status /\ reg.pllReady
        \/ /\ cpu.pc = "Switched" /\ cpu'.pc = "InitOtgFsGpio" /\ cpu'.status = "kOk"
           /\ reg.sws = "pll"
    BY <1>2, <2>2, <2>3, NextStep
  <2>5. Shapes'
    BY <1>1, <2>1, <2>4 DEF BootInv, Shapes, Places, Slow, Fast, Bringing
  <2>6. MemoryInOrder'
    BY <1>1, <2>1, <2>4 DEF BootInv, Shapes, MemoryInOrder, Starting
  <2>7. ClockInOrder'
    BY <1>1, <2>4 DEF BootInv, ClockInOrder, Fast
  <2>8. OnThePll'
    BY <1>1, <2>4 DEF BootInv, OnThePll, Bringing
  <2>9. InPlace'
    BY <1>1, <2>4 DEF BootInv, InPlace, Starting, Bringing
  <2> QED
    BY <2>5, <2>6, <2>7, <2>8, <2>9 DEF BootInv
<1> QED
  BY <1>3, <1>4, <1>5

\* The pins change over, because their port has its clock.
LEMMA InitOtgFsGpioKeeps == ASSUME BootInv, InitOtgFsGpio PROVE BootInv'
<1>1. cpu.pc = "InitOtgFsGpio"
  BY DEF InitOtgFsGpio, At
<1>0. reg.gpio
  BY <1>1 DEF BootInv, InPlace, Starting
<1>2. /\ cpu' = [cpu EXCEPT !.pc = "InitOtgFsClock"]
      /\ reg' = [reg EXCEPT !.pins = "af10"] /\ app' = app
  BY <1>1, <1>0, NextStep DEF InitOtgFsGpio, Proceed
<1>3. Shapes'
  BY <1>1, <1>2 DEF BootInv, Shapes, Places, Starting, Slow, Fast, Bringing
<1>4. MemoryInOrder'
  BY <1>1, <1>2 DEF BootInv, Shapes, MemoryInOrder, Starting
<1>5. ClockInOrder'
  BY <1>1, <1>2 DEF BootInv, Shapes, ClockInOrder, Fast
<1>6. OnThePll'
  BY <1>1, <1>2 DEF BootInv, Shapes, OnThePll, Bringing
<1>7. InPlace'
  BY <1>1, <1>2 DEF BootInv, Shapes, InPlace, Starting, Bringing
<1> QED
  BY <1>3, <1>4, <1>5, <1>6, <1>7 DEF BootInv

\* The USB core gets its bus clock.
LEMMA InitOtgFsClockKeeps == ASSUME BootInv, InitOtgFsClock PROVE BootInv'
<1>1. cpu.pc = "InitOtgFsClock"
  BY DEF InitOtgFsClock, At
<1>2. /\ cpu' = [cpu EXCEPT !.pc = "InitTinyUsbStack"]
      /\ reg' = [reg EXCEPT !.otg = TRUE] /\ app' = app
  BY <1>1, NextStep DEF InitOtgFsClock, Proceed
<1>3. Shapes'
  BY <1>1, <1>2 DEF BootInv, Shapes, Places, Starting, Slow, Fast, Bringing
<1>4. MemoryInOrder'
  BY <1>1, <1>2 DEF BootInv, Shapes, MemoryInOrder, Starting
<1>5. ClockInOrder'
  BY <1>1, <1>2 DEF BootInv, Shapes, ClockInOrder, Fast
<1>6. OnThePll'
  BY <1>1, <1>2 DEF BootInv, Shapes, OnThePll, Bringing
<1>7. InPlace'
  BY <1>1, <1>2 DEF BootInv, Shapes, InPlace, Starting, Bringing
<1> QED
  BY <1>3, <1>4, <1>5, <1>6, <1>7 DEF BootInv

\* The effect is prepared at the rate of the stream.
LEMMA PrepareEffectKeeps == ASSUME BootInv, PrepareEffect PROVE BootInv'
<1>1. cpu.pc = "PrepareEffect"
  BY DEF PrepareEffect, At
<1>2. /\ cpu' = [cpu EXCEPT !.pc = "EnableBlockTimer"]
      /\ reg' = reg /\ app' = [app EXCEPT !.effect = 48000]
  BY <1>1, NextStep DEF PrepareEffect, Proceed
<1>3. Shapes'
  BY <1>1, <1>2 DEF BootInv, Shapes, Places, Starting, Slow, Fast, Bringing
<1>4. MemoryInOrder'
  BY <1>1, <1>2 DEF BootInv, Shapes, MemoryInOrder, Starting
<1>5. ClockInOrder'
  BY <1>1, <1>2 DEF BootInv, Shapes, ClockInOrder, Fast
<1>6. OnThePll'
  BY <1>1, <1>2 DEF BootInv, Shapes, OnThePll, Bringing
<1>7. InPlace'
  BY <1>1, <1>2 DEF BootInv, Shapes, InPlace, Starting, Bringing
<1> QED
  BY <1>3, <1>4, <1>5, <1>6, <1>7 DEF BootInv

\* The last step before the loop.
LEMMA StartBlockTimerKeeps == ASSUME BootInv, StartBlockTimer PROVE BootInv'
<1>1. cpu.pc = "EnableBlockTimer"
  BY DEF StartBlockTimer, At
<1>2. /\ cpu' = [cpu EXCEPT !.pc = "Serve"]
      /\ reg' = reg /\ app' = [app EXCEPT !.timer = TRUE]
  BY <1>1, NextStep DEF StartBlockTimer, Proceed
<1>3. Shapes'
  BY <1>1, <1>2 DEF BootInv, Shapes, Places, Starting, Slow, Fast, Bringing
<1>4. MemoryInOrder'
  BY <1>1, <1>2 DEF BootInv, Shapes, MemoryInOrder, Starting
<1>5. ClockInOrder'
  BY <1>1, <1>2 DEF BootInv, Shapes, ClockInOrder, Fast
<1>6. OnThePll'
  BY <1>1, <1>2 DEF BootInv, Shapes, OnThePll, Bringing
<1>7. InPlace'
  BY <1>1, <1>2 DEF BootInv, Shapes, InPlace, Starting, Bringing
<1> QED
  BY <1>3, <1>4, <1>5, <1>6, <1>7 DEF BootInv

\* The stack comes up, or main stops.
LEMMA InitTinyUsbStackKeeps == ASSUME BootInv, InitTinyUsbStack PROVE BootInv'
<1>1. cpu.pc = "InitTinyUsbStack" /\ reg' = reg
  BY DEF InitTinyUsbStack, At
<1>2. \/ cpu' = [cpu EXCEPT !.pc = "PrepareEffect"] /\ app' = [app EXCEPT !.irq = TRUE]
      \/ cpu' = [cpu EXCEPT !.pc = "Halted"] /\ app' = app
  BY <1>1, NextStep DEF InitTinyUsbStack, Proceed
<1>3. Shapes'
  BY <1>1, <1>2 DEF BootInv, Shapes, Places, Bringing
<1>4. MemoryInOrder'
  BY <1>1, <1>2 DEF BootInv, Shapes, MemoryInOrder, Starting
<1>5. ClockInOrder' /\ OnThePll'
  BY <1>1, <1>2 DEF BootInv, Shapes, ClockInOrder, OnThePll, Fast, Bringing
<1>6. InPlace'
  BY <1>1, <1>2 DEF BootInv, Shapes, InPlace, Starting, Bringing
<1> QED
  BY <1>3, <1>4, <1>5, <1>6 DEF BootInv

\* The hardware on its own: what the boot waits for stays once it has come.
LEMMA HardwareKeeps == ASSUME BootInv, HseSettles \/ PllSettles \/ SwitchSettles PROVE BootInv'
<1>1. cpu' = cpu /\ app' = app
  BY DEF HseSettles, PllSettles, SwitchSettles
<1>2. \/ reg' = [reg EXCEPT !.hseReady = reg.hse]
      \/ reg' = [reg EXCEPT !.pllReady = reg.pll]
      \/ reg' = [reg EXCEPT !.sws = reg.sw]
  BY DEF HseSettles, PllSettles, SwitchSettles
<1>3. Shapes'
  BY <1>1, <1>2 DEF BootInv, Shapes
<1>4. ClockInOrder'
  BY <1>1, <1>2 DEF BootInv, Shapes, ClockInOrder, Fast
<1>5. OnThePll'
  <2>1. /\ reg'.pllReady = reg.pllReady \/ reg'.pllReady = reg.pll
        /\ reg'.sws = reg.sws \/ reg'.sws = reg.sw
        /\ reg'.sw = reg.sw /\ reg'.latency = reg.latency /\ reg'.prescalers = reg.prescalers
        /\ reg'.config = reg.config /\ reg'.pll = reg.pll
    BY <1>2 DEF BootInv, Shapes
  <2>2. reg.sws = "pll" => reg.sw = "pll"
    BY DEF BootInv, OnThePll
  <2> QED
    BY <1>1, <2>1, <2>2 DEF BootInv, OnThePll
<1>6. MemoryInOrder' /\ InPlace'
  BY <1>1, <1>2 DEF BootInv, Shapes, MemoryInOrder, InPlace
<1> QED
  BY <1>3, <1>4, <1>5, <1>6 DEF BootInv

\* The USB interrupt reaches its handler.
LEMMA InterruptKeeps == ASSUME BootInv, Interrupt PROVE BootInv'
<1>1. Vector(OTG_FS_IRQn) = "OTG_FS_IRQHandler"
  BY DEF Vector, Handlers, OTG_FS_IRQn, Reserved
<1>2. cpu' = cpu /\ reg' = reg /\ app' = [app EXCEPT !.queue = @ + 1]
  BY <1>1 DEF Interrupt
<1> QED
  BY <1>2 DEF BootInv, Shapes, MemoryInOrder, ClockInOrder, OnThePll, InPlace

\* A pass empties the queue.
LEMMA ServicePassKeeps == ASSUME BootInv, ServicePass PROVE BootInv'
BY DEF ServicePass, BootInv, Shapes, MemoryInOrder, ClockInOrder, OnThePll, InPlace

\* Power comes back.
LEMMA PowerCycleKeeps == ASSUME BootInv, PowerCycle PROVE BootInv'
<1>1. FromReset'
  BY DEF PowerCycle, FromReset
<1> QED
  BY <1>1, ResetKeeps, PTL

-----------------------------------------------------------------------------
(* The boot                                                                *)

\* The steps of the boot find what they need, from every reset, with any one part
\* broken and any interleaving with the hardware (startup.cpp, clock-init.h,
\* nucleo-main.cpp).
THEOREM BoardBoots == BootSpec => []BootInv
<1>1. BootInit => BootInv
  BY ResetKeeps DEF BootInit, FromReset
<1>2. ASSUME BootInv, BootNext PROVE BootInv'
  <2>1. CASE BootStep
    BY <1>2, <2>1, EnableFpuKeeps, CopyDataKeeps, ZeroBssKeeps, ConstructorsKeeps,
       InitFaultLedKeeps, InitSystemClockKeeps, PollKeeps, InitOtgFsGpioKeeps,
       InitOtgFsClockKeeps, InitTinyUsbStackKeeps, PrepareEffectKeeps, StartBlockTimerKeeps
       DEF BootStep
  <2>2. CASE PowerCycle
    BY <1>2, <2>2, PowerCycleKeeps
  <2> QED
    BY <1>2, <2>1, <2>2, HardwareKeeps, InterruptKeeps, ServicePassKeeps DEF BootNext
<1>3. BootInv /\ UNCHANGED bootVars => BootInv'
  BY DEF bootVars, BootInv, Shapes, MemoryInOrder, ClockInOrder, OnThePll, InPlace
<1> QED
  BY <1>1, <1>2, <1>3, PTL DEF BootSpec

\* What the configuration comes to: 168 MHz at the core, 48 MHz at the USB.
LEMMA Frequencies ==
  ASSUME NEW r, r.sws = "pll", r.config = kPllCfgr, r.pllReady, r.mux = "pllq"
  PROVE  Sysclk(r) = 168 * MHz /\ UsbClock(r) = 48 * MHz
<1>1. r.config.m = 4 /\ r.config.n = 168 /\ r.config.p = 0 /\ r.config.q = 7
  BY DEF kPllCfgr, kPllM, kPllN, kPllP, kPllQ
<1> QED
  BY <1>1 DEF Sysclk, UsbClock, Vco, kHseHz, MHz

\* Never out of the hardware's limits, never in a fault or the default handler, and
\* the service loop finds everything in place (clock-init.h:135-239,
\* nucleo-main.cpp:163-324).
THEOREM BootIsInOrder == BootSpec => []BoardComesUpWhole
<1>1. BootInv => NeverOutOfSpec
  BY Frequencies DEF BootInv, OnThePll, Shapes, Places, Starting, Slow, Fast, Bringing,
     NeverOutOfSpec, MHz
<1>2. BootInv => ServedIsWhole
  BY Frequencies DEF BootInv, OnThePll, Shapes, MemoryInOrder, InPlace, Starting, Bringing,
     ServedIsWhole, kUsbClkHz, kSysclkHz, kHseHz, kPllM, kPllN, kPllP, MHz
<1> QED
  BY <1>1, <1>2, BoardBoots, PTL DEF BoardComesUpWhole

-----------------------------------------------------------------------------
(* The boot's types                                                        *)

\* What no step of the boot takes out of its range.
BootRanges ==
  /\ cpu.polls \in 0..PollLimit /\ cpu.fpu \in BOOLEAN
  /\ cpu.status \in {"none", "kOk"} \cup {ClockInitStatus[p] : p \in DOMAIN ClockInitStatus}
  /\ reg.latency \in {0, 5}
  /\ app.queue \in 0..MaxEvents /\ app.effect \in {0, 48000}
  /\ broken \subseteq Parts /\ cycles \in 0..MaxCycles

\* Where power finds the board.
LEMMA ResetInRange ==
  ASSUME FromReset
  PROVE  cpu.polls = 0 /\ cpu.fpu \in BOOLEAN /\ cpu.status = "none" /\ reg.latency = 0
         /\ app.queue = 0 /\ app.effect = 0
<1>1. cpu.polls = 0 /\ cpu.status = "none"
  BY DEF FromReset, PoweredUp
<1>2. cpu.fpu \in BOOLEAN
  <2>1. cpu.fpu = FALSE
    BY Zenon DEF FromReset, PoweredUp
  <2> QED
    BY <2>1, Zenon
<1>3. reg.latency = 0
  <2>1. ResetRegisters.latency = 0 /\ LeftRunning.latency = 0
    BY DEF ResetRegisters, LeftRunning
  <2> QED
    BY <2>1 DEF FromReset
<1>4. app.queue = 0 /\ app.effect = 0
  BY DEF FromReset, Unbuilt
<1> QED
  BY <1>1, <1>2, <1>3, <1>4

\* Moving the program on changes nothing that has a range.
LEMMA MovingOn ==
  ASSUME BootInv, \E pc : cpu' = [cpu EXCEPT !.pc = pc]
  PROVE  cpu'.polls = cpu.polls /\ cpu'.status = cpu.status /\ cpu'.fpu = cpu.fpu
<1>1. PICK pc : cpu' = [cpu EXCEPT !.pc = pc]
  OBVIOUS
<1>2. cpu = [pc |-> cpu.pc, polls |-> cpu.polls, status |-> cpu.status,
             fpu |-> cpu.fpu, data |-> cpu.data, bss |-> cpu.bss]
  BY DEF BootInv, Shapes
<1> QED
  BY <1>1, <1>2

\* The steps that change no field with a range to leave.
LEMMA MovesKeepRanges ==
  ASSUME BootRanges, UNCHANGED <<broken, cycles>>,
         cpu'.polls = cpu.polls, cpu'.status = cpu.status, cpu'.fpu \in BOOLEAN,
         reg'.latency \in {reg.latency, 5},
         app'.queue \in 0..MaxEvents, app'.effect \in {app.effect, 48000}
  PROVE  BootRanges'
BY DEF BootRanges, ClockInitStatus

\* Every poll stops at its bound and reports by its own name.
LEMMA PollInRange == ASSUME BootInv, BootRanges, Poll PROVE BootRanges'
<1>1. UNCHANGED <<reg, app, broken, cycles>> /\ cpu.pc \in DOMAIN ClockInitStatus
  BY DEF Poll
<1>2. PollLimit \in Nat /\ cpu.polls \in 0..PollLimit
  BY BootAssumption DEF BootConstants, BootRanges
<1>3. /\ cpu'.polls = 0 \/ (cpu.polls < PollLimit /\ cpu'.polls = cpu.polls + 1)
      /\ cpu'.status \in {"kOk", cpu.status, ClockInitStatus[cpu.pc]}
  BY DEF Poll, BootInv, Shapes
<1>4. cpu'.polls \in 0..PollLimit
  BY <1>2, <1>3
<1>6. cpu'.fpu \in BOOLEAN
  <2>1. cpu'.fpu = cpu.fpu
    BY DEF Poll, BootInv, Shapes
  <2>2. cpu.fpu \in BOOLEAN
    BY DEF BootRanges
  <2> QED
    BY <2>1, <2>2
<1>5. cpu'.status \in {"none", "kOk"} \cup {ClockInitStatus[p] : p \in DOMAIN ClockInitStatus}
  <2>1. cpu'.status \in {"kOk", cpu.status, ClockInitStatus[cpu.pc]}
    BY <1>3, Zenon
  <2>2. cpu.status \in {"none", "kOk"} \cup {ClockInitStatus[p] : p \in DOMAIN ClockInitStatus}
    BY DEF BootRanges
  <2> QED
    BY <1>1, <2>1, <2>2, Zenon
<1> QED
  BY <1>1, <1>4, <1>5, <1>6 DEF BootRanges

\* No step of the boot program takes a field out of its range.
LEMMA BootStepInRange == ASSUME BootInv, BootRanges, BootStep PROVE BootRanges'
<1>0. app.queue \in 0..MaxEvents /\ cpu.fpu \in BOOLEAN
  BY DEF BootRanges
<1>1. CASE Poll
  BY <1>1, PollInRange
<1>2. CASE EnableFpu \/ CopyData \/ ZeroBss
  <2>1. cpu'.polls = cpu.polls /\ cpu'.status = cpu.status
    BY <1>2 DEF EnableFpu, CopyData, ZeroBss, BootInv, Shapes
  <2>2. cpu'.fpu \in BOOLEAN
    BY <1>0, <1>2 DEF EnableFpu, CopyData, ZeroBss, BootInv, Shapes
  <2>3. UNCHANGED <<reg, app, broken, cycles>>
    BY <1>2 DEF EnableFpu, CopyData, ZeroBss
  <2> QED
    BY <1>0, <2>1, <2>2, <2>3, MovesKeepRanges
<1>3. CASE Constructors
  <2>1. app' = app \/ \E b : app' = [app EXCEPT !.built = b]
    BY <1>3 DEF Constructors
  <2>2. app'.queue = app.queue /\ app'.effect = app.effect
    BY <2>1 DEF BootInv, Shapes
  <2>3. \E pc : cpu' = [cpu EXCEPT !.pc = pc]
    BY <1>3 DEF Constructors, Proceed
  <2> QED
    BY <1>0, <1>3, <2>2, <2>3, MovingOn, MovesKeepRanges DEF Constructors
<1>4. CASE InitFaultLed \/ InitOtgFsGpio \/ InitOtgFsClock
  <2>1. reg'.latency = reg.latency
    BY <1>4 DEF InitFaultLed, InitOtgFsGpio, InitOtgFsClock, BootInv, Shapes
  <2>2. UNCHANGED <<app, broken, cycles>> /\ \E pc : cpu' = [cpu EXCEPT !.pc = pc]
    BY <1>4 DEF InitFaultLed, InitOtgFsGpio, InitOtgFsClock, Proceed
  <2> QED
    BY <1>0, <2>1, <2>2, MovingOn, MovesKeepRanges
<1>5. CASE InitSystemClock
  <2>1. reg'.latency \in {reg.latency, 5}
    BY <1>5 DEF InitSystemClock, AfterWrite, Writes, BootInv, Shapes
  <2>2. UNCHANGED <<app, broken, cycles>> /\ \E pc : cpu' = [cpu EXCEPT !.pc = pc]
    BY <1>5 DEF InitSystemClock
  <2> QED
    BY <1>0, <2>1, <2>2, MovingOn, MovesKeepRanges
<1>6. CASE InitTinyUsbStack \/ PrepareEffect \/ StartBlockTimer
  <2>1. \/ app' = app
        \/ app' = [app EXCEPT !.irq = TRUE]
        \/ app' = [app EXCEPT !.effect = 48000]
        \/ app' = [app EXCEPT !.timer = TRUE]
    BY <1>6 DEF InitTinyUsbStack, PrepareEffect, StartBlockTimer
  <2>2. app'.queue = app.queue /\ app'.effect \in {app.effect, 48000}
    BY <2>1 DEF BootInv, Shapes
  <2>3. UNCHANGED <<reg, broken, cycles>> /\ \E pc : cpu' = [cpu EXCEPT !.pc = pc]
    BY <1>6 DEF InitTinyUsbStack, PrepareEffect, StartBlockTimer, Proceed
  <2> QED
    BY <1>0, <2>2, <2>3, MovingOn, MovesKeepRanges
<1> QED
  BY <1>1, <1>2, <1>3, <1>4, <1>5, <1>6 DEF BootStep

\* No step of the boot leaves its types.
LEMMA BootNextInRange == BootInv /\ BootRanges /\ [BootNext]_bootVars => BootRanges'
<1> SUFFICES ASSUME BootInv, BootRanges, [BootNext]_bootVars PROVE BootRanges'
  OBVIOUS
<1>0. MaxEvents \in Nat \ {0} /\ MaxCycles \in Nat /\ PollLimit \in Nat
      /\ app.queue \in 0..MaxEvents /\ cycles \in 0..MaxCycles /\ cpu.fpu \in BOOLEAN
  BY BootAssumption DEF BootConstants, BootRanges
<1>1. CASE BootStep
  BY <1>1, BootStepInRange
<1>2. CASE HseSettles \/ PllSettles \/ SwitchSettles
  <2>1. reg'.latency = reg.latency
    BY <1>2 DEF HseSettles, PllSettles, SwitchSettles, BootInv, Shapes
  <2>2. UNCHANGED <<cpu, app, broken, cycles>>
    BY <1>2 DEF HseSettles, PllSettles, SwitchSettles
  <2> QED
    BY <1>0, <2>1, <2>2, MovingOn, MovesKeepRanges
<1>3. CASE Interrupt
  <2>1. app.queue < MaxEvents /\ UNCHANGED <<reg, broken, cycles>>
    BY <1>3 DEF Interrupt
  <2>2. \/ app' = [app EXCEPT !.queue = @ + 1] /\ cpu' = cpu
        \/ app' = app /\ \E pc : cpu' = [cpu EXCEPT !.pc = pc]
    BY <1>3 DEF Interrupt
  <2>3. app'.queue \in {app.queue, app.queue + 1} /\ app'.effect = app.effect
    BY <2>2 DEF BootInv, Shapes
  <2>4. app'.queue \in 0..MaxEvents
    BY <1>0, <2>1, <2>3
  <2> QED
    BY <1>0, <2>1, <2>2, <2>3, <2>4, MovingOn, MovesKeepRanges
<1>4. CASE ServicePass
  <2>1. app'.queue = 0 /\ app'.effect = app.effect /\ UNCHANGED <<cpu, reg, broken, cycles>>
    BY <1>4 DEF ServicePass, BootInv, Shapes
  <2>2. app'.queue \in 0..MaxEvents
    BY <1>0, <2>1
  <2> QED
    BY <1>0, <2>1, <2>2, MovesKeepRanges
<1>5. CASE PowerCycle
  <2>1. cpu'.polls = 0 /\ cpu'.fpu = FALSE /\ cpu'.status = "none" /\ reg'.latency = 0
        /\ app'.queue = 0 /\ app'.effect = 0
    BY <1>5 DEF PowerCycle, PoweredUp, ResetRegisters, Unbuilt
  <2>2. broken' = broken /\ cycles' \in 0..MaxCycles
    BY <1>0, <1>5 DEF PowerCycle
  <2>3. cpu'.fpu \in BOOLEAN
    BY <2>1, Zenon
  <2>4. cpu'.polls \in 0..PollLimit /\ app'.queue \in 0..MaxEvents
    BY <1>0, <2>1
  <2> QED
    BY <2>1, <2>2, <2>3, <2>4 DEF BootRanges, ClockInitStatus
<1>6. CASE UNCHANGED bootVars
  BY <1>6 DEF bootVars, BootRanges, ClockInitStatus
<1> QED
  BY <1>1, <1>2, <1>3, <1>4, <1>5, <1>6 DEF BootNext

\* Where the program may be is a step of it, or the loop main stops in.
LEMMA PlacesAreListed == \A pc \in Places : IsIn(Program, pc) \/ pc = "Halted"
<1>1. \A n \in 1..26 : n \in DOMAIN Program /\ Program[n] = Listing[n]
  BY ProgramListed DEF Listing
<1>2. ASSUME NEW pc \in Places, pc # "Halted" PROVE \E n \in 1..26 : Listing[n] = pc
  BY <1>2, SMTT(60) DEF Places, Starting, Slow, Fast, Bringing, Listing
<1> QED
  BY <1>1, <1>2 DEF IsIn

\* No step of the boot leaves the program, the bounds of its polls, its queue and
\* its registers, with any part broken (startup.cpp, clock-init.h:114-129,
\* nucleo-main.cpp).
LEMMA BootTypes == BootSpec => []BootTypeOK
<1>1. BootInit => BootRanges
  <2> SUFFICES ASSUME BootInit PROVE BootRanges
    OBVIOUS
  <2>1. FromReset /\ cycles = 0 /\ broken \subseteq Parts
    BY DEF BootInit, FromReset, Parts
  <2>2. PollLimit \in Nat /\ MaxEvents \in Nat /\ MaxCycles \in Nat
    BY BootAssumption DEF BootConstants
  <2>3. cpu.fpu \in BOOLEAN
    BY <2>1, ResetInRange, Zenon
  <2> QED
    BY <2>1, <2>2, <2>3, ResetInRange DEF BootRanges
<1>2. BootInv /\ BootRanges => BootTypeOK
  <2> SUFFICES ASSUME BootInv, BootRanges PROVE BootTypeOK
    OBVIOUS
  <2>1. IsIn(Program, cpu.pc) \/ cpu.pc = "Halted"
    BY PlacesAreListed DEF BootInv, Shapes
  <2>2. reg.sws \in {"hsi", "pll"}
    BY DEF BootInv, Shapes
  <2> QED
    BY <2>1, <2>2 DEF BootTypeOK, BootRanges
<1> QED
  BY <1>1, <1>2, BootNextInRange, BoardBoots, PTL DEF BootSpec

-----------------------------------------------------------------------------
(* The telemetry                                                           *)

\* Before the timer is enabled nothing has been measured.  After it the verdict
\* is the truth about the counter, and the maximum is either the longest block
\* or the sentinel.
TimerIsHonest ==
  /\ counters = [count |-> counters.count, worst |-> counters.worst,
              live |-> counters.live, started |-> counters.started]
  /\ ticking \in BOOLEAN /\ clock \in 0..(Wrap - 1)
  /\ ~counters.started => counters.worst = 0 /\ longest = 0
  /\ counters.started => counters.live = ticking
  /\ counters.started /\ ticking => counters.worst = longest
  /\ counters.started /\ ~ticking => counters.worst = kBlockTimerDeadSentinel

\* A record in the FIFO is whole and tells what was so when it was written.
IsHonest(r) ==
  /\ r = [bytes |-> r.bytes, put |-> r.put, left |-> r.left,
          longest |-> r.longest, stats |-> r.stats]
  /\ r.put = r.bytes
  /\ IF ticking
     THEN r.stats.live /\ r.stats.worst = r.longest
     ELSE ~r.stats.live /\ r.stats.worst > kMaxPossibleBlockMicros

\* All records that wait are.
WireIsHonest == (\E S : fifo \in Seq(S)) /\ \A n \in DOMAIN fifo : IsHonest(fifo[n])

\* What the records say rests on what the statistics are.
TelemetryInv == TimerIsHonest /\ WireIsHonest

\* No block, however long, is measured as the sentinel.
LEMMA SentinelIsApart ==
  kBlockTimerDeadSentinel \in Nat /\ kBlockTimerDeadSentinel > kMaxPossibleBlockMicros
<1>1. Wrap \in Nat /\ CyclesPerUs \in Nat /\ CyclesPerUs >= 2 /\ Wrap >= 2
  BY DiagnosticsAssumption DEF DiagnosticsConstants
<1> HIDE DEF kBlockTimerDeadSentinel
<1>2. \A a, b \in Nat : a >= 1 /\ b >= 2 => a \div b < a
  BY Z3
<1> QED
  BY <1>1, <1>2 DEF kBlockTimerDeadSentinel, kMaxPossibleBlockMicros, CyclesToMicros

\* The span is the time taken, also over a wrap of the counter.
LEMMA SpanIsTheTime ==
  ASSUME NEW start \in 0..(Wrap - 1), NEW cost \in 0..(Wrap - 1)
  PROVE  /\ SpanOf(start, (start + cost) % Wrap) = cost
         /\ SpanOf(start, start) = 0
         /\ (start + cost) % Wrap \in 0..(Wrap - 1)
<1>1. Wrap \in Nat \ {0}
  BY DiagnosticsAssumption DEF DiagnosticsConstants
<1>2. \A m \in Nat \ {0}, a \in Nat : a < m => a % m = a /\ (a + m) % m = a
  BY Z3
<1>3. CASE start + cost < Wrap
  <2>1. (start + cost) % Wrap = start + cost
    BY <1>1, <1>2, <1>3
  <2>2. (cost + Wrap) % Wrap = cost /\ (0 + Wrap) % Wrap = 0
    BY <1>1, <1>2
  <2>3. (start + cost) + Wrap - start = cost + Wrap /\ start + Wrap - start = 0 + Wrap
    BY <1>1
  <2> QED
    BY <1>1, <1>3, <2>1, <2>2, <2>3 DEF SpanOf
<1>4. CASE start + cost >= Wrap
  <2>1. /\ start + cost = (start + cost - Wrap) + Wrap
        /\ start + cost - Wrap \in Nat /\ start + cost - Wrap < Wrap
    BY <1>1, <1>4
  <2>2. (start + cost) % Wrap = start + cost - Wrap
    BY <1>1, <1>2, <2>1
  <2>3. cost % Wrap = cost /\ (0 + Wrap) % Wrap = 0
    BY <1>1, <1>2
  <2>4. (start + cost - Wrap) + Wrap - start = cost /\ start + Wrap - start = 0 + Wrap
    BY <1>1
  <2> QED
    BY <1>1, <2>1, <2>2, <2>3, <2>4 DEF SpanOf
<1> QED
  BY <1>1, <1>3, <1>4

\* The verdict on the counter, with its sentinel.
LEMMA EnableKeeps == ASSUME TimerIsHonest, EnableBlockTimer PROVE TimerIsHonest'
<1>1. PICK advance \in 1..2 :
        LET spin == IF ticking THEN advance ELSE 0
        IN  clock' = (clock + spin) % Wrap /\ counters' = InitializeBlockTimer(spin)
  BY DEF EnableBlockTimer
<1>2. ~counters.started /\ ticking' = ticking /\ longest' = longest
  BY DEF EnableBlockTimer
<1>3. clock' \in 0..(Wrap - 1)
  <2>1. Wrap \in Nat \ {0} /\ clock \in Nat
    BY DiagnosticsAssumption DEF DiagnosticsConstants, TimerIsHonest
  <2>2. \A m \in Nat \ {0}, a \in Nat : a % m \in 0..(m - 1)
    BY Z3
  <2>3. PICK spin \in Nat : clock' = (clock + spin) % Wrap
    BY <1>1
  <2> QED
    BY <2>1, <2>2, <2>3
<1>4. CASE ticking
  <2>1. counters' = InitializeBlockTimer(advance) /\ advance # 0
    BY <1>1, <1>4
  <2>2. /\ counters'.started /\ counters'.live = TRUE /\ counters'.worst = counters.worst
        /\ counters' = [count |-> counters'.count, worst |-> counters'.worst,
                     live |-> counters'.live, started |-> counters'.started]
    BY <2>1 DEF InitializeBlockTimer, TimerIsHonest
  <2> QED
    BY <1>2, <1>3, <1>4, <2>2 DEF TimerIsHonest
<1>5. CASE ~ticking
  <2>1. counters' = [counters EXCEPT !.live = FALSE, !.started = TRUE, !.worst = kBlockTimerDeadSentinel]
    BY <1>1, <1>5 DEF InitializeBlockTimer
  <2> QED
    BY <1>2, <1>3, <1>5, <2>1 DEF TimerIsHonest
<1> QED
  BY <1>4, <1>5

\* A block on a live counter is measured, on a dead one it leaves the sentinel.
LEMMA RunBlockKeeps ==
  ASSUME TimerIsHonest, NEW cost \in Costs, NEW counted \in SUBSET Fields, TimeBlock(cost, counted)
  PROVE  TimerIsHonest'
<1>1. cost \in 0..(Wrap - 1) /\ clock \in 0..(Wrap - 1) /\ counters.started
  BY DiagnosticsAssumption DEF DiagnosticsConstants, TimerIsHonest, TimeBlock
<1>2. ticking' = ticking
  BY DEF TimeBlock
<1>3. PICK count :
        counters' = [counters EXCEPT !.worst = RecordBlockTiming(clock, clock'), !.count = count]
  BY DEF TimeBlock
<1>4. /\ counters' = [count |-> counters'.count, worst |-> counters'.worst,
                   live |-> counters'.live, started |-> counters'.started]
      /\ counters'.worst = RecordBlockTiming(clock, clock')
      /\ counters'.live = counters.live /\ counters'.started = counters.started
  BY <1>3 DEF TimerIsHonest
<1>5. CASE ticking
  <2>1. clock' = (clock + cost) % Wrap
    BY <1>5 DEF TimeBlock
  <2>2. SpanOf(clock, clock') = cost /\ clock' \in 0..(Wrap - 1)
    BY <1>1, <2>1, SpanIsTheTime
  <2>3. counters'.worst =
          IF CyclesToMicros(cost) > counters.worst THEN CyclesToMicros(cost) ELSE counters.worst
    BY <1>4, <2>2 DEF RecordBlockTiming
  <2>4. longest' = IF CyclesToMicros(cost) > longest THEN CyclesToMicros(cost) ELSE longest
    BY DEF TimeBlock
  <2> QED
    BY <1>1, <1>2, <1>4, <1>5, <2>2, <2>3, <2>4 DEF TimerIsHonest
<1>6. CASE ~ticking
  <2>1. clock' = clock /\ counters.worst = kBlockTimerDeadSentinel
    BY <1>1, <1>6 DEF TimeBlock, TimerIsHonest
  <2>2. CyclesToMicros(SpanOf(clock, clock')) = 0
    <3>1. CyclesPerUs \in Nat \ {0}
      BY DiagnosticsAssumption DEF DiagnosticsConstants
    <3>2. \A b \in Nat \ {0} : 0 \div b = 0
      BY Z3
    <3> QED
      BY <1>1, <2>1, <3>1, <3>2, SpanIsTheTime DEF CyclesToMicros
  <2>3. counters'.worst = kBlockTimerDeadSentinel
    BY <1>4, <2>1, <2>2, SentinelIsApart DEF RecordBlockTiming
  <2> QED
    BY <1>1, <1>2, <1>4, <1>6, <2>1, <2>3 DEF TimerIsHonest
<1> QED
  BY <1>5, <1>6

\* A record goes out whole or not at all.
LEMMA ReportKeeps == ASSUME TelemetryInv, ServiceDiagnostics PROVE TelemetryInv'
<1> DEFINE size == RecordBytes(counters)
           record == [bytes |-> size, put |-> size, left |-> size,
                      longest |-> longest, stats |-> counters]
<1>1. /\ counters.started /\ WholeOrNone(RecordBytes(counters)) > 0
      /\ UNCHANGED <<ticking, clock, counters, longest>>
  BY DEF ServiceDiagnostics
<1>2. WholeOrNone(RecordBytes(counters)) = RecordBytes(counters)
  BY <1>1 DEF WholeOrNone
<1>3. fifo' = Append(fifo, record)
  BY <1>2 DEF ServiceDiagnostics
<1>4. IsHonest(record)
  BY <1>1, SentinelIsApart DEF TelemetryInv, TimerIsHonest, IsHonest
<1> HIDE DEF record
<1>5. PICK S : fifo \in Seq(S)
  BY DEF TelemetryInv, WireIsHonest
<1>6. /\ fifo' \in Seq(S \cup {record})
      /\ \A n \in DOMAIN fifo' : fifo'[n] = record \/ (n \in DOMAIN fifo /\ fifo'[n] = fifo[n])
  <2>1. fifo \in Seq(S \cup {record})
    BY <1>5
  <2>2. /\ fifo' \in Seq(S \cup {record}) /\ Len(fifo') = Len(fifo) + 1
        /\ \A n \in 1..Len(fifo) : fifo'[n] = fifo[n]
        /\ fifo'[Len(fifo) + 1] = record
    BY <1>3, <2>1
  <2> QED
    BY <2>1, <2>2
<1>7. \A n \in DOMAIN fifo' : IsHonest(fifo'[n])
  BY <1>4, <1>6 DEF TelemetryInv, WireIsHonest
<1> QED
  BY <1>1, <1>6, <1>7 DEF TelemetryInv, TimerIsHonest, WireIsHonest, IsHonest

\* Reading in packets changes no record.
LEMMA ReadKeeps == ASSUME TelemetryInv, HostReads PROVE TelemetryInv'
<1>1. fifo # <<>> /\ UNCHANGED <<ticking, clock, counters, longest>>
  BY DEF HostReads
<1>2. PICK S : fifo \in Seq(S)
  BY DEF TelemetryInv, WireIsHonest
<1> DEFINE rest == [Head(fifo) EXCEPT !.left = @ - EpBytes]
<1>3. fifo' = Tail(fifo) \/ fifo' = << rest >> \o Tail(fifo)
  BY DEF HostReads
<1>4. IsHonest(rest)
  <2>1. IsHonest(Head(fifo))
    BY <1>1, <1>2 DEF TelemetryInv, WireIsHonest
  <2> QED
    BY <2>1 DEF IsHonest
<1> HIDE DEF rest
<1>5. /\ fifo' \in Seq(S \cup {rest})
      /\ \A n \in DOMAIN fifo' : fifo'[n] = rest \/ \E m \in DOMAIN fifo : fifo'[n] = fifo[m]
  <2>1. CASE fifo' = Tail(fifo)
    BY <1>1, <1>2, <2>1
  <2>2. CASE fifo' = << rest >> \o Tail(fifo)
    BY <1>1, <1>2, <2>2
  <2> QED
    BY <1>3, <2>1, <2>2
<1>6. \A n \in DOMAIN fifo' : IsHonest(fifo'[n])
  BY <1>4, <1>5 DEF TelemetryInv, WireIsHonest
<1> QED
  BY <1>1, <1>5, <1>6 DEF TelemetryInv, TimerIsHonest, WireIsHonest, IsHonest

\* Every step keeps what the records rest on.
LEMMA TelemetryKeeps == TelemetryInv /\ [DiagnosticsNext]_diagnosticsVars => TelemetryInv'
<1> SUFFICES ASSUME TelemetryInv, [DiagnosticsNext]_diagnosticsVars PROVE TelemetryInv'
  OBVIOUS
<1> USE DEF TelemetryInv
<1>1. ASSUME UNCHANGED <<ticking, fifo>> PROVE WireIsHonest'
  BY <1>1 DEF WireIsHonest, IsHonest
<1>2. CASE EnableBlockTimer
  BY <1>1, <1>2, EnableKeeps DEF EnableBlockTimer
<1>3. ASSUME NEW cost \in Costs, NEW counted \in SUBSET Fields, TimeBlock(cost, counted)
      PROVE  TelemetryInv'
  BY <1>1, <1>3, RunBlockKeeps DEF TimeBlock
<1>4. CASE Open \/ Close
  BY <1>1, <1>4 DEF Open, Close, TimerIsHonest
<1>5. CASE UNCHANGED diagnosticsVars
  BY <1>1, <1>5 DEF diagnosticsVars, TimerIsHonest
<1> QED
  BY <1>2, <1>3, <1>4, <1>5, ReportKeeps, ReadKeeps DEF DiagnosticsNext

\* What a host reads is whole and a measurement or recognisably none, for every
\* width of the counter and every size of the FIFO (block-timer.h:18-83,
\* diagnostic-serializer.h:130-185, diagnostic-service.h:25-39).
THEOREM TelemetryTellsTheTruth == DiagnosticsSpec => []TelemetryIsHonest
<1>1. DiagnosticsInit => TelemetryInv
  <2>1. Wrap \in Nat \ {0} /\ <<>> \in Seq({})
    BY DiagnosticsAssumption DEF DiagnosticsConstants
  <2> QED
    BY <2>1 DEF DiagnosticsInit, TelemetryInv, TimerIsHonest, WireIsHonest
<1>2. TelemetryInv /\ [DiagnosticsNext]_diagnosticsVars => TelemetryInv'
  BY TelemetryKeeps
<1>3. TelemetryInv => TelemetryIsHonest
  BY DEF TelemetryInv, WireIsHonest, IsHonest, TelemetryIsHonest
<1> QED
  BY <1>1, <1>2, <1>3, PTL DEF DiagnosticsSpec

\* The configuration descriptor, written out.
Descriptors ==
  << Config(kConfigTotalLen),
     Iad(0, 3, "AudioControl", 4), Interface(0, 0, 0, "AudioControl", 4),
     EntityHeader(TotalLength(AudioControlEntities)),
     ClassSpecific(8, 0), ClassSpecific(17, 5), ClassSpecific(12, 0), ClassSpecific(17, 0),
     ClassSpecific(12, 6),
     Interface(1, 0, 0, "AudioStreaming", 5),
     Interface(1, 1, 1, "AudioStreaming", 5), ClassSpecific(16, 0), FormatType(2),
     Endpoint(kEpAudioOut, "iso", 294), ClassSpecific(8, 0),
     Interface(1, 2, 1, "AudioStreaming", 5), ClassSpecific(16, 0), FormatType(3),
     Endpoint(kEpAudioOut, "iso", 294), ClassSpecific(8, 0),
     Interface(2, 0, 0, "AudioStreaming", 6),
     Interface(2, 1, 1, "AudioStreaming", 6), ClassSpecific(16, 0), FormatType(2),
     Endpoint(kEpAudioIn, "iso", 294), ClassSpecific(8, 0),
     Interface(2, 2, 1, "AudioStreaming", 6), ClassSpecific(16, 0), FormatType(3),
     Endpoint(kEpAudioIn, "iso", 294), ClassSpecific(8, 0),
     Iad(3, 2, "AudioControl", 7), Interface(3, 0, 0, "AudioControl", 7), ClassSpecific(9, 0),
     Interface(4, 0, 2, "MidiStreaming", 7), ClassSpecific(37, 0),
     [Endpoint(kEpMidiOut, "bulk", 64) EXCEPT !.len = 9], ClassSpecific(5, 0),
     [Endpoint(kEpMidiIn, "bulk", 64) EXCEPT !.len = 9], ClassSpecific(5, 0),
     Iad(5, 2, "CdcControl", 0), Interface(5, 0, 1, "CdcControl", 8), ClassSpecific(19, 0),
     Endpoint(kEpCdcNotify, "interrupt", 8),
     Interface(6, 0, 2, "CdcData", 0), Endpoint(kEpCdcOut, "bulk", 64),
     Endpoint(kEpCdcIn, "bulk", 64) >>

\* Its members.
Kept == {Descriptors[n] : n \in 1..47}

\* The table has 47 descriptors.
LEMMA HowMany == Len(Descriptors) = 47 /\ DOMAIN Descriptors = 1..47 /\ Descriptors \in Seq(Kept)
<1>1. Len(Descriptors) = 47 /\ DOMAIN Descriptors = 1..47
  BY SMTT(30) DEF Descriptors
<1>2. ASSUME NEW S, \A n \in 1..47 : Descriptors[n] \in S PROVE Descriptors \in Seq(S)
  BY <1>2, SMTT(30) DEF Descriptors
<1>3. Descriptors \in Seq(Kept)
  BY <1>2 DEF Kept
<1> QED
  BY <1>1, <1>3

\* Two neighbouring pieces from the middle of a sequence make one.
LEMMA JoinedFrom ==
  ASSUME NEW S, NEW f \in Seq(S), NEW k \in Nat \ {0}, NEW m \in Nat, NEW n \in Nat,
         k <= m + 1, m <= n, n <= Len(f)
  PROVE  SubSeq(f, k, m) \o SubSeq(f, m + 1, n) = SubSeq(f, k, n)
OBVIOUS

\* The configuration descriptor, put together from its functions, is the table
\* (usb-descriptors.cpp:297-394).
LEMMA FlashListed ==
  /\ kConfigurationDescriptor = Descriptors
  /\ AudioFunction = SubSeq(Descriptors, 2, 31)
  /\ MidiFunction = SubSeq(Descriptors, 32, 40)
  /\ CdcFunction = SubSeq(Descriptors, 41, 47)
<1>1. Descriptors \in Seq(Kept) /\ Len(Descriptors) = 47
  BY HowMany
<1> USE DEF kItfNumAudioControl, kItfNumAudioStreamingOut, kItfNumAudioStreamingIn,
     kItfNumMidiControl, kItfNumMidiStreaming, kItfNumCdcControl, kItfNumCdcData,
     kIadItfCountAudio, kIadItfCountMidi, kAltZeroBandwidth, kAltStreaming, kAltStreaming24,
     kStrLangId, kStrAudioFunction, kStrAudioStreamOut, kStrAudioStreamIn, kStrMidi, kStrCdc
<1>2. << Config(kConfigTotalLen) >> = SubSeq(Descriptors, 1, 1)
  BY DEF Descriptors
<1>0. kAudioEpSize = 294 /\ kBytesPerSample = 2 /\ kBytesPerSample24 = 3
  BY DEF kAudioEpSize, kMaxPacketFrames, kAudioChannels, kMaxSubslotBytes, kBytesPerSample24, kBytesPerSample
<1>3. /\ AudioStreaming(kItfNumAudioStreamingOut, kStrAudioStreamOut, kEpAudioOut) = SubSeq(Descriptors, 10, 20)
      /\ AudioStreaming(kItfNumAudioStreamingIn, kStrAudioStreamIn, kEpAudioIn) = SubSeq(Descriptors, 21, 31)
  BY <1>0 DEF Descriptors, AudioStreaming, StreamingAlt
<1>4. /\ << Iad(kItfNumAudioControl, kIadItfCountAudio, "AudioControl", kStrAudioFunction),
            Interface(kItfNumAudioControl, 0, 0, "AudioControl", kStrAudioFunction),
            EntityHeader(TotalLength(AudioControlEntities)) >> = SubSeq(Descriptors, 2, 4)
      /\ AudioControlEntities = SubSeq(Descriptors, 5, 9)
  BY DEF Descriptors, AudioControlEntities
<1>5. AudioFunction = SubSeq(Descriptors, 2, 31)
  <2>1. SubSeq(Descriptors, 2, 4) \o SubSeq(Descriptors, 5, 9) = SubSeq(Descriptors, 2, 9)
    BY <1>1, JoinedFrom, 4 + 1 = 5
  <2>2. SubSeq(Descriptors, 2, 9) \o SubSeq(Descriptors, 10, 20) = SubSeq(Descriptors, 2, 20)
    BY <1>1, JoinedFrom, 9 + 1 = 10
  <2>3. SubSeq(Descriptors, 2, 20) \o SubSeq(Descriptors, 21, 31) = SubSeq(Descriptors, 2, 31)
    BY <1>1, JoinedFrom, 20 + 1 = 21
  <2> QED
    BY <1>3, <1>4, <2>1, <2>2, <2>3, Zenon DEF AudioFunction
<1>6. MidiFunction = SubSeq(Descriptors, 32, 40)
  BY DEF Descriptors, MidiFunction, TUD_MIDI_DESCRIPTOR, kEpMidiSize
<1>7. CdcFunction = SubSeq(Descriptors, 41, 47)
  BY DEF Descriptors, CdcFunction, TUD_CDC_DESCRIPTOR, kEpCdcSize, kEpCdcNotifySize
<1>8. SubSeq(Descriptors, 1, 1) \o SubSeq(Descriptors, 2, 31) = SubSeq(Descriptors, 1, 31)
  BY <1>1, JoinedFrom, 1 + 1 = 2
<1>9. SubSeq(Descriptors, 1, 31) \o SubSeq(Descriptors, 32, 40) = SubSeq(Descriptors, 1, 40)
  BY <1>1, JoinedFrom, 31 + 1 = 32
<1>10. SubSeq(Descriptors, 1, 40) \o SubSeq(Descriptors, 41, 47) = SubSeq(Descriptors, 1, 47)
  BY <1>1, JoinedFrom, 40 + 1 = 41
<1>11. SubSeq(Descriptors, 1, 47) = Descriptors
  BY <1>1
<1> QED
  BY <1>2, <1>5, <1>6, <1>7, <1>8, <1>9, <1>10, <1>11, Zenon DEF kConfigurationDescriptor

\* What the stack and the host look at in each of them.
Kinds ==
  << "config", "iad", "interface", "header", "class-specific", "class-specific", "class-specific",
     "class-specific", "class-specific",
     "interface", "interface", "class-specific", "format", "endpoint", "class-specific",
     "interface", "class-specific", "format", "endpoint", "class-specific",
     "interface", "interface", "class-specific", "format", "endpoint", "class-specific",
     "interface", "class-specific", "format", "endpoint", "class-specific",
     "iad", "interface", "class-specific", "interface", "class-specific",
     "endpoint", "class-specific", "endpoint", "class-specific",
     "iad", "interface", "class-specific", "endpoint", "interface", "endpoint", "endpoint" >>
Lens ==
  << 9, 8, 9, 9, 8, 17, 12, 17, 12, 9, 9, 16, 6, 7, 8, 9, 16, 6, 7, 8,
     9, 9, 16, 6, 7, 8, 9, 16, 6, 7, 8, 8, 9, 9, 9, 37, 9, 5, 9, 5, 8, 9, 19, 7, 9, 7, 7 >>

\* The kinds and the lengths of the table.
LEMMA KindsAndLens ==
  /\ \A n \in 1..47 : Descriptors[n].kind = Kinds[n]
  /\ \A n \in 1..47 : Descriptors[n].len = Lens[n]
<1> USE DEF Config, Iad, Interface, Endpoint, FormatType, ClassSpecific, EntityHeader
<1>1. \A n \in 1..47 : Descriptors[n].kind = Kinds[n]
  BY SMTT(60) DEF Descriptors, Kinds
<1>2. \A n \in 1..47 : Descriptors[n].len = Lens[n]
  BY SMTT(60) DEF Descriptors, Lens
<1> QED
  BY <1>1, <1>2

\* The interface descriptors of the table.
LEMMA Interfaces ==
  /\ Descriptors[3] = Interface(0, 0, 0, "AudioControl", 4)
  /\ Descriptors[10] = Interface(1, 0, 0, "AudioStreaming", 5)
  /\ Descriptors[11] = Interface(1, 1, 1, "AudioStreaming", 5)
  /\ Descriptors[16] = Interface(1, 2, 1, "AudioStreaming", 5)
  /\ Descriptors[21] = Interface(2, 0, 0, "AudioStreaming", 6)
  /\ Descriptors[22] = Interface(2, 1, 1, "AudioStreaming", 6)
  /\ Descriptors[27] = Interface(2, 2, 1, "AudioStreaming", 6)
  /\ Descriptors[33] = Interface(3, 0, 0, "AudioControl", 7)
  /\ Descriptors[35] = Interface(4, 0, 2, "MidiStreaming", 7)
  /\ Descriptors[42] = Interface(5, 0, 1, "CdcControl", 8)
  /\ Descriptors[45] = Interface(6, 0, 2, "CdcData", 0)
BY DEF Descriptors

\* The associations that group them.
LEMMA Associations ==
  /\ Descriptors[2] = Iad(0, 3, "AudioControl", 4)
  /\ Descriptors[32] = Iad(3, 2, "AudioControl", 7)
  /\ Descriptors[41] = Iad(5, 2, "CdcControl", 0)
BY DEF Descriptors

\* The endpoints of the table and the bytes of their packets.
LEMMA Endpoints ==
  /\ Descriptors[14].address = kEpAudioOut /\ Descriptors[14].size = 294
  /\ Descriptors[19].address = kEpAudioOut /\ Descriptors[19].size = 294
  /\ Descriptors[25].address = kEpAudioIn /\ Descriptors[25].size = 294
  /\ Descriptors[30].address = kEpAudioIn /\ Descriptors[30].size = 294
  /\ Descriptors[37].address = kEpMidiOut /\ Descriptors[37].size = 64
  /\ Descriptors[39].address = kEpMidiIn /\ Descriptors[39].size = 64
  /\ Descriptors[44].address = kEpCdcNotify /\ Descriptors[44].size = 8
  /\ Descriptors[46].address = kEpCdcOut /\ Descriptors[46].size = 64
  /\ Descriptors[47].address = kEpCdcIn /\ Descriptors[47].size = 64
BY DEF Descriptors, Endpoint

\* The places of its interfaces and of its endpoints.
Numbers == {3, 10, 11, 16, 21, 22, 27, 33, 35, 42, 45}
Pipes == {14, 19, 25, 30, 37, 39, 44, 46, 47}

\* Where the table has an interface, an association or an endpoint.
LEMMA Positions ==
  \A n \in 1..47 :
    /\ Descriptors[n].kind = "interface" <=> n \in Numbers
    /\ Descriptors[n].kind = "iad" <=> n \in {2, 32, 41}
    /\ Descriptors[n].kind = "endpoint" <=> n \in Pipes
<1>1. \A n \in 1..47 : /\ Kinds[n] = "interface" <=> n \in Numbers
                       /\ Kinds[n] = "iad" <=> n \in {2, 32, 41}
                       /\ Kinds[n] = "endpoint" <=> n \in Pipes
  BY SMTT(60) DEF Kinds, Numbers, Pipes
<1> TAKE n \in 1..47
<1>2. Descriptors[n].kind = Kinds[n]
  BY KindsAndLens
<1> QED
  BY <1>1, <1>2, Zenon

\* Every index names a string there is, or none.
LEMMA StringIndices == \A n \in 1..47 : Descriptors[n].str \in 0..8
BY SMTT(60) DEF Descriptors, Config, Iad, Interface, Endpoint, FormatType, ClassSpecific, EntityHeader

\* A member none is below is the least.
LEMMA LeastIs ==
  ASSUME NEW S, S \subseteq Int, NEW m \in S, \A n \in S : m <= n
  PROVE  Min(S) = m
<1>1. Min(S) \in S /\ \A n \in S : Min(S) <= n
  BY DEF Min
<1>2. Min(S) <= m /\ m <= Min(S) /\ Min(S) \in Int /\ m \in Int
  BY <1>1
<1> QED
  BY <1>2

-----------------------------------------------------------------------------
(* The walk                                                                *)

\* Flash holds the configuration descriptor.
Lies == flash = kConfigurationDescriptor

\* Where one part of a function ends and the next begins.
LEMMA Boundaries ==
  ASSUME Lies, NEW n \in 1..48
  PROVE  Boundary(n) <=> n \in Numbers \cup {2, 32, 41, 48}
<1>1. flash = Descriptors /\ Len(flash) = 47
  BY FlashListed, HowMany DEF Lies
<1>2. CASE n \in 1..47
  BY <1>1, <1>2, Positions DEF Boundary
<1>3. CASE n = 48
  BY <1>1, <1>3 DEF Boundary
<1> QED
  BY <1>2, <1>3

\* From each interface that is claimed, the next boundary.
LEMMA FollowingAt ==
  ASSUME Lies
  PROVE  /\ Following(2) = 3 /\ Following(3) = 10 /\ Following(32) = 33 /\ Following(33) = 35
         /\ Following(35) = 41 /\ Following(41) = 42 /\ Following(42) = 45 /\ Following(45) = 48
<1>1. Len(flash) = 47
  BY FlashListed, HowMany DEF Lies
<1>2. ASSUME NEW n \in 1..47, NEW m \in (n + 1)..48, m \in Numbers \cup {2, 32, 41, 48},
             \A k \in (n + 1)..48 : k \in Numbers \cup {2, 32, 41, 48} => m <= k
      PROVE  Following(n) = m
  <2> DEFINE S == {k \in (n + 1)..(Len(flash) + 1) : Boundary(k)}
  <2>1. S \subseteq Int /\ m \in S /\ \A k \in S : m <= k
    BY <1>1, <1>2, Boundaries
  <2>2. Min(S) = m
    <3> HIDE DEF S
    <3> QED
      BY <2>1, LeastIs
  <2> QED
    BY <2>2 DEF Following
<1> QED
  BY <1>2 DEF Numbers

\* The class found at each boundary.
LEMMA Classes ==
  ASSUME Lies
  PROVE  /\ ClassAt(2) = "none" /\ ClassAt(3) = "AudioControl" /\ ClassAt(32) = "none"
         /\ \A n \in {10, 11, 16, 21, 22, 27} : ClassAt(n) = "AudioStreaming"
         /\ ClassAt(33) = "AudioControl" /\ ClassAt(35) = "MidiStreaming" /\ ClassAt(41) = "none"
         /\ ClassAt(42) = "CdcControl" /\ ClassAt(45) = "CdcData" /\ ClassAt(48) = "none"
<1>1. flash = Descriptors /\ Len(flash) = 47
  BY FlashListed, HowMany DEF Lies
<1>2. \A n \in Numbers : ClassAt(n) = Descriptors[n].class
  BY <1>1, Positions DEF ClassAt, Numbers
<1>3. \A n \in {2, 32, 41, 48} : ClassAt(n) = "none"
  BY <1>1, Positions DEF ClassAt, Numbers
<1> QED
  BY <1>2, <1>3, Interfaces DEF Numbers, Interface

\* The driver that takes each function: none takes the association in front of it.
LEMMA DriversAt ==
  ASSUME Lies
  PROVE  /\ DriverAt(2) = "none" /\ DriverAt(3) = "audio" /\ DriverAt(32) = "none"
         /\ DriverAt(33) = "midi" /\ DriverAt(41) = "none" /\ DriverAt(42) = "cdc"
BY FollowingAt, Classes DEF DriverAt

\* How far each driver's claim reaches.
LEMMA EndsAt ==
  ASSUME Lies
  PROVE  /\ EndAt(2) = 3 /\ EndAt(3) = 32 /\ EndAt(32) = 33
         /\ EndAt(33) = 41 /\ EndAt(41) = 42 /\ EndAt(42) = 48
<1>1. EndAt(2) = 3 /\ EndAt(32) = 33 /\ EndAt(33) = 41 /\ EndAt(41) = 42 /\ EndAt(42) = 48
  BY FollowingAt, Classes, DriversAt DEF EndAt
<1>2. EndAt(3) = 32
  <2> DEFINE S == {m \in (3 + 1)..(Len(flash) + 1) : Boundary(m) /\ ClassAt(m) # "AudioStreaming"}
  <2>1. Len(flash) = 47
    BY FlashListed, HowMany DEF Lies
  <2>2. 32 \in S
    BY <2>1, Boundaries, Classes
  <2>3. ASSUME NEW m \in S PROVE 32 <= m
    <3>1. m \in 4..48 /\ m \in Numbers \cup {2, 32, 41, 48} /\ ClassAt(m) # "AudioStreaming"
      BY <2>1, Boundaries
    <3> QED
      BY <3>1, Classes DEF Numbers
  <2>4. Min(S) = 32
    <3>1. S \subseteq Int
      OBVIOUS
    <3> HIDE DEF S
    <3> QED
      BY <3>1, <2>2, <2>3, LeastIs
  <2> QED
    BY <2>4, DriversAt DEF EndAt
<1> QED
  BY <1>1, <1>2

-----------------------------------------------------------------------------
(* Sizes                                                                   *)

\* A set of numbers has a least one.
LEMMA LeastNumber ==
  ASSUME NEW S, S \subseteq Nat, S # {}
  PROVE  \E m \in S : \A n \in S : m <= n
<1> DEFINE Less == {p \in Nat \X Nat : p[1] < p[2]}
<1>1. IsWellFoundedOn(Less, Nat)
  BY NatLessThanWellFounded, Zenon DEF OpToRel
<1>2. ASSUME NEW m \in Nat, NEW n \in Nat, n < m
      PROVE  <<n, m>> \in Less
  BY <1>2
<1> HIDE DEF Less
<1>3. \E m \in S : \A n \in S : ~(<<n, m>> \in Less)
  BY <1>1, WFMin, Zenon
<1>4. PICK m \in S : \A n \in S : ~(<<n, m>> \in Less)
  BY <1>3
<1>5. ASSUME NEW n \in S PROVE m <= n
  <2>1. m \in Nat /\ n \in Nat
    OBVIOUS
  <2>2. ~(n < m)
    BY <1>2, <1>4, <2>1
  <2> QED BY <2>1, <2>2
<1> QED BY <1>5

\* What holds of zero and of each successor holds of every number.
LEMMA SetInduction ==
  ASSUME NEW S, 0 \in S, \A n \in Nat : n \in S => n + 1 \in S
  PROVE  Nat \subseteq S
<1> DEFINE Missed == Nat \ S
<1> SUFFICES ASSUME Missed # {} PROVE FALSE
  OBVIOUS
<1>1. Missed \subseteq Nat
  OBVIOUS
<1>2. \E m \in Missed : \A n \in Missed : m <= n
  <2> HIDE DEF Missed
  <2> QED BY <1>1, LeastNumber, Zenon
<1>3. PICK m \in Missed : \A n \in Missed : m <= n
  BY <1>2
<1>4. m # 0 /\ m - 1 \in Nat /\ m - 1 \in Missed /\ m - 1 < m
  OBVIOUS
<1> QED BY <1>3, <1>4

\* The same up to a bound.
LEMMA RangeInduction ==
  ASSUME NEW N \in Nat, NEW S, 0 \in S, \A n \in 1..N : n - 1 \in S => n \in S
  PROVE  0..N \subseteq S
<1> DEFINE Good == {n \in Nat : n <= N => n \in S}
<1>1. 0 \in Good
  OBVIOUS
<1>2. ASSUME NEW n \in Nat, n \in Good PROVE n + 1 \in Good
  <2>1. n + 1 <= N => n + 1 \in 1..N /\ (n + 1) - 1 = n /\ n \in S
    BY <1>2
  <2> QED BY <2>1
<1>3. Nat \subseteq Good
  <2> HIDE DEF Good
  <2>1. \A n \in Nat : n \in Good => n + 1 \in Good
    BY <1>2
  <2> QED BY <1>1, <2>1, SetInduction, Zenon
<1> QED BY <1>3

\* The sums of numbers up to each of them.
AddsUp(f, N, L) == f[0] = 0 /\ \A n \in 1..N : f[n] = f[n - 1] + L[n]

\* There is only one.
LEMMA SumIsOne ==
  ASSUME NEW N \in Nat, NEW L, NEW f, NEW g, AddsUp(f, N, L), AddsUp(g, N, L)
  PROVE  \A n \in 0..N : f[n] = g[n]
<1> DEFINE S == {n \in 0..N : f[n] = g[n]}
<1>1. 0 \in S
  BY DEF AddsUp
<1>2. ASSUME NEW n \in 1..N, n - 1 \in S PROVE n \in S
  BY <1>2 DEF AddsUp
<1>3. 0..N \subseteq S
  <2> HIDE DEF S
  <2> QED
    BY <1>1, <1>2, RangeInduction, Zenon
<1> QED
  BY <1>3

\* The bytes up to each descriptor.
Offsets ==
  << 0, 9, 17, 26, 35, 43, 60, 72, 89, 101, 110, 119, 135, 141, 148, 156,
     165, 181, 187, 194, 202, 211, 220, 236, 242, 249, 257, 266, 282, 288, 295, 303,
     311, 320, 329, 338, 375, 384, 389, 398, 403, 411, 420, 439, 446, 455, 462, 469 >>

\* Byte offsets are numbers.
LEMMA OffsetNumbers == \A n \in 1..48 : Offsets[n] \in Nat
BY SMTT(60) DEF Offsets

\* Every descriptor has a length.
LEMMA LenNumbers == \A n \in 1..47 : Lens[n] \in Nat \ {0}
BY SMTT(60) DEF Lens

\* The offsets are the sums of the lengths.
LEMMA OffsetsAdd == \A n \in 1..47 : Offsets[n + 1] = Offsets[n] + Lens[n]
BY SMTT(60) DEF Offsets, Lens

\* What is defined by adding up adds up.
LEMMA SumIsChosen ==
  ASSUME NEW N \in Nat, NEW L, NEW g \in [0..N -> Nat], AddsUp(g, N, L)
  PROVE  g = [n \in 0..N |-> IF n = 0 THEN 0 ELSE g[n - 1] + L[n]]
<1>1. ASSUME NEW n \in 0..N PROVE g[n] = IF n = 0 THEN 0 ELSE g[n - 1] + L[n]
  BY DEF AddsUp
<1>2. g = [n \in 0..N |-> g[n]]
  OBVIOUS
<1> QED
  BY <1>1, <1>2

\* The distance from one place in the table to a later one.
LEMMA Distance ==
  ASSUME NEW k \in Nat, NEW N \in Nat, k + N <= 47
  PROVE  \E g \in [0..N -> Nat] :
           AddsUp(g, N, [n \in 1..N |-> Lens[k + n]]) /\ g[N] = Offsets[k + N + 1] - Offsets[k + 1]
<1> DEFINE g == [n \in 0..N |-> Offsets[k + n + 1] - Offsets[k + 1]]
           S == {n \in 0..N : Offsets[k + n + 1] >= Offsets[k + 1]}
<1>1. ASSUME NEW n \in 0..N PROVE Offsets[k + n + 1] \in Nat
  <2>1. k + n + 1 \in 1..48
    OBVIOUS
  <2> QED
    BY <2>1, OffsetNumbers
<1>2. Offsets[k + 1] \in Nat /\ Offsets[k + 0 + 1] = Offsets[k + 1]
  <2>1. 0 \in 0..N /\ k + 0 + 1 = k + 1
    OBVIOUS
  <2> QED
    BY <1>1, <2>1
<1>3. ASSUME NEW n \in 1..N
      PROVE  /\ Lens[k + n] \in Nat /\ Offsets[k + n + 1] = Offsets[k + n] + Lens[k + n]
             /\ Offsets[k + n] \in Nat /\ Offsets[k + (n - 1) + 1] = Offsets[k + n]
  <2>1. k + n \in 1..47 /\ k + n \in 1..48 /\ k + (n - 1) + 1 = k + n
    OBVIOUS
  <2>2. Lens[k + n] \in Nat
    BY <2>1, LenNumbers
  <2>3. Offsets[k + n] \in Nat
    BY <2>1, OffsetNumbers
  <2>4. Offsets[k + n + 1] = Offsets[k + n] + Lens[k + n]
    BY <2>1, OffsetsAdd, Zenon
  <2> QED
    BY <2>1, <2>2, <2>3, <2>4
<1>4. 0..N \subseteq S
  <2>1. 0 \in S
    BY <1>2
  <2>2. ASSUME NEW n \in 1..N, n - 1 \in S PROVE n \in S
    BY <1>3, <1>2, <2>2
  <2> HIDE DEF S
  <2> QED
    BY <2>1, <2>2, RangeInduction, Zenon
<1>5. g \in [0..N -> Nat]
  <2>1. ASSUME NEW n \in 0..N PROVE Offsets[k + n + 1] - Offsets[k + 1] \in Nat
    <3>1. n \in S
      BY <1>4
    <3>2. Offsets[k + n + 1] >= Offsets[k + 1]
      BY <3>1
    <3> QED
      BY <1>1, <1>2, <3>2
  <2> QED
    BY <2>1
<1>6. AddsUp(g, N, [n \in 1..N |-> Lens[k + n]])
  <2>1. g[0] = 0
    BY <1>2
  <2>2. ASSUME NEW n \in 1..N PROVE g[n] = g[n - 1] + Lens[k + n]
    <3>1. n \in 0..N /\ n - 1 \in 0..N
      OBVIOUS
    <3>2. g[n] = Offsets[k + n + 1] - Offsets[k + 1] /\ g[n - 1] = Offsets[k + (n - 1) + 1] - Offsets[k + 1]
      BY <3>1
    <3> HIDE DEF g
    <3> QED
      BY <1>2, <1>3, <3>2
  <2> HIDE DEF g
  <2> QED
    BY <2>1, <2>2 DEF AddsUp
<1>7. g[N] = Offsets[k + N + 1] - Offsets[k + 1]
  OBVIOUS
<1> HIDE DEF g
<1> QED
  BY <1>5, <1>6, <1>7

\* The length of a part of the table.
LEMMA TotalIs ==
  ASSUME NEW k \in Nat, NEW N \in Nat, k + N <= 47, NEW s, Len(s) = N,
         \A n \in 1..N : s[n].len = Lens[k + n]
  PROVE  TotalLength(s) = Offsets[k + N + 1] - Offsets[k + 1]
<1> DEFINE L == [n \in 1..N |-> Lens[k + n]]
           Is(f) == f = [n \in 0..N |-> IF n = 0 THEN 0 ELSE f[n - 1] + s[n].len]
           upTo == CHOOSE f : Is(f)
<1>1. PICK g \in [0..N -> Nat] : AddsUp(g, N, L) /\ g[N] = Offsets[k + N + 1] - Offsets[k + 1]
  BY Distance
<1>2. TotalLength(s) = upTo[N]
  BY DEF TotalLength
<1>3. \A n \in 1..N : L[n] = s[n].len
  OBVIOUS
<1> HIDE DEF L
<1>4. Is(g)
  <2>1. g = [n \in 0..N |-> IF n = 0 THEN 0 ELSE g[n - 1] + L[n]]
    BY <1>1, SumIsChosen
  <2>2. \A n \in 0..N : n # 0 => n \in 1..N
    OBVIOUS
  <2>3. \A n \in 0..N : (IF n = 0 THEN 0 ELSE g[n - 1] + L[n]) = IF n = 0 THEN 0 ELSE g[n - 1] + s[n].len
    BY <1>3, <2>2
  <2> QED
    BY <2>1, <2>3
<1>5. Is(upTo)
  <2> HIDE DEF Is
  <2> QED
    BY <1>4, Zenon
<1> HIDE DEF upTo
<1>6. AddsUp(upTo, N, L)
  BY <1>3, <1>5 DEF AddsUp
<1>7. upTo[N] = g[N]
  BY <1>1, <1>6, SumIsOne
<1> QED
  BY <1>1, <1>2, <1>7

\* What wTotalLength announces, and the sum it is made of.
LEMMA AnnouncedLength == kConfigTotalLen = 469
<1>1. TotalLength(AudioFunction) = Offsets[32] - Offsets[2]
  <2>1. Len(AudioFunction) = 30 /\ \A n \in 1..30 : AudioFunction[n].len = Lens[1 + n]
    BY FlashListed, HowMany, KindsAndLens
  <2>0. 1 \in Nat /\ 30 \in Nat /\ 1 + 30 <= 47
    OBVIOUS
  <2>2. TotalLength(AudioFunction) = Offsets[1 + 30 + 1] - Offsets[1 + 1]
    BY <2>0, <2>1, TotalIs, Zenon
  <2> QED
    BY <2>2
<1>2. TotalLength(MidiFunction) = Offsets[41] - Offsets[32]
  <2>1. Len(MidiFunction) = 9 /\ \A n \in 1..9 : MidiFunction[n].len = Lens[31 + n]
    BY FlashListed, HowMany, KindsAndLens
  <2>0. 31 \in Nat /\ 9 \in Nat /\ 31 + 9 <= 47
    OBVIOUS
  <2>2. TotalLength(MidiFunction) = Offsets[31 + 9 + 1] - Offsets[31 + 1]
    BY <2>0, <2>1, TotalIs, Zenon
  <2> QED
    BY <2>2
<1>3. TotalLength(CdcFunction) = Offsets[48] - Offsets[41]
  <2>1. Len(CdcFunction) = 7 /\ \A n \in 1..7 : CdcFunction[n].len = Lens[40 + n]
    BY FlashListed, HowMany, KindsAndLens
  <2>0. 40 \in Nat /\ 7 \in Nat /\ 40 + 7 <= 47
    OBVIOUS
  <2>2. TotalLength(CdcFunction) = Offsets[40 + 7 + 1] - Offsets[40 + 1]
    BY <2>0, <2>1, TotalIs, Zenon
  <2> QED
    BY <2>2
<1> QED
  BY <1>1, <1>2, <1>3 DEF kConfigTotalLen, Offsets

\* The two reads of the configuration: its header, and all of it.
LEMMA Reads == ASSUME Lies PROVE Read(9) = SubSeq(flash, 1, 1) /\ Read(469) = flash
<1> DEFINE L == [n \in 1..47 |-> Lens[n]]
           Is(f) == f = [n \in 0..Len(flash) |-> IF n = 0 THEN 0 ELSE f[n - 1] + flash[n].len]
           offset == CHOOSE f : Is(f)
           Ends(bytes, n) == offset[n] <= bytes /\ (n = Len(flash) \/ offset[n + 1] > bytes)
           g == [n \in 0..47 |-> Offsets[n + 1]]
<1>1. flash = Descriptors /\ Len(flash) = 47 /\ flash \in Seq(Kept)
  BY FlashListed, HowMany DEF Lies
<1>2. \A n \in 1..47 : flash[n].len = L[n]
  BY <1>1, KindsAndLens
<1>3. g \in [0..47 -> Nat] /\ AddsUp(g, 47, L)
  <2>1. \A n \in 0..47 : n + 1 \in 1..48
    OBVIOUS
  <2>2. g \in [0..47 -> Nat]
    BY <2>1, OffsetNumbers
  <2>3. g[0] = 0
    BY DEF Offsets
  <2>4. ASSUME NEW n \in 1..47 PROVE g[n] = g[n - 1] + L[n]
    <3>1. g[n] = Offsets[n + 1] /\ g[n - 1] = Offsets[n] /\ L[n] = Lens[n]
      OBVIOUS
    <3> HIDE DEF g, L
    <3> QED
      BY <3>1, OffsetsAdd
  <2> HIDE DEF g, L
  <2> QED
    BY <2>2, <2>3, <2>4 DEF AddsUp
<1>4. \A bytes : Read(bytes) = SubSeq(flash, 1, CHOOSE n \in DOMAIN offset : Ends(bytes, n))
  BY DEF Read
<1>5. \A n \in 0..47 : g[n] = Offsets[n + 1]
  OBVIOUS
<1> HIDE DEF L, g
<1>6. Is(g)
  <2>1. g = [n \in 0..47 |-> IF n = 0 THEN 0 ELSE g[n - 1] + L[n]]
    BY <1>3, SumIsChosen
  <2>2. \A n \in 0..47 : n # 0 => n \in 1..47
    OBVIOUS
  <2>3. \A n \in 0..47 : (IF n = 0 THEN 0 ELSE g[n - 1] + L[n]) = IF n = 0 THEN 0 ELSE g[n - 1] + flash[n].len
    BY <1>2, <2>2
  <2> QED
    BY <1>1, <2>1, <2>3
<1>7. Is(offset)
  <2> HIDE DEF Is
  <2> QED
    BY <1>6, Zenon
<1> HIDE DEF offset
<1>8. DOMAIN offset = 0..47
  BY <1>1, <1>7
<1>9. AddsUp(offset, 47, L)
  <2>1. \A n \in 0..47 : offset[n] = IF n = 0 THEN 0 ELSE offset[n - 1] + flash[n].len
    BY ZenonT(40), <1>1, <1>7
  <2> HIDE DEF Is
  <2>2. offset[0] = 0
    BY <2>1
  <2>3. ASSUME NEW n \in 1..47 PROVE offset[n] = offset[n - 1] + L[n]
    BY <1>2, <2>1
  <2> QED
    BY <2>2, <2>3 DEF AddsUp
<1>10. \A n \in 0..47 : offset[n] = Offsets[n + 1]
  <2>1. 47 \in Nat
    OBVIOUS
  <2>2. \A n \in 0..47 : offset[n] = g[n]
    BY <1>3, <1>9, <2>1, SumIsOne
  <2> QED
    BY <1>5, <2>2
<1>11. \A n \in 0..47 : n # 1 /\ n # 0 => Offsets[n + 1] > 9
  BY SMTT(60) DEF Offsets
<1>12. \A n \in 0..47 : n # 47 => Offsets[n + 1] < 469 /\ Offsets[n + 2] <= 469
  BY SMTT(60) DEF Offsets
<1>13. offset[0] = 0 /\ offset[1] = 9 /\ offset[2] = 17 /\ offset[47] = 469
  BY <1>10 DEF Offsets
<1>14. (\A n \in 0..47 : Ends(9, n) <=> n = 1) /\ (\A n \in 0..47 : Ends(469, n) <=> n = 47)
  <2>1. \A n \in 0..47 : (n # 1 /\ n # 0 => offset[n] > 9) /\ (n # 47 => offset[n] < 469)
    BY <1>10, <1>11, <1>12
  <2>2. ASSUME NEW n \in 0..46 PROVE offset[n + 1] <= 469
    <3>1. n + 1 \in 0..47 /\ (n + 1) + 1 = n + 2 /\ n \in 0..47 /\ n # 47
      OBVIOUS
    <3>2. offset[n + 1] = Offsets[(n + 1) + 1]
      BY <1>10, <3>1, Zenon
    <3> QED
      BY <1>12, <3>1, <3>2
  <2>3. ASSUME NEW n \in 0..47 PROVE Ends(9, n) <=> n = 1
    <3>1. CASE n = 0
      BY <1>1, <1>13, <3>1
    <3>2. CASE n = 1
      BY <1>1, <1>13, <3>2
    <3>3. CASE n \notin {0, 1}
      <4>1. offset[n] \in Nat
        <5>1. n + 1 \in 1..48
          OBVIOUS
        <5> QED
          BY <1>10, <5>1, OffsetNumbers
      <4>2. offset[n] > 9
        BY <2>1, <3>3
      <4> QED
        BY <3>3, <4>1, <4>2
    <3> QED
      BY <3>1, <3>2, <3>3
  <2>4. ASSUME NEW n \in 0..47 PROVE Ends(469, n) <=> n = 47
    <3>1. CASE n = 47
      BY <1>1, <1>13, <3>1
    <3>2. CASE n # 47
      <4>1. n \in 0..46
        BY <3>2
      <4>2. offset[n + 1] <= 469 /\ offset[n + 1] \in Nat
        <5>1. n + 1 \in 0..47 /\ (n + 1) + 1 \in 1..48
          BY <4>1
        <5> QED
          BY <1>10, <2>2, <4>1, <5>1, OffsetNumbers
      <4> QED
        BY <1>1, <3>2, <4>2
    <3> QED
      BY <3>1, <3>2
  <2> QED
    BY <2>3, <2>4
<1>15. /\ (CHOOSE n \in DOMAIN offset : Ends(9, n)) = 1
       /\ (CHOOSE n \in DOMAIN offset : Ends(469, n)) = 47
  <2> HIDE DEF Ends
  <2> QED
    BY <1>8, <1>14
<1>16. SubSeq(flash, 1, 47) = flash
  BY <1>1
<1> QED
  BY <1>4, <1>15, <1>16, Zenon

-----------------------------------------------------------------------------
(* The FIFO memory                                                         *)

\* The endpoints of each function.
Pipe(address, size) == [address |-> address, size |-> size]
AudioPipes == {Pipe(kEpAudioOut, 294), Pipe(kEpAudioIn, 294)}
MidiPipes == {Pipe(kEpMidiOut, 64), Pipe(kEpMidiIn, 64)}
CdcPipes == {Pipe(kEpCdcNotify, 8), Pipe(kEpCdcOut, 64), Pipe(kEpCdcIn, 64)}

\* The words of the FIFO the three packet sizes take (usb-audio-fifo-budget.h:77-148).
LEMMA FifoWords == OtgFsFifoWords(294) = 74 /\ OtgFsFifoWords(64) = 16 /\ OtgFsFifoWords(8) = 2
BY DEF OtgFsFifoWords

\* The transmit FIFOs of a set of IN endpoints.
Transmit(S) == MapThenSumSet(LAMBDA e : OtgFsFifoWords(e.size), S)

\* The transmit FIFOs of some of four endpoints, added up one after the other.
LEMMA FourAddUp ==
  ASSUME NEW a, NEW b, NEW c, NEW d, a # b, a # c, a # d, b # c, b # d, c # d,
         OtgFsFifoWords(a.size) \in Nat, OtgFsFifoWords(b.size) \in Nat,
         OtgFsFifoWords(c.size) \in Nat, OtgFsFifoWords(d.size) \in Nat,
         NEW S \in SUBSET {a, b, c, d}
  PROVE  Transmit(S) =
           (IF a \in S THEN OtgFsFifoWords(a.size) ELSE 0) + (IF b \in S THEN OtgFsFifoWords(b.size) ELSE 0)
           + (IF c \in S THEN OtgFsFifoWords(c.size) ELSE 0) + (IF d \in S THEN OtgFsFifoWords(d.size) ELSE 0)
<1> DEFINE W(e) == OtgFsFifoWords(e.size)
           Weight(s) == (IF a \in s THEN W(a) ELSE 0) + (IF b \in s THEN W(b) ELSE 0)
                        + (IF c \in s THEN W(c) ELSE 0) + (IF d \in s THEN W(d) ELSE 0)
           Count(s) == (IF a \in s THEN 1 ELSE 0) + (IF b \in s THEN 1 ELSE 0)
                       + (IF c \in s THEN 1 ELSE 0) + (IF d \in s THEN 1 ELSE 0)
           Is(f) == f = [s \in SUBSET S |-> IF s = {} THEN 0
                                            ELSE W(CHOOSE x \in s : TRUE) + f[s \ {CHOOSE x \in s : TRUE}]]
           iter == CHOOSE f : Is(f)
<1>1. Transmit(S) = iter[S]
  BY DEF Transmit, MapThenSumSet, MapThenFoldSet
<1> HIDE DEF W
<1>0. W(a) \in Nat /\ W(b) \in Nat /\ W(c) \in Nat /\ W(d) \in Nat
  BY DEF W
<1>2. ASSUME NEW s \in SUBSET S, NEW x \in s
      PROVE  /\ s \ {x} \in SUBSET S
             /\ Weight(s) = W(x) + Weight(s \ {x}) /\ Count(s) = 1 + Count(s \ {x})
  <2>0. s \ {x} \in SUBSET S
    OBVIOUS
  <2>1. CASE x = a
    BY <1>0, <2>0, <2>1
  <2>2. CASE x = b
    BY <1>0, <2>0, <2>2
  <2>3. CASE x = c
    BY <1>0, <2>0, <2>3
  <2>4. CASE x = d
    BY <1>0, <2>0, <2>4
  <2> QED
    BY <2>1, <2>2, <2>3, <2>4
<1>3. \A s \in SUBSET S : Count(s) \in 0..4 /\ Weight(s) \in Nat /\ (Count(s) = 0 => s = {})
  BY <1>0
<1>4. Weight({}) = 0
  OBVIOUS
<1>5. \A s \in SUBSET S : s # {} => (CHOOSE x \in s : TRUE) \in s
  OBVIOUS
<1> HIDE DEF Weight, Count
<1>7. Is(iter)
  <2> DEFINE g == [s \in SUBSET S |-> Weight(s)]
  <2>1. \A s \in SUBSET S :
          g[s] = IF s = {} THEN 0 ELSE W(CHOOSE x \in s : TRUE) + g[s \ {CHOOSE x \in s : TRUE}]
    <3> SUFFICES ASSUME NEW s \in SUBSET S
                 PROVE  g[s] = IF s = {} THEN 0 ELSE W(CHOOSE x \in s : TRUE) + g[s \ {CHOOSE x \in s : TRUE}]
      OBVIOUS
    <3>1. CASE s = {}
      BY <1>4, <3>1
    <3>2. CASE s # {}
      <4> DEFINE x == CHOOSE x \in s : TRUE
      <4>1. x \in s
        BY <1>5, <3>2
      <4>2. g[s] = Weight(s) /\ g[s \ {x}] = Weight(s \ {x})
        OBVIOUS
      <4>3. g[s] = W(x) + g[s \ {x}]
        <5> HIDE DEF x, g
        <5> QED
          BY <1>2, <4>1, <4>2
      <4> QED
        BY <3>2, <4>3
    <3> QED
      BY <3>1, <3>2
  <2>2. Is(g)
    BY <2>1
  <2> HIDE DEF Is
  <2> QED
    BY <2>2, Zenon
<1>8. \A s \in SUBSET S :
        iter[s] = IF s = {} THEN 0 ELSE W(CHOOSE x \in s : TRUE) + iter[s \ {CHOOSE x \in s : TRUE}]
  BY <1>7
<1> HIDE DEF iter
<1> DEFINE Good == {n \in 0..4 : \A s \in SUBSET S : Count(s) = n => iter[s] = Weight(s)}
<1>9. 0 \in Good
  <2>1. ASSUME NEW s \in SUBSET S, Count(s) = 0 PROVE iter[s] = Weight(s)
    <3>1. s = {}
      BY <1>3, <2>1
    <3>2. iter[{}] = 0 /\ Weight({}) = 0
      BY <1>4, <1>8
    <3> QED
      BY <3>1, <3>2, Zenon
  <2> QED
    BY <2>1
<1>10. ASSUME NEW n \in 1..4, n - 1 \in Good PROVE n \in Good
  <2> SUFFICES ASSUME NEW s \in SUBSET S, Count(s) = n PROVE iter[s] = Weight(s)
    OBVIOUS
  <2> DEFINE x == CHOOSE x \in s : TRUE
  <2>1. s # {} \/ s = {}
    OBVIOUS
  <2>2. CASE s = {}
    BY <1>4, <1>8, <2>2
  <2>3. CASE s # {}
    <3>1. x \in s /\ iter[s] = W(x) + iter[s \ {x}]
      BY <1>5, <1>8, <2>3
    <3> HIDE DEF x
    <3>2. s \ {x} \in SUBSET S /\ Weight(s) = W(x) + Weight(s \ {x}) /\ Count(s) = 1 + Count(s \ {x})
      BY <1>2, <3>1
    <3>3. Count(s \ {x}) = n - 1
      BY <1>3, <3>2
    <3>4. iter[s \ {x}] = Weight(s \ {x})
      BY <1>10, <3>2, <3>3
    <3> QED
      BY <3>1, <3>2, <3>4
  <2> QED
    BY <2>2, <2>3
<1>11. 0..4 \subseteq Good
  <2> HIDE DEF Good
  <2>1. 4 \in Nat
    OBVIOUS
  <2> QED
    BY <1>9, <1>10, <2>1, RangeInduction
<1>12. iter[S] = Weight(S)
  <2>1. Count(S) \in Good
    BY <1>3, <1>11
  <2> QED
    BY <2>1
<1> QED
  BY <1>1, <1>12 DEF Weight, W

\* What each driver finds to open between its interface and the end of its function.
LEMMA PipesWithin ==
  ASSUME Lies
  PROVE  /\ Sized(Within(3, "endpoint")) = AudioPipes
         /\ Sized(Within(33, "endpoint")) = MidiPipes
         /\ Sized(Within(42, "endpoint")) = CdcPipes
<1>1. flash = Descriptors
  BY FlashListed DEF Lies
<1>2. ASSUME NEW n \in Nat, NEW m \in Nat, 1 <= n, m <= 48, EndAt(n) = m
      PROVE  Sized(Within(n, "endpoint"))
               = {Pipe(Descriptors[i].address, Descriptors[i].size) : i \in {j \in Pipes : n <= j /\ j < m}}
  <2>1. \A i : i \in n..(EndAt(n) - 1) /\ flash[i].kind = "endpoint"
                 <=> i \in {j \in Pipes : n <= j /\ j < m}
    <3>1. ASSUME NEW i \in n..(m - 1) PROVE flash[i].kind = "endpoint" <=> i \in Pipes
      <4>1. i \in 1..47
        BY <1>2
      <4> QED
        BY <1>1, <4>1, Positions, Zenon
    <3>2. Pipes \subseteq Nat
      BY DEF Pipes
    <3>3. \A i : i \in n..(m - 1) <=> i \in Nat /\ n <= i /\ i < m
      BY <1>2
    <3> QED
      BY <1>2, <3>1, <3>2, <3>3, Zenon
  <2> QED
    BY <1>1, <2>1, Zenon DEF Sized, Within, Pipe
<1>3. {Pipe(Descriptors[i].address, Descriptors[i].size) : i \in {j \in Pipes : 3 <= j /\ j < 32}} = AudioPipes
  <2>1. {j \in Pipes : 3 <= j /\ j < 32} = {14, 19, 25, 30}
    BY DEF Pipes
  <2> QED
    BY <2>1, Endpoints DEF AudioPipes
<1>4. {Pipe(Descriptors[i].address, Descriptors[i].size) : i \in {j \in Pipes : 33 <= j /\ j < 41}} = MidiPipes
  <2>1. {j \in Pipes : 33 <= j /\ j < 41} = {37, 39}
    BY DEF Pipes
  <2> QED
    BY <2>1, Endpoints DEF MidiPipes
<1>5. {Pipe(Descriptors[i].address, Descriptors[i].size) : i \in {j \in Pipes : 42 <= j /\ j < 48}} = CdcPipes
  <2>1. {j \in Pipes : 42 <= j /\ j < 48} = {44, 46, 47}
    BY DEF Pipes
  <2> QED
    BY <2>1, Endpoints DEF CdcPipes
<1>7. Sized(Within(3, "endpoint"))
        = {Pipe(Descriptors[i].address, Descriptors[i].size) : i \in {j \in Pipes : 3 <= j /\ j < 32}}
  <2>1. 3 \in Nat /\ 32 \in Nat /\ 1 <= 3 /\ 32 <= 48
    OBVIOUS
  <2> QED
    BY <1>2, <2>1, EndsAt, Zenon
<1>8. Sized(Within(33, "endpoint"))
        = {Pipe(Descriptors[i].address, Descriptors[i].size) : i \in {j \in Pipes : 33 <= j /\ j < 41}}
  <2>1. 33 \in Nat /\ 41 \in Nat /\ 1 <= 33 /\ 41 <= 48
    OBVIOUS
  <2> QED
    BY <1>2, <2>1, EndsAt, Zenon
<1>9. Sized(Within(42, "endpoint"))
        = {Pipe(Descriptors[i].address, Descriptors[i].size) : i \in {j \in Pipes : 42 <= j /\ j < 48}}
  <2>1. 42 \in Nat /\ 48 \in Nat /\ 1 <= 42 /\ 48 <= 48
    OBVIOUS
  <2> QED
    BY <1>2, <2>1, EndsAt, Zenon
<1> QED
  BY <1>3, <1>4, <1>5, <1>7, <1>8, <1>9, Zenon

\* The interfaces within a stretch of the table.
LEMMA InterfacesWithin ==
  ASSUME Lies
  PROVE  /\ {d.number : d \in Within(3, "interface")} = 0..2
         /\ {d.number : d \in Within(33, "interface")} = 3..4
         /\ {d.number : d \in Within(42, "interface")} = 5..6
<1>1. flash = Descriptors
  BY FlashListed DEF Lies
<1>2. ASSUME NEW n \in Nat, NEW m \in Nat, 1 <= n, m <= 48, EndAt(n) = m
      PROVE  {d.number : d \in Within(n, "interface")}
               = {Descriptors[i].number : i \in {j \in Numbers : n <= j /\ j < m}}
  <2>1. \A i : i \in n..(EndAt(n) - 1) /\ flash[i].kind = "interface"
                 <=> i \in {j \in Numbers : n <= j /\ j < m}
    <3>1. ASSUME NEW i \in n..(m - 1) PROVE flash[i].kind = "interface" <=> i \in Numbers
      <4>1. i \in 1..47
        BY <1>2
      <4> QED
        BY <1>1, <4>1, Positions, Zenon
    <3>2. Numbers \subseteq Nat
      BY DEF Numbers
    <3>3. \A i : i \in n..(m - 1) <=> i \in Nat /\ n <= i /\ i < m
      BY <1>2
    <3> QED
      BY <1>2, <3>1, <3>2, <3>3, Zenon
  <2> QED
    BY <1>1, <2>1, Zenon DEF Within
<1>6. \A n \in Numbers : Descriptors[n].number =
        IF n = 3 THEN 0 ELSE IF n \in {10, 11, 16} THEN 1 ELSE IF n \in {21, 22, 27} THEN 2
        ELSE IF n = 33 THEN 3 ELSE IF n = 35 THEN 4 ELSE IF n = 42 THEN 5 ELSE 6
  BY Interfaces DEF Numbers, Interface
<1>3. {Descriptors[i].number : i \in {j \in Numbers : 3 <= j /\ j < 32}} = 0..2
  <2>1. {j \in Numbers : 3 <= j /\ j < 32} = {3, 10, 11, 16, 21, 22, 27}
    BY DEF Numbers
  <2> QED
    BY <2>1, <1>6 DEF Numbers
<1>4. {Descriptors[i].number : i \in {j \in Numbers : 33 <= j /\ j < 41}} = 3..4
  <2>1. {j \in Numbers : 33 <= j /\ j < 41} = {33, 35}
    BY DEF Numbers
  <2> QED
    BY <2>1, <1>6 DEF Numbers
<1>5. {Descriptors[i].number : i \in {j \in Numbers : 42 <= j /\ j < 48}} = 5..6
  <2>1. {j \in Numbers : 42 <= j /\ j < 48} = {42, 45}
    BY DEF Numbers
  <2> QED
    BY <2>1, <1>6 DEF Numbers
<1>7. {d.number : d \in Within(3, "interface")}
        = {Descriptors[i].number : i \in {j \in Numbers : 3 <= j /\ j < 32}}
  <2>1. 3 \in Nat /\ 32 \in Nat /\ 1 <= 3 /\ 32 <= 48
    OBVIOUS
  <2> QED
    BY <1>2, <2>1, EndsAt, Zenon
<1>8. {d.number : d \in Within(33, "interface")}
        = {Descriptors[i].number : i \in {j \in Numbers : 33 <= j /\ j < 41}}
  <2>1. 33 \in Nat /\ 41 \in Nat /\ 1 <= 33 /\ 41 <= 48
    OBVIOUS
  <2> QED
    BY <1>2, <2>1, EndsAt, Zenon
<1>9. {d.number : d \in Within(42, "interface")}
        = {Descriptors[i].number : i \in {j \in Numbers : 42 <= j /\ j < 48}}
  <2>1. 42 \in Nat /\ 48 \in Nat /\ 1 <= 42 /\ 48 <= 48
    OBVIOUS
  <2> QED
    BY <1>2, <2>1, EndsAt, Zenon
<1> QED
  BY <1>3, <1>4, <1>5, <1>7, <1>8, <1>9, Zenon

\* A member none is above is the greatest.
LEMMA MaxIs ==
  ASSUME NEW S, S \subseteq Int, NEW m \in S, \A n \in S : n <= m
  PROVE  Max(S) = m
<1>1. Max(S) \in S /\ \A n \in S : n <= Max(S)
  BY DEF Max
<1>2. Max(S) <= m /\ m <= Max(S) /\ Max(S) \in Int /\ m \in Int
  BY <1>1
<1> QED
  BY <1>2

\* The widest OUT packet is the audio function's, and the transmit FIFOs come on
\* top, one function after the other.
LEMMA FifoBudget ==
  /\ Words(AudioPipes) = 266
  /\ Words(AudioPipes \cup MidiPipes) = 282
  /\ Words(AudioPipes \cup MidiPipes \cup CdcPipes) = 300
<1> DEFINE a == Pipe(kEpAudioIn, 294)
           b == Pipe(kEpMidiIn, 64)
           c == Pipe(kEpCdcNotify, 8)
           d == Pipe(kEpCdcIn, 64)
           Inward(E) == {e \in E : e.address.dir = "in"}
           Outward(E) == {o \in E : o.address.dir = "out"}
           Sizes(E) == {CFG_TUD_ENDPOINT0_SIZE} \cup {e.size : e \in {o \in E : o.address.dir = "out"}}
           All == AudioPipes \cup MidiPipes \cup CdcPipes
<1> USE DEF Pipe, kEpAudioIn, kEpAudioOut, kEpMidiIn, kEpMidiOut, kEpCdcNotify, kEpCdcIn, kEpCdcOut, In, Out
<1>1. /\ Inward(AudioPipes) = {a}
      /\ Inward(AudioPipes \cup MidiPipes) = {a, b}
      /\ Inward(All) = {a, b, c, d}
  BY DEF AudioPipes, MidiPipes, CdcPipes
<1>2. /\ Sizes(AudioPipes) = {64, 294}
      /\ Sizes(AudioPipes \cup MidiPipes) = {64, 294}
      /\ Sizes(All) = {64, 294}
  <2> DEFINE o1 == Pipe(kEpAudioOut, 294)
             o2 == Pipe(kEpMidiOut, 64)
             o3 == Pipe(kEpCdcOut, 64)
  <2>1. /\ Outward(AudioPipes) = {o1}
        /\ Outward(AudioPipes \cup MidiPipes) = {o1, o2}
        /\ Outward(All) = {o1, o2, o3}
    BY DEF AudioPipes, MidiPipes, CdcPipes
  <2>2. o1.size = 294 /\ o2.size = 64 /\ o3.size = 64
    OBVIOUS
  <2>3. \A E : Sizes(E) = {64} \cup {e.size : e \in Outward(E)}
    BY DEF CFG_TUD_ENDPOINT0_SIZE
  <2>4. /\ {64} \cup {e.size : e \in {o1}} = {64, 294}
        /\ {64} \cup {e.size : e \in {o1, o2}} = {64, 294}
        /\ {64} \cup {e.size : e \in {o1, o2, o3}} = {64, 294}
    <3> HIDE DEF o1, o2, o3
    <3> QED
      BY <2>2
  <2> HIDE DEF Outward, Sizes, o1, o2, o3, All
  <2>5. Sizes(AudioPipes) = {64, 294}
    BY <2>1, <2>3, <2>4, Zenon
  <2>6. Sizes(AudioPipes \cup MidiPipes) = {64, 294}
    BY <2>1, <2>3, <2>4, Zenon
  <2>7. Sizes(All) = {64, 294}
    BY <2>1, <2>3, <2>4, Zenon
  <2> QED
    BY <2>5, <2>6, <2>7
<1>3. Max({64, 294}) = 294
  BY MaxIs
<1>4. /\ a # b /\ a # c /\ a # d /\ b # c /\ b # d /\ c # d
      /\ a.size = 294 /\ b.size = 64 /\ c.size = 8 /\ d.size = 64
  OBVIOUS
<1>5. OtgFsRxFifoWords(294) = 176 /\ OtgFsFifoWords(CFG_TUD_ENDPOINT0_SIZE) = 16
  BY FifoWords DEF OtgFsRxFifoWords, kOtgFsEpCount, CFG_TUD_ENDPOINT0_SIZE
<1>6. \A E : Words(E) = OtgFsFifoWords(CFG_TUD_ENDPOINT0_SIZE)
                        + Transmit(Inward(E)) + OtgFsRxFifoWords(Max(Sizes(E)))
  BY DEF Words, Transmit
<1> HIDE DEF a, b, c, d, Inward, Sizes, All
<1>7. ASSUME NEW S \in SUBSET {a, b, c, d}
      PROVE  Transmit(S) =
               (IF a \in S THEN 74 ELSE 0) + (IF b \in S THEN 16 ELSE 0)
               + (IF c \in S THEN 2 ELSE 0) + (IF d \in S THEN 16 ELSE 0)
  BY <1>4, FifoWords, FourAddUp
<1>8. /\ Transmit({a}) = 74
      /\ Transmit({a, b}) = 90
      /\ Transmit({a, b, c, d}) = 108
  BY <1>4, <1>7
<1> QED
  BY SMTT(30), <1>1, <1>2, <1>3, <1>5, <1>6, <1>8 DEF All

-----------------------------------------------------------------------------
(* The inductive invariant                                                 *)

\* How far the host has come and what it has read of the configuration.
Course ==
  /\ flash = kConfigurationDescriptor
  /\ phase \in {"detached", "attached", "device", "config", "strings", "drivers", "configured"}
  /\ resets \in 0..MaxResets
  /\ phase = "config" => known = SubSeq(flash, 1, 1)
  /\ phase \in {"strings", "drivers", "configured"} => known = flash

\* The shared buffer holds a string in full, whatever is left behind it.
InBuffer(index) ==
  buffer.announced = CharsOf(index) /\ \A n \in 1..CharsOf(index) : buffer.chars[n] = <<index, n>>

\* A string that was asked for is in the buffer, and one that was received is whole.
Letters ==
  /\ unread \subseteq 0..8 /\ asked \in 0..8 \cup {NoIndex}
  /\ buffer.chars \in [1..31 -> (0..8) \X (0..31)]
  /\ asked # NoIndex => InBuffer(asked)
  /\ StringsArrive

\* Where the walk over the interfaces stops, and what is claimed and open there.
Strides == {2, 3, 32, 33, 41, 42, 48}
ClaimedBy(n) ==
  [d \in Drivers |-> IF d = "audio" /\ n > 3 THEN 0..2 ELSE IF d = "midi" /\ n > 33 THEN 3..4
                     ELSE IF d = "cdc" /\ n > 42 THEN 5..6 ELSE {}]
OpenedBy(n) ==
  (IF n > 3 THEN AudioPipes ELSE {}) \cup (IF n > 33 THEN MidiPipes ELSE {})
  \cup (IF n > 42 THEN CdcPipes ELSE {})

\* The walk has done what it passed, and is over when the device is configured.
Walk ==
  /\ at \in Strides /\ claimed = ClaimedBy(at) /\ opened = OpenedBy(at)
  /\ phase \notin {"drivers", "configured"} => at = 2
  /\ phase = "configured" => at = 48

\* The rate is one on offer, and the format that of the alternate chosen last.
Streaming ==
  /\ clockRate \in {44100, 48000} \cap Requested /\ hostRate \in {0, clockRate}
  /\ alt \in [Streams -> 0..2] /\ format \in {"Pcm16", "Pcm24"}
  /\ chosen \in Streams \cup {NoStream}
  /\ chosen # NoStream =>
       phase = "configured" /\ alt[chosen] # kAltZeroBandwidth /\ format = FormatOf(alt[chosen])

\* What is open at the end rests on the walk, the walk on the configuration being
\* read in full, and that on the length its header announces.
EnumerationInv == Course /\ Letters /\ Walk /\ Streaming

-----------------------------------------------------------------------------
(* Steps                                                                   *)

\* Every string the configuration points at is there, and none is longer than
\* the buffer.
LEMMA StringsFit == \A index \in 0..8 : Known(index) /\ CharsOf(index) \in 1..31
<1> SUFFICES ASSUME NEW index \in 0..8 PROVE Known(index) /\ CharsOf(index) \in 1..31
  OBVIOUS
<1> USE DEF kStrLangId, kStrSerial, kSerialChars, kMaxStringChars, kStringCount, kStrCdc
<1>1. \A k \in 0..31 : Min({k, 31}) = k
  BY LeastIs
<1>2. CASE index \in {0, 3}
  <2>1. Min({3 * 8, 31}) = 24
    BY LeastIs
  <2> QED
    BY <1>2, <2>1 DEF CharsOf, Known
<1>3. CASE index \in {1, 2, 4, 5, 6, 7, 8}
  <2>1. kStringTable[index] \in 1..31
    BY <1>3 DEF kStringTable
  <2>2. Min({kStringTable[index], 31}) = kStringTable[index]
    <3>1. kStringTable[index] \in 0..31
      BY <2>1
    <3> QED
      BY <1>1, <3>1, Zenon
  <2>3. CharsOf(index) = kStringTable[index]
    BY <1>3, <2>2 DEF CharsOf
  <2> QED
    BY <1>3, <2>1, <2>3 DEF Known
<1> QED
  BY <1>2, <1>3

\* Before the walk nothing is claimed and nothing open.
LEMMA InitialWalk == ClaimedBy(2) = [d \in Drivers |-> {}] /\ OpenedBy(2) = {}
BY DEF ClaimedBy, OpenedBy, Drivers

\* Off the bus the invariant holds.
LEMMA EnumerationStarts == EnumerationInit => EnumerationInv
<1> SUFFICES ASSUME EnumerationInit PROVE EnumerationInv
  OBVIOUS
<1> USE DEF EnumerationInit
<1>1. Course
  BY EnumerationAssumption DEF Course, EnumerationConstants
<1>2. Letters
  BY DEF Letters, StringsArrive, kMaxStringChars
<1>3. Walk
  BY InitialWalk DEF Walk, Strides
<1>4. Streaming
  BY EnumerationAssumption DEF EnumerationConstants, Streaming, kDefaultSampleRateHz, Streams,
     kItfNumAudioStreamingOut, kItfNumAudioStreamingIn, kAltZeroBandwidth, NoStream
<1> QED
  BY <1>1, <1>2, <1>3, <1>4 DEF EnumerationInv

\* The pull-up starts the course.
LEMMA AttachKeeps == ASSUME EnumerationInv, Attach PROVE EnumerationInv'
<1> USE DEF EnumerationInv, Attach, progressVars, stringVars, streamVars
<1>1. Course'
  BY DEF Course
<1>2. Letters'
  BY DEF Letters, StringsArrive, InBuffer
<1>3. Walk'
  BY DEF Walk
<1>4. Streaming'
  BY DEF Streaming
<1> QED
  BY <1>1, <1>2, <1>3, <1>4

\* A bus reset takes the course back and forgets what the device had opened.
LEMMA BusResetKeeps == ASSUME EnumerationInv, BusReset PROVE EnumerationInv'
<1> USE DEF EnumerationInv, BusReset
<1>1. Course'
  BY EnumerationAssumption DEF Course, EnumerationConstants
<1>2. Letters'
  BY DEF Letters, StringsArrive
<1>3. Walk'
  BY InitialWalk DEF Walk, Strides
<1>4. Streaming'
  BY DEF Streaming, Streams, kItfNumAudioStreamingOut, kItfNumAudioStreamingIn, kAltZeroBandwidth, NoStream
<1> QED
  BY <1>1, <1>2, <1>3, <1>4

\* The device descriptor names its strings.
LEMMA GetDeviceKeeps == ASSUME EnumerationInv, GetDevice PROVE EnumerationInv'
<1> USE DEF EnumerationInv, GetDevice, progressVars, streamVars
<1>1. Course'
  BY DEF Course
<1>2. Letters'
  <2>1. unread' = {1, 2, 3}
    BY DEF kDeviceDescriptor, kStrManufacturer, kStrProduct, kStrSerial
  <2>2. unread' \subseteq 0..8
    BY <2>1
  <2> QED
    BY <2>2 DEF Letters, StringsArrive, InBuffer
<1>3. Walk'
  BY DEF Walk
<1>4. Streaming'
  BY DEF Streaming
<1> QED
  BY <1>1, <1>2, <1>3, <1>4

\* Nine bytes of the configuration are its header.
LEMMA GetHeaderKeeps == ASSUME EnumerationInv, GetHeader PROVE EnumerationInv'
<1> USE DEF EnumerationInv, GetHeader, progressVars, stringVars, streamVars
<1>1. Course'
  BY Reads DEF Course, Lies
<1>2. Letters'
  BY DEF Letters, StringsArrive, InBuffer
<1>3. Walk'
  BY DEF Walk
<1>4. Streaming'
  BY DEF Streaming
<1> QED
  BY <1>1, <1>2, <1>3, <1>4

\* The length in the header is the length of all of it, and the second read gets it.
LEMMA GetConfigurationKeeps == ASSUME EnumerationInv, GetConfiguration PROVE EnumerationInv'
<1> USE DEF EnumerationInv, GetConfiguration, progressVars, streamVars
<1>0. flash = Descriptors /\ Lies /\ flash' = flash
  BY FlashListed DEF Course, Lies
<1>1. known' = flash
  <2>1. known = SubSeq(flash, 1, 1)
    BY DEF Course
  <2>2. known[1] = Descriptors[1]
    BY <1>0, <2>1, HowMany
  <2>3. Descriptors[1].total = 469
    BY AnnouncedLength DEF Descriptors, Config
  <2> QED
    BY <1>0, <2>2, <2>3, Reads
<1>2. Course'
  BY <1>0, <1>1 DEF Course
<1>3. Letters'
  <2>1. ASSUME NEW d \in Range(known') PROVE d.str \in 0..8
    <3>1. PICK n \in 1..47 : d = Descriptors[n]
      BY <1>0, <1>1, HowMany DEF Range
    <3> QED
      BY <3>1, StringIndices
  <2>2. unread' = unread \cup {d.str : d \in Range(known')} \cup {0} /\ unread \subseteq 0..8
    BY DEF Letters, kStrLangId
  <2>3. unread' \subseteq 0..8
    <3> SUFFICES ASSUME NEW i \in unread' PROVE i \in 0..8
      OBVIOUS
    <3>1. i \in unread \/ (\E d \in Range(known') : i = d.str) \/ i = 0
      BY <2>2, Zenon
    <3>2. CASE i \in unread
      BY <2>2, <3>2, Zenon
    <3>3. ASSUME NEW d \in Range(known'), i = d.str PROVE i \in 0..8
      BY <2>1, <3>3, Zenon
    <3>4. 0 \in 0..8
      OBVIOUS
    <3> QED
      BY <3>1, <3>2, <3>3, <3>4, Zenon
  <2> QED
    BY <2>3 DEF Letters, StringsArrive, InBuffer
<1>4. Walk'
  BY DEF Walk
<1>5. Streaming'
  BY DEF Streaming
<1> QED
  BY <1>2, <1>3, <1>4, <1>5

\* A function on the first numbers is a sequence.
LEMMA FunctionIsSequence ==
  ASSUME NEW X, NEW N \in Nat, NEW f \in [1..N -> X]
  PROVE  f \in Seq(X) /\ Len(f) = N
OBVIOUS

\* The first characters of the buffer.
LEMMA FirstOf ==
  ASSUME NEW X, NEW N \in Nat, NEW f \in [1..N -> X], NEW count \in 1..N
  PROVE  SubSeq(f, 1, count) = [n \in 1..count |-> f[n]]
<1>1. f \in Seq(X) /\ Len(f) = N
  BY FunctionIsSequence
<1>2. /\ SubSeq(f, 1, count) \in Seq(X) /\ Len(SubSeq(f, 1, count)) = count
      /\ \A n \in 1..count : SubSeq(f, 1, count)[n] = f[n]
  BY <1>1
<1>3. \A q \in Seq(X) : Len(q) = count => q \in [1..count -> X]
  OBVIOUS
<1>4. \A q \in [1..count -> X] : (\A n \in 1..count : q[n] = f[n]) => q = [n \in 1..count |-> f[n]]
  OBVIOUS
<1> QED
  BY <1>2, <1>3, <1>4, Zenon

\* The shared buffer holds the string that was asked for, and no more of it than fits.
LEMMA GetStringKeeps == ASSUME EnumerationInv, GetString PROVE EnumerationInv'
<1>1. Min(unread) \in 0..8
  <2>1. unread # {} /\ unread \subseteq 0..8
    BY DEF GetString, EnumerationInv, Letters
  <2>2. PICK m \in unread : \A n \in unread : m <= n
    <3>1. unread \subseteq Nat
      BY <2>1
    <3> QED
      BY <2>1, <3>1, LeastNumber
  <2>3. Min(unread) = m
    <3>1. unread \subseteq Int
      BY <2>1
    <3> QED
      BY <2>2, <3>1, LeastIs
  <2> QED
    BY <2>1, <2>3
<1>2. PICK index \in 0..8 : index = Min(unread)
  BY <1>1
<1>0. Known(index) /\ CharsOf(index) \in 1..31
  BY StringsFit
<1>3. /\ buffer' = Copied(index, CharsOf(index)) /\ asked' = index
      /\ UNCHANGED <<flash, phase, resets, known, progressVars, unread, received, streamVars>>
  BY <1>0, <1>2 DEF GetString, StringReply
<1> USE DEF EnumerationInv, progressVars, streamVars
<1>4. Course'
  BY <1>3 DEF Course
<1>5. Letters'
  <2>1. /\ buffer'.announced = CharsOf(index)
        /\ buffer'.chars = [n \in 1..31 |-> IF n <= CharsOf(index) THEN <<index, n>> ELSE buffer.chars[n]]
    BY <1>3 DEF Copied, kMaxStringChars
  <2>2. buffer'.chars \in [1..31 -> (0..8) \X (0..31)]
    <3>1. ASSUME NEW n \in 1..31 PROVE buffer'.chars[n] \in (0..8) \X (0..31)
      <4>1. buffer.chars[n] \in (0..8) \X (0..31) /\ <<index, n>> \in (0..8) \X (0..31)
        BY DEF Letters
      <4> QED
        BY <2>1, <4>1
    <3> QED
      BY <2>1, <3>1
  <2>3. ASSUME NEW n \in 1..CharsOf(index) PROVE buffer'.chars[n] = <<index, n>>
    <3>1. n \in 1..31 /\ n <= CharsOf(index)
      BY <1>0
    <3> QED
      BY <2>1, <3>1
  <2>4. InBuffer(index)'
    BY <2>1, <2>3 DEF InBuffer
  <2> QED
    BY <1>3, <2>2, <2>4 DEF Letters, StringsArrive
<1>6. Walk'
  BY <1>3 DEF Walk
<1>7. Streaming'
  BY <1>3 DEF Streaming
<1> QED
  BY <1>4, <1>5, <1>6, <1>7

\* What arrives is the string that was asked for last.
LEMMA ReceiveStringKeeps == ASSUME EnumerationInv, ReceiveString PROVE EnumerationInv'
<1> USE DEF EnumerationInv, ReceiveString, progressVars, streamVars
<1>1. Course'
  BY DEF Course
<1>2. Letters'
  <2>1. asked \in 0..8 /\ InBuffer(asked) /\ CharsOf(asked) \in 1..31
    BY StringsFit DEF Letters, NoIndex
  <2>2. received'.index = asked /\ received'.chars = SubSeq(buffer.chars, 1, CharsOf(asked))
    BY <2>1 DEF InBuffer
  <2>3. SubSeq(buffer.chars, 1, CharsOf(asked)) = [n \in 1..CharsOf(asked) |-> <<asked, n>>]
    <3>1. SubSeq(buffer.chars, 1, CharsOf(asked)) = [n \in 1..CharsOf(asked) |-> buffer.chars[n]]
      <4>1. PICK X : buffer.chars \in [1..31 -> X]
        BY DEF Letters
      <4>2. PICK count \in 1..31 : count = CharsOf(asked)
        BY <2>1
      <4>3. 31 \in Nat
        OBVIOUS
      <4>4. SubSeq(buffer.chars, 1, count) = [n \in 1..count |-> buffer.chars[n]]
        BY <4>1, <4>3, FirstOf, ZenonT(30)
      <4> QED
        BY <4>2, <4>4
    <3>2. \A n \in 1..CharsOf(asked) : buffer.chars[n] = <<asked, n>>
      BY <2>1 DEF InBuffer
    <3> QED
      BY <3>1, <3>2
  <2>4. StringsArrive'
    BY <2>2, <2>3 DEF StringsArrive, CharsOf
  <2> QED
    BY <2>4 DEF Letters
<1>3. Walk'
  BY DEF Walk
<1>4. Streaming'
  BY DEF Streaming
<1> QED
  BY <1>1, <1>2, <1>3, <1>4

\* Configured, the walk over the interfaces begins at the first association.
LEMMA SetConfigurationKeeps == ASSUME EnumerationInv, SetConfiguration PROVE EnumerationInv'
<1> USE DEF EnumerationInv, SetConfiguration, progressVars, stringVars, streamVars
<1>1. Course'
  BY DEF Course
<1>2. Letters'
  BY DEF Letters, StringsArrive, InBuffer
<1>3. Walk'
  BY DEF Walk
<1>4. Streaming'
  BY DEF Streaming
<1> QED
  BY <1>1, <1>2, <1>3, <1>4

\* What the walk adds, function by function.
LEMMA WalkAdds ==
  /\ ClaimedBy(3) = ClaimedBy(2) /\ ClaimedBy(33) = ClaimedBy(32) /\ ClaimedBy(42) = ClaimedBy(41)
  /\ ClaimedBy(32) = [ClaimedBy(3) EXCEPT !["audio"] = @ \cup 0..2]
  /\ ClaimedBy(41) = [ClaimedBy(33) EXCEPT !["midi"] = @ \cup 3..4]
  /\ ClaimedBy(48) = [ClaimedBy(42) EXCEPT !["cdc"] = @ \cup 5..6]
  /\ OpenedBy(3) = {} /\ OpenedBy(2) = {} /\ OpenedBy(32) = AudioPipes /\ OpenedBy(33) = AudioPipes
  /\ OpenedBy(41) = AudioPipes \cup MidiPipes /\ OpenedBy(42) = AudioPipes \cup MidiPipes
  /\ OpenedBy(48) = AudioPipes \cup MidiPipes \cup CdcPipes
<1>1. /\ OpenedBy(3) = {} /\ OpenedBy(2) = {} /\ OpenedBy(32) = AudioPipes /\ OpenedBy(33) = AudioPipes
      /\ OpenedBy(41) = AudioPipes \cup MidiPipes /\ OpenedBy(42) = AudioPipes \cup MidiPipes
      /\ OpenedBy(48) = AudioPipes \cup MidiPipes \cup CdcPipes
  BY DEF OpenedBy
<1>2. ClaimedBy(3) = ClaimedBy(2) /\ ClaimedBy(33) = ClaimedBy(32) /\ ClaimedBy(42) = ClaimedBy(41)
  BY DEF ClaimedBy
<1>3. ClaimedBy(32) = [ClaimedBy(3) EXCEPT !["audio"] = @ \cup 0..2]
  BY DEF ClaimedBy, Drivers
<1>4. ClaimedBy(41) = [ClaimedBy(33) EXCEPT !["midi"] = @ \cup 3..4]
  <2>1. \A d \in Drivers : ClaimedBy(41)[d] = IF d = "midi" THEN ClaimedBy(33)[d] \cup 3..4 ELSE ClaimedBy(33)[d]
    BY DEF ClaimedBy, Drivers
  <2>2. ClaimedBy(41) = [d \in Drivers |-> ClaimedBy(41)[d]] /\ DOMAIN ClaimedBy(33) = Drivers
    BY DEF ClaimedBy
  <2> QED
    BY <2>1, <2>2
<1>5. ClaimedBy(48) = [ClaimedBy(42) EXCEPT !["cdc"] = @ \cup 5..6]
  <2>1. \A d \in Drivers : ClaimedBy(48)[d] = IF d = "cdc" THEN ClaimedBy(42)[d] \cup 5..6 ELSE ClaimedBy(42)[d]
    BY DEF ClaimedBy, Drivers
  <2>2. ClaimedBy(48) = [d \in Drivers |-> ClaimedBy(48)[d]] /\ DOMAIN ClaimedBy(42) = Drivers
    BY DEF ClaimedBy
  <2> QED
    BY <2>1, <2>2
<1> QED
  BY <1>1, <1>2, <1>3, <1>4, <1>5

\* A driver takes its function to the end of it, and opens its endpoints.
LEMMA OpenNextKeeps == ASSUME EnumerationInv, OpenNext PROVE EnumerationInv'
<1> USE DEF EnumerationInv, stringVars, streamVars
<1>0. Lies /\ Len(flash) = 47 /\ phase = "drivers" /\ at \in Strides
  BY FlashListed, HowMany DEF Course, Lies, OpenNext, Walk
<1>1. UNCHANGED <<flash, resets, known, stringVars, streamVars>> /\ phase' \in {"drivers", "configured"}
  BY <1>0 DEF OpenNext
<1>2. Course'
  BY <1>0, <1>1 DEF Course
<1>3. Letters'
  BY <1>1 DEF Letters, StringsArrive, InBuffer
<1>4. Streaming'
  BY <1>0, <1>1 DEF Streaming
<1>5. Walk'
  <2>1. CASE at = 48
    BY <1>0, <2>1 DEF OpenNext, Walk, progressVars
  <2>2. CASE at # 48
    <3>1. at \in {2, 3, 32, 33, 41, 42} /\ at <= 47
      BY <1>0, <2>2 DEF Strides
    <3>2. at' = EndAt(at) /\ phase' = "drivers"
      BY <1>0, <3>1 DEF OpenNext
    <3>3. CASE at \in {2, 32, 41}
      <4>1. DriverAt(at) = "none" /\ at' = at + 1
        BY <1>0, <3>2, <3>3, DriversAt, EndsAt
      <4>2. UNCHANGED <<claimed, opened>>
        BY <1>0, <3>1, <4>1 DEF OpenNext
      <4> QED
        BY <1>0, <3>2, <3>3, <4>1, <4>2, WalkAdds DEF Walk, Strides
    <3>4. ASSUME NEW d \in Drivers, DriverAt(at) = d,
                 NEW pipes, Sized(Within(at, "endpoint")) = pipes,
                 NEW numbers, {i.number : i \in Within(at, "interface")} = numbers,
                 Words(opened \cup pipes) <= 320
          PROVE  /\ claimed' = [claimed EXCEPT ![d] = @ \cup numbers]
                 /\ opened' = opened \cup pipes
      <4>1. d # "none"
        BY DEF Drivers
      <4> QED
        BY <1>0, <3>1, <3>4, <4>1 DEF OpenNext, kOtgFsDfifoWords
    <3>5. CASE at = 3
      <4>1. /\ DriverAt(at) = "audio" /\ at' = 32 /\ opened = {}
            /\ Sized(Within(at, "endpoint")) = AudioPipes
            /\ {i.number : i \in Within(at, "interface")} = 0..2
        BY <1>0, <3>2, <3>5, DriversAt, EndsAt, PipesWithin, InterfacesWithin DEF Walk, OpenedBy
      <4>2. Words(opened \cup AudioPipes) <= 320 /\ "audio" \in Drivers
        BY <4>1, FifoBudget, {} \cup AudioPipes = AudioPipes DEF Drivers
      <4>3. claimed' = [claimed EXCEPT !["audio"] = @ \cup 0..2] /\ opened' = opened \cup AudioPipes
        BY <3>4, <4>1, <4>2, Zenon
      <4> QED
        BY <3>2, <3>5, <4>1, <4>3, WalkAdds DEF Walk, Strides
    <3>6. CASE at = 33
      <4>1. /\ DriverAt(at) = "midi" /\ at' = 41 /\ opened = AudioPipes
            /\ Sized(Within(at, "endpoint")) = MidiPipes
            /\ {i.number : i \in Within(at, "interface")} = 3..4
        BY <1>0, <3>2, <3>6, DriversAt, EndsAt, PipesWithin, InterfacesWithin DEF Walk, OpenedBy
      <4>2. Words(opened \cup MidiPipes) <= 320 /\ "midi" \in Drivers
        BY <4>1, FifoBudget DEF Drivers
      <4>3. claimed' = [claimed EXCEPT !["midi"] = @ \cup 3..4] /\ opened' = opened \cup MidiPipes
        BY <3>4, <4>1, <4>2, Zenon
      <4> QED
        BY <3>2, <3>6, <4>1, <4>3, WalkAdds DEF Walk, Strides
    <3>7. CASE at = 42
      <4>1. /\ DriverAt(at) = "cdc" /\ at' = 48 /\ opened = AudioPipes \cup MidiPipes
            /\ Sized(Within(at, "endpoint")) = CdcPipes
            /\ {i.number : i \in Within(at, "interface")} = 5..6
        BY <1>0, <3>2, <3>7, DriversAt, EndsAt, PipesWithin, InterfacesWithin DEF Walk, OpenedBy
      <4>2. Words(opened \cup CdcPipes) <= 320 /\ "cdc" \in Drivers
        BY <4>1, FifoBudget DEF Drivers
      <4>3. claimed' = [claimed EXCEPT !["cdc"] = @ \cup 5..6] /\ opened' = opened \cup CdcPipes
        BY <3>4, <4>1, <4>2, Zenon
      <4> QED
        BY <3>2, <3>7, <4>1, <4>3, WalkAdds DEF Walk, Strides
    <3> QED
      BY <3>1, <3>3, <3>5, <3>6, <3>7
  <2> QED
    BY <2>1, <2>2
<1> QED
  BY <1>2, <1>3, <1>4, <1>5

\* The host reads the rate the device runs at.
LEMMA ReadRateKeeps == ASSUME EnumerationInv, ReadRate PROVE EnumerationInv'
<1> USE DEF EnumerationInv, ReadRate, progressVars, stringVars
<1>1. Course'
  BY DEF Course
<1>2. Letters'
  BY DEF Letters, StringsArrive, InBuffer
<1>3. Walk'
  BY DEF Walk
<1>4. Streaming'
  <2>1. hostRate' = clockRate
    BY DEF GetRequest, kEntityClock
  <2> QED
    BY <2>1 DEF Streaming
<1> QED
  BY <1>1, <1>2, <1>3, <1>4

\* A rate that is taken is one on offer.
LEMMA SetRateKeeps == ASSUME EnumerationInv, NEW hz \in Requested, SetRate(hz) PROVE EnumerationInv'
<1> USE DEF EnumerationInv, SetRate, progressVars, stringVars
<1>1. Course'
  BY DEF Course
<1>2. Letters'
  BY DEF Letters, StringsArrive, InBuffer
<1>3. Walk'
  BY DEF Walk
<1>4. Streaming'
  <2>1. hz \in {44100, 48000}
    BY DEF isSupportedSampleRate, kSupportedSampleRatesHz
  <2> QED
    BY <2>1 DEF Streaming
<1> QED
  BY <1>1, <1>2, <1>3, <1>4

\* An alternate setting with endpoints is the one that streams, in its format.
LEMMA SetInterfaceKeeps ==
  ASSUME EnumerationInv, NEW stream \in Streams, NEW a \in 0..2, SetInterface(stream, a)
  PROVE  EnumerationInv'
<1> USE DEF EnumerationInv, progressVars, stringVars
<1>0. UNCHANGED <<flash, phase, resets, known, progressVars, stringVars, clockRate, hostRate>>
  BY DEF SetInterface
<1>1. Course'
  BY <1>0 DEF Course
<1>2. Letters'
  BY <1>0 DEF Letters, StringsArrive, InBuffer
<1>3. Walk'
  BY <1>0 DEF Walk
<1>4. Streaming'
  <2>1. CASE a # kAltZeroBandwidth
    BY <1>0, <2>1 DEF SetInterface, Streaming, FormatOf
  <2>2. CASE a = kAltZeroBandwidth
    BY <1>0, <2>2 DEF SetInterface, Streaming, FormatOf
  <2> QED
    BY <2>1, <2>2
<1> QED
  BY <1>1, <1>2, <1>3, <1>4

\* From reset to configured, over every bus reset, repeated request and rate: the
\* host has read the table in full, the walk stops at the table's functions and
\* nowhere else, and the shared string buffer holds the string asked for
\* (usb-descriptors.h:224-286, usb-descriptors.cpp:297-394).
THEOREM EnumerationStays == EnumerationSpec => []EnumerationInv
<1>1. EnumerationInv /\ [EnumerationNext]_enumerationVars => EnumerationInv'
  <2> SUFFICES ASSUME EnumerationInv, [EnumerationNext]_enumerationVars PROVE EnumerationInv'
    OBVIOUS
  <2>1. CASE UNCHANGED enumerationVars
    <3>0. UNCHANGED <<flash, phase, resets, known, at, claimed, opened, unread, asked, buffer,
                      received, clockRate, hostRate, alt, chosen, format>>
      BY <2>1, Zenon DEF enumerationVars, progressVars, stringVars, streamVars
    <3>1. Course'
      BY <3>0 DEF EnumerationInv, Course
    <3>2. Letters'
      BY <3>0 DEF EnumerationInv, Letters, StringsArrive, InBuffer
    <3>3. Walk'
      BY <3>0 DEF EnumerationInv, Walk
    <3>4. Streaming'
      BY <3>0 DEF EnumerationInv, Streaming
    <3> QED
      BY <3>1, <3>2, <3>3, <3>4 DEF EnumerationInv
  <2>2. CASE EnumerationNext
    BY <2>2, AttachKeeps, BusResetKeeps, GetDeviceKeeps, GetHeaderKeeps, GetConfigurationKeeps,
       GetStringKeeps, ReceiveStringKeeps, SetConfigurationKeeps, OpenNextKeeps, ReadRateKeeps,
       SetRateKeeps, SetInterfaceKeeps DEF EnumerationNext
  <2> QED
    BY <2>1, <2>2
<1> QED
  BY <1>1, EnumerationStarts, PTL DEF EnumerationSpec

\* The invariant holds the types.
LEMMA EnumerationTypes == EnumerationInv => EnumerationTypeOK
<1> SUFFICES ASSUME EnumerationInv PROVE EnumerationTypeOK
  OBVIOUS
<1> USE DEF EnumerationInv
<1>1. phase \in {"detached", "attached", "device", "config", "strings", "drivers", "configured", "failed"}
      /\ resets \in 0..MaxResets
  BY DEF Course
<1>2. unread \subseteq 0..(kStringCount - 1) /\ asked \in 0..(kStringCount - 1) \cup {NoIndex}
  BY DEF Letters, kStringCount, kStrCdc
<1>3. at \in 2..(Len(flash) + 1)
  <2>1. Len(flash) = 47
    BY FlashListed, HowMany DEF Course
  <2> QED
    BY <2>1 DEF Walk, Strides
<1>4. \A d \in Drivers : claimed[d] \subseteq 0..(kItfCount - 1)
  <2>1. \A d \in Drivers : claimed[d] \in {0..2, 3..4, 5..6, {}}
    BY DEF Walk, ClaimedBy
  <2>2. \A S \in {0..2, 3..4, 5..6, {}} : S \subseteq 0..(kItfCount - 1)
    BY DEF kItfCount, kItfNumCdcData
  <2> QED
    BY <2>1, <2>2
<1>5. clockRate \in Range(kSupportedSampleRatesHz) /\ hostRate \in Requested \cup {0}
  <2>1. Range(kSupportedSampleRatesHz) = {44100, 48000}
    BY DEF Range, kSupportedSampleRatesHz
  <2> QED
    BY <2>1 DEF Streaming
<1> QED
  BY <1>1, <1>2, <1>3, <1>4, <1>5 DEF EnumerationTypeOK, Streaming

\* What the host makes of the configuration.
LEMMA HostSees ==
  ASSUME known = Descriptors
  PROVE  HostFunctions = {0..2, 3..4, 5..6}
<1> DEFINE present == {d.number : d \in {i \in Range(known) : i.kind = "interface"}}
           covered == {(d.first)..(d.first + d.count - 1) : d \in {i \in Range(known) : i.kind = "iad"}}
<1>1. {i \in Range(known) : i.kind = "iad"} = {Descriptors[2], Descriptors[32], Descriptors[41]}
  <2>1. \A i \in {2, 32, 41} : i \in 1..47
    OBVIOUS
  <2>2. Range(known) = {Descriptors[n] : n \in 1..47}
    BY HowMany DEF Range
  <2> QED
    BY SMTT(30), <2>1, <2>2, Positions
<1>2. covered = {0..2, 3..4, 5..6}
  <2>1. /\ Descriptors[2].first = 0 /\ Descriptors[2].count = 3
        /\ Descriptors[32].first = 3 /\ Descriptors[32].count = 2
        /\ Descriptors[41].first = 5 /\ Descriptors[41].count = 2
    BY Associations DEF Iad
  <2>2. covered = {(d.first)..(d.first + d.count - 1) : d \in {Descriptors[2], Descriptors[32], Descriptors[41]}}
    BY <1>1, Zenon
  <2>3. {(d.first)..(d.first + d.count - 1) : d \in {Descriptors[2], Descriptors[32], Descriptors[41]}}
          = {(Descriptors[2].first)..(Descriptors[2].first + Descriptors[2].count - 1),
             (Descriptors[32].first)..(Descriptors[32].first + Descriptors[32].count - 1),
             (Descriptors[41].first)..(Descriptors[41].first + Descriptors[41].count - 1)}
    BY Zenon
  <2>4. 0 + 3 - 1 = 2 /\ 3 + 2 - 1 = 4 /\ 5 + 2 - 1 = 6
    OBVIOUS
  <2> HIDE DEF covered
  <2> QED
    BY <2>1, <2>2, <2>3, <2>4, Zenon
<1>3. present \subseteq 0..6
  <2>0. Range(known) = {Descriptors[n] : n \in 1..47}
    BY HowMany DEF Range
  <2>1. ASSUME NEW n \in 1..47, Descriptors[n].kind = "interface" PROVE Descriptors[n].number \in 0..6
    <3>1. n \in Numbers
      BY <2>1, Positions, Zenon
    <3> QED
      BY <3>1, Interfaces DEF Numbers, Interface
  <2> QED
    BY SMTT(30), <2>0, <2>1
<1>4. UNION {0..2, 3..4, 5..6} = 0..6
  OBVIOUS
<1>5. HostFunctions = covered \cup {{n} : n \in present \ UNION covered}
  BY DEF HostFunctions, kDeviceDescriptor
<1> HIDE DEF present, covered
<1>6. present \ UNION covered = {}
  BY <1>2, <1>3, <1>4
<1> QED
  BY <1>2, <1>5, <1>6

\* When the host has bound a function, the device has opened it, and what all of
\* them take of the FIFO fits (usb-audio-fifo-budget.h:77-148, tusb_config.h:204-279).
LEMMA AllFunctionsOpen == EnumerationInv => EveryFunctionOpens
<1> SUFFICES ASSUME EnumerationInv, phase = "configured" PROVE EveryFunctionOpens
  BY DEF EveryFunctionOpens
<1>1. known = Descriptors /\ claimed = ClaimedBy(48) /\ opened = AudioPipes \cup MidiPipes \cup CdcPipes
  BY FlashListed, WalkAdds DEF EnumerationInv, Course, Walk
<1>2. HostFunctions = {0..2, 3..4, 5..6}
  BY <1>1, HostSees
<1>3. {claimed[d] : d \in Drivers} = {0..2, 3..4, 5..6}
  <2>1. claimed["audio"] = 0..2 /\ claimed["midi"] = 3..4 /\ claimed["cdc"] = 5..6
    BY <1>1 DEF ClaimedBy, Drivers
  <2> QED
    BY <2>1 DEF Drivers
<1>4. UNION HostFunctions = 0..(known[1].interfaces - 1)
  <2>1. known[1].interfaces = 7
    BY <1>1 DEF Descriptors, Config, kItfCount, kItfNumCdcData
  <2>2. UNION {0..2, 3..4, 5..6} = 0..6
    OBVIOUS
  <2> QED
    BY <1>2, <2>1, <2>2
<1>5. {e.address : e \in opened} = {d.address : d \in {i \in Range(known) : i.kind = "endpoint"}}
  <2> DEFINE all == {kEpAudioOut, kEpAudioIn, kEpMidiOut, kEpMidiIn, kEpCdcNotify, kEpCdcOut, kEpCdcIn}
  <2>1. {e.address : e \in opened} = all
    BY <1>1 DEF AudioPipes, MidiPipes, CdcPipes, Pipe
  <2>2. {d.address : d \in {i \in Range(known) : i.kind = "endpoint"}} = {Descriptors[n].address : n \in Pipes}
    <3>1. \A n \in 1..47 : Descriptors[n].kind = "endpoint" <=> n \in Pipes
      BY Positions, Zenon
    <3>2. Pipes \subseteq 1..47
      BY DEF Pipes
    <3>3. Range(known) = {Descriptors[n] : n \in 1..47}
      BY <1>1, HowMany DEF Range
    <3> QED
      BY <3>1, <3>2, <3>3, Zenon
  <2>3. {Descriptors[n].address : n \in Pipes} = all
    BY Endpoints DEF Pipes
  <2> QED
    BY <2>1, <2>2, <2>3
<1>6. Words(opened) <= kOtgFsDfifoWords
  BY <1>1, FifoBudget DEF kOtgFsDfifoWords
<1>7. Cardinality({e.address.number : e \in opened}) < kOtgFsEpCount
  <2>1. {e.address.number : e \in opened} = 1..4
    BY <1>1 DEF AudioPipes, MidiPipes, CdcPipes, Pipe, kEpAudioOut, kEpAudioIn, kEpMidiOut, kEpMidiIn,
       kEpCdcNotify, kEpCdcOut, kEpCdcIn, In, Out
  <2>2. Cardinality(1..4) = 4
    <3>1. 1 \in Int /\ 4 \in Int
      OBVIOUS
    <3>2. Cardinality(1..4) = IF 1 > 4 THEN 0 ELSE 4 - 1 + 1
      BY <3>1, FS_Interval, Zenon
    <3> QED
      BY <3>2
  <2> QED
    BY <2>1, <2>2 DEF kOtgFsEpCount
<1> QED
  BY <1>2, <1>3, <1>4, <1>5, <1>6, <1>7 DEF EveryFunctionOpens

\* The formats of the streaming alternates are the ones the table advertises.
LEMMA SubslotsAdvertised ==
  ASSUME known = Descriptors, NEW stream \in Streams, NEW a \in {1, 2}
  PROVE  AdvertisedSubslot(stream, a) = IF a = 2 THEN 3 ELSE 2
<1> DEFINE Is(i) == known[i].kind = "interface" /\ known[i].number = stream /\ known[i].alt = a
<1>1. stream \in {1, 2} /\ DOMAIN known = 1..47
  BY HowMany DEF Streams, kItfNumAudioStreamingOut, kItfNumAudioStreamingIn
<1>2. PICK n \in {11, 16, 22, 27} :
        /\ stream = (IF n \in {11, 16} THEN 1 ELSE 2) /\ a = (IF n \in {11, 22} THEN 1 ELSE 2)
  BY <1>1
<1>3. \A i \in 1..47 : Is(i) <=> i = n
  <2>1. \A i \in Numbers : Descriptors[i].number = stream /\ Descriptors[i].alt = a <=> i = n
    BY <1>2, Interfaces DEF Numbers, Interface
  <2>2. \A i \in 1..47 : Descriptors[i].kind = "interface" <=> i \in Numbers
    BY Positions, Zenon
  <2>3. n \in Numbers /\ n \in 1..47
    BY <1>2 DEF Numbers
  <2> QED
    BY <2>1, <2>2, <2>3, Zenon
<1>4. (CHOOSE i \in DOMAIN known : Is(i)) = n
  <2>1. n \in 1..47
    BY <1>2
  <2> HIDE DEF Is
  <2> QED
    BY <1>1, <1>3, <2>1
<1>5. AdvertisedSubslot(stream, a) = Descriptors[n + 2].subslot
  BY <1>4 DEF AdvertisedSubslot
<1>6. /\ Descriptors[13].subslot = 2 /\ Descriptors[18].subslot = 3
      /\ Descriptors[24].subslot = 2 /\ Descriptors[29].subslot = 3
  BY DEF Descriptors, FormatType
<1> QED
  BY <1>2, <1>5, <1>6

\* Host and device go by the same rate and format, from the table alone.
LEMMA BothAgree == EnumerationInv => HostAndDeviceAgree
<1> SUFFICES ASSUME EnumerationInv PROVE HostAndDeviceAgree
  OBVIOUS
<1>0. clockRate \in {44100, 48000} /\ hostRate \in {0, clockRate}
  BY DEF EnumerationInv, Streaming
<1>1. ASSUME hostRate # 0
      PROVE  /\ hostRate = clockRate
             /\ \E s \in GetRequest(kEntityClock, "SAM_FREQ", "RANGE") : hostRate \in (s.bMin)..(s.bMax)
             /\ RangeReplyBytes <= CFG_TUD_AUDIO_CTRL_BUF_SZ
  <2>1. hostRate = clockRate
    BY <1>0, <1>1
  <2>2. GetRequest(kEntityClock, "SAM_FREQ", "RANGE") = Subranges
    BY DEF GetRequest, kEntityClock
  <2>3. [bMin |-> clockRate, bMax |-> clockRate, bRes |-> 0] \in Subranges
    <3>1. clockRate \in Range(kSupportedSampleRatesHz)
      BY <1>0 DEF Range, kSupportedSampleRatesHz
    <3> QED
      BY <3>1 DEF Subranges
  <2>4. RangeReplyBytes <= CFG_TUD_AUDIO_CTRL_BUF_SZ
    BY DEF RangeReplyBytes, CFG_TUD_AUDIO_CTRL_BUF_SZ, kSupportedSampleRatesHz
  <2> QED
    BY <1>0, <2>1, <2>2, <2>3, <2>4
<1>2. ASSUME chosen # NoStream
      PROVE  LET frame == kAudioChannels * AdvertisedSubslot(chosen, alt[chosen])
                 packet == kMaxPacketFrames * frame
             IN  /\ frame = FrameBytes(format)
                 /\ \E e \in opened : e.address = EndpointOf(chosen) /\ packet <= e.size
                 /\ packet <= OutPacketBufferBytes /\ packet <= CFG_TUD_AUDIO_FUNC_1_EP_SZ_MAX
                 /\ 4 * frame * (clockRate \div 1000 + 1) <= CFG_TUD_AUDIO_FUNC_1_EP_SW_BUF_SZ
  <2>1. /\ chosen \in Streams /\ alt[chosen] \in {1, 2} /\ phase = "configured"
        /\ format = FormatOf(alt[chosen])
    BY <1>2 DEF EnumerationInv, Streaming, kAltZeroBandwidth
  <2>2. known = Descriptors /\ opened = AudioPipes \cup MidiPipes \cup CdcPipes
    BY <2>1, FlashListed, WalkAdds DEF EnumerationInv, Course, Walk
  <2>3. AdvertisedSubslot(chosen, alt[chosen]) = IF alt[chosen] = 2 THEN 3 ELSE 2
    BY <2>1, <2>2, SubslotsAdvertised
  <2>4. format = IF alt[chosen] = 2 THEN "Pcm24" ELSE "Pcm16"
    BY <2>1 DEF FormatOf, kAltStreaming24
  <2> DEFINE frame == kAudioChannels * AdvertisedSubslot(chosen, alt[chosen])
  <2>5. frame = FrameBytes(format) /\ frame \in {4, 6}
    BY <2>3, <2>4 DEF FrameBytes, kAudioChannels
  <2> HIDE DEF frame
  <2>6. \E e \in opened : e.address = EndpointOf(chosen) /\ 294 = e.size
    <3>1. EndpointOf(chosen) \in {kEpAudioOut, kEpAudioIn}
      BY DEF EndpointOf
    <3>2. Pipe(EndpointOf(chosen), 294) \in opened
      BY <2>2, <3>1 DEF AudioPipes
    <3> QED
      BY <3>2 DEF Pipe
  <2>7. kMaxPacketFrames * frame <= 294
    BY <2>5 DEF kMaxPacketFrames
  <2>8. 4 * frame * (clockRate \div 1000 + 1) <= 1176
    <3>1. clockRate \div 1000 + 1 \in {45, 49}
      BY <1>0
    <3> QED
      BY <2>5, <3>1
  <2> QED
    BY <2>5, <2>6, <2>7, <2>8 DEF frame, OutPacketBufferBytes, CFG_TUD_AUDIO_FUNC_1_EP_SZ_MAX,
       CFG_TUD_AUDIO_FUNC_1_EP_SW_BUF_SZ
<1> QED
  BY <1>1, <1>2 DEF HostAndDeviceAgree

\* What the host has bound the device has opened, in the FIFO memory there is and
\* with endpoint numbers to spare; every string arrives in full; host and device go
\* by the same rate and format, and the largest packet of it fits the endpoint, the
\* staging buffer and, four times over, the driver's FIFO (usb-descriptors.h:178-208,
\* usb-audio-fifo-budget.h:77-148, tusb_config.h:204-279).
THEOREM EnumeratedRight == EnumerationSpec => []EnumerationIsRight
<1>1. EnumerationInv => EnumerationIsRight
  BY AllFunctionsOpen, BothAgree DEF EnumerationIsRight, EnumerationInv, Letters
<1> QED
  BY <1>1, EnumerationStays, PTL

-----------------------------------------------------------------------------
(* Bytes: the digits of a number, the record, the FIFO                     *)

\* A number has digits.
LEMMA DigitsAreANumber == \A value \in 0..Wrap : Digits(value) \in Nat \ {0}
<1>0. Wrap \in Nat /\ Base \in Nat /\ Base >= 2
  BY DiagnosticsAssumption DEF DiagnosticsConstants
<1> DEFINE Is(f) == f = [v \in 0..Wrap |-> IF v < Base THEN 1 ELSE 1 + f[v \div Base]]
           of == CHOOSE f : Is(f)
           UpTo(f, n) == \A v \in 0..n : f[v] = IF v < Base THEN 1 ELSE 1 + f[v \div Base]
           S == {n \in 0..Wrap : \E f \in [0..n -> Nat \ {0}] : UpTo(f, n)}
<1>1. \A v, n \in Nat : v <= n /\ ~(v < Base) => v \div Base \in 0..(n - 1) /\ v \div Base < v
  <2>1. \A a, b \in Nat : b >= 2 /\ a >= b => a \div b \in Nat /\ a \div b < a
    BY Z3
  <2> TAKE v, n \in Nat
  <2>2. HAVE v <= n /\ ~(v < Base)
  <2>3. v \div Base \in Nat /\ v \div Base < v
    BY <1>0, <2>1, <2>2
  <2> QED
    BY <2>2, <2>3
<1>2. 0 \in S
  <2> DEFINE f == [v \in 0..0 |-> 1]
  <2>1. f \in [0..0 -> Nat \ {0}] /\ UpTo(f, 0)
    BY <1>0
  <2> QED
    BY <1>0, <2>1
<1>3. \A n \in 1..Wrap : n - 1 \in S => n \in S
  <2> SUFFICES ASSUME NEW n \in 1..Wrap, n - 1 \in S PROVE n \in S
    OBVIOUS
  <2>1. PICK f \in [0..(n - 1) -> Nat \ {0}] : UpTo(f, n - 1)
    OBVIOUS
  <2> DEFINE g == [v \in 0..n |-> IF v < n THEN f[v] ELSE IF v < Base THEN 1 ELSE 1 + f[v \div Base]]
  <2>2. g \in [0..n -> Nat \ {0}]
    <3>1. ASSUME NEW v \in 0..n PROVE g[v] \in Nat \ {0}
      <4>1. CASE v < n
        BY <4>1
      <4>2. CASE v = n /\ v < Base
        BY <4>2
      <4>3. CASE v = n /\ ~(v < Base)
        <5>1. v \in Nat /\ n \in Nat /\ v <= n
          BY <4>3
        <5>2. v \div Base \in 0..(n - 1)
          BY <1>1, <4>3, <5>1
        <5> QED
          BY <4>3, <5>2
      <4> QED
        BY <4>1, <4>2, <4>3
    <3> QED
      BY <3>1
  <2>3. ASSUME NEW v \in 0..n PROVE g[v] = IF v < Base THEN 1 ELSE 1 + g[v \div Base]
    <3>1. CASE v < Base
      <4>1. CASE v < n
        BY <2>1, <3>1, <4>1
      <4>2. CASE v = n
        BY <3>1, <4>2
      <4> QED
        BY <4>1, <4>2
    <3>2. CASE ~(v < Base)
      <4>0. v \in Nat /\ n \in Nat /\ v <= n
        OBVIOUS
      <4>5. v \div Base \in 0..(n - 1)
        BY <1>1, <3>2, <4>0
      <4>1. v \div Base \in 0..(n - 1) /\ v \div Base \in 0..n
        BY <4>0, <4>5
      <4>2. g[v \div Base] = f[v \div Base]
        BY <4>1
      <4>3. CASE v < n
        BY <2>1, <3>2, <4>2, <4>3
      <4>4. CASE v = n
        BY <3>2, <4>2, <4>4
      <4> QED
        BY <4>3, <4>4
    <3> QED
      BY <3>1, <3>2
  <2> HIDE DEF g
  <2>4. UpTo(g, n) /\ n \in 0..Wrap
    BY <1>0, <2>3
  <2> HIDE DEF UpTo
  <2> QED
    BY <2>2, <2>4
<1>4. 0..Wrap \subseteq S
  <2> HIDE DEF S
  <2> QED
    BY <1>0, <1>2, <1>3, RangeInduction, Zenon
<1>5. PICK f \in [0..Wrap -> Nat \ {0}] : UpTo(f, Wrap)
  <2>1. Wrap \in S
    <3> HIDE DEF S
    <3> QED
      BY <1>0, <1>4
  <2> QED
    BY <2>1
<1>6. Is(f)
  <2>1. f = [v \in 0..Wrap |-> f[v]]
    OBVIOUS
  <2> QED
    BY <1>5, <2>1
<1>7. Is(of)
  <2> HIDE DEF Is
  <2> QED
    BY <1>6, Zenon
<1>8. \A value : Digits(value) = of[value]
  BY DEF Digits
<1>9. UpTo(of, Wrap)
  BY <1>7
<1> HIDE DEF of, Is, S
<1> DEFINE T == {n \in 0..Wrap : \A v \in 0..n : of[v] \in Nat \ {0}}
<1>10. 0 \in T
  BY <1>0, <1>9
<1>11. \A n \in 1..Wrap : n - 1 \in T => n \in T
  <2> SUFFICES ASSUME NEW n \in 1..Wrap, n - 1 \in T PROVE n \in T
    OBVIOUS
  <2>0. \A v \in 0..(n - 1) : of[v] \in Nat \ {0}
    OBVIOUS
  <2>1. of[n] = IF n < Base THEN 1 ELSE 1 + of[n \div Base]
    BY <1>9
  <2>2. CASE n < Base
    <3>1. of[n] \in Nat \ {0}
      BY <2>1, <2>2
    <3> QED
      BY <1>0, <2>0, <3>1
  <2>3. CASE ~(n < Base)
    <3>1. n \in Nat /\ n <= n
      OBVIOUS
    <3>2. n \div Base \in 0..(n - 1)
      BY <1>1, <2>3, <3>1
    <3>3. of[n \div Base] \in Nat \ {0}
      BY <2>0, <3>2
    <3>4. of[n] \in Nat \ {0}
      BY <2>1, <2>3, <3>3
    <3> QED
      BY <1>0, <2>0, <3>4
  <2> QED
    BY <2>2, <2>3
<1>12. 0..Wrap \subseteq T
  <2> HIDE DEF T
  <2> QED
    BY <1>0, <1>10, <1>11, RangeInduction, Zenon
<1> QED
  BY <1>0, <1>8, <1>12

\* The line of a number is some bytes.
LEMMA LinesAreNumbers == \A value \in 0..(Wrap - 1) : Line(value) \in Nat \ {0}
<1>1. Wrap \in Nat \ {0}
  BY DiagnosticsAssumption DEF DiagnosticsConstants
<1>2. \A n \in Nat \ {0} : 4 + n \in Nat \ {0}
  OBVIOUS
<1> QED
  BY <1>1, <1>2, DigitsAreANumber DEF Line

\* A field goes out first, and the others after it.
FirstField(fields) == CHOOSE g \in fields : TRUE

\* One field fewer is one field fewer.
LEMMA FieldsRunOut ==
  \A fields \in SUBSET Fields : fields # {} =>
    /\ FirstField(fields) \in Fields
    /\ fields \ {FirstField(fields)} \in SUBSET Fields
    /\ Cardinality(fields) \in Nat \ {0} /\ Cardinality(fields) <= Cardinality(Fields)
    /\ Cardinality(fields \ {FirstField(fields)}) = Cardinality(fields) - 1
<1> SUFFICES ASSUME NEW fields \in SUBSET Fields, fields # {}
             PROVE  /\ FirstField(fields) \in Fields
                    /\ fields \ {FirstField(fields)} \in SUBSET Fields
                    /\ Cardinality(fields) \in Nat \ {0} /\ Cardinality(fields) <= Cardinality(Fields)
                    /\ Cardinality(fields \ {FirstField(fields)}) = Cardinality(fields) - 1
  OBVIOUS
<1>1. IsFiniteSet(Fields)
  BY DiagnosticsAssumption DEF DiagnosticsConstants
<1>2. IsFiniteSet(fields) /\ Cardinality(fields) <= Cardinality(Fields)
  BY <1>1, FS_Subset
<1>3. FirstField(fields) \in fields
  BY DEF FirstField
<1>4. Cardinality(fields) \in Nat /\ Cardinality(Fields) \in Nat /\ Cardinality(fields) # 0
  BY <1>1, <1>2, FS_CardinalityType, FS_EmptySet
<1>5. Cardinality(fields \ {FirstField(fields)}) = Cardinality(fields) - 1
  BY <1>2, <1>3, FS_RemoveElement
<1> QED
  BY <1>2, <1>3, <1>4, <1>5

\* Some fields are finitely many.
LEMMA FieldsCount ==
  \A fields \in SUBSET Fields :
    Cardinality(fields) \in Nat /\ Cardinality(fields) <= Cardinality(Fields)
    /\ (Cardinality(fields) <= 0 => fields = {})
<1> SUFFICES ASSUME NEW fields \in SUBSET Fields
             PROVE  /\ Cardinality(fields) \in Nat /\ Cardinality(fields) <= Cardinality(Fields)
                    /\ Cardinality(fields) <= 0 => fields = {}
  OBVIOUS
<1>1. IsFiniteSet(fields) /\ Cardinality(fields) <= Cardinality(Fields)
  BY FS_Subset, DiagnosticsAssumption DEF DiagnosticsConstants
<1>2. Cardinality(fields) \in Nat /\ (Cardinality(fields) = 0 => fields = {})
  BY <1>1, FS_CardinalityType, FS_EmptySet
<1> QED
  BY <1>1, <1>2

\* A record is some bytes.
LEMMA RecordIsSome ==
  ASSUME NEW s, \A f \in Fields : s.count[f] \in 0..(Wrap - 1), s.worst \in 0..(Wrap - 1)
  PROVE  RecordBytes(s) \in Nat \ {0}
<1> DEFINE Rule(h, fields) == IF fields = {} THEN 0
                              ELSE Line(s.count[FirstField(fields)]) + h[fields \ {FirstField(fields)}]
           Is(h) == h = [fields \in SUBSET Fields |->
                          IF fields = {} THEN 0
                          ELSE LET f == CHOOSE g \in fields : TRUE
                               IN  Line(s.count[f]) + h[fields \ {f}]]
           lines == CHOOSE h : Is(h)
           Size == Cardinality(Fields)
           UpTo(h, n) == \A fields \in SUBSET Fields : Cardinality(fields) <= n => h[fields] = Rule(h, fields)
           S == {n \in 0..Size : \E h \in [SUBSET Fields -> Nat] : UpTo(h, n)}
<1>0. Size \in Nat /\ Cardinality({}) = 0 /\ \A fields \in SUBSET Fields : Cardinality(fields) \in 0..Size
  <2>1. Size \in Nat /\ Cardinality({}) = 0
    BY FS_EmptySet, FS_CardinalityType, DiagnosticsAssumption DEF DiagnosticsConstants
  <2>2. ASSUME NEW fields \in SUBSET Fields PROVE Cardinality(fields) \in 0..Size
    BY <2>1, FieldsCount
  <2> QED
    BY <2>1, <2>2
<1>1. \A fields \in SUBSET Fields : fields # {} => Line(s.count[FirstField(fields)]) \in Nat
  BY FieldsRunOut, LinesAreNumbers
<1>2. RecordBytes(s) = lines[Fields] + Line(s.worst) + (IF s.live THEN 8 ELSE 9)
  BY DEF RecordBytes
<1>3. 0 \in S
  <2> DEFINE h == [fields \in SUBSET Fields |-> 0]
  <2>1. h \in [SUBSET Fields -> Nat]
    OBVIOUS
  <2>2. UpTo(h, 0)
    <3> SUFFICES ASSUME NEW fields \in SUBSET Fields, Cardinality(fields) <= 0
                 PROVE  h[fields] = Rule(h, fields)
      OBVIOUS
    <3>1. fields = {}
      BY FieldsCount
    <3> QED
      BY <3>1
  <2> QED
    BY <1>0, <2>1, <2>2
<1>4. \A n \in 1..Size : n - 1 \in S => n \in S
  <2> SUFFICES ASSUME NEW n \in 1..Size, n - 1 \in S PROVE n \in S
    OBVIOUS
  <2>1. PICK h \in [SUBSET Fields -> Nat] : UpTo(h, n - 1)
    OBVIOUS
  <2> DEFINE k == [fields \in SUBSET Fields |-> IF Cardinality(fields) < n THEN h[fields] ELSE Rule(h, fields)]
  <2>2. ASSUME NEW fields \in SUBSET Fields PROVE Rule(h, fields) \in Nat
    BY <1>1, FieldsRunOut
  <2>3. k \in [SUBSET Fields -> Nat]
    BY <2>2
  <2>4. ASSUME NEW fields \in SUBSET Fields, Cardinality(fields) <= n PROVE k[fields] = Rule(k, fields)
    <3>1. CASE fields = {}
      <4>1. k[fields] = h[fields] /\ h[fields] = Rule(h, fields)
        BY <1>0, <2>1, <3>1
      <4> QED
        BY <3>1, <4>1
    <3>2. CASE fields # {}
      <4> DEFINE rest == fields \ {FirstField(fields)}
      <4>1. rest \in SUBSET Fields /\ Cardinality(rest) < n
        BY <1>0, <2>4, <3>2, FieldsRunOut
      <4>2. k[rest] = h[rest]
        BY <4>1
      <4>3. k[fields] = Rule(h, fields)
        BY <1>0, <2>1, <2>4
      <4> HIDE DEF k
      <4> QED
        BY <4>2, <4>3
    <3> QED
      BY <3>1, <3>2
  <2> HIDE DEF k, Rule
  <2>5. UpTo(k, n) /\ n \in 0..Size
    BY <1>0, <2>4
  <2> HIDE DEF UpTo
  <2> QED
    BY <2>3, <2>5
<1>5. 0..Size \subseteq S
  <2> HIDE DEF S, Size
  <2> QED
    BY <1>0, <1>3, <1>4, RangeInduction, Zenon
<1>6. PICK h \in [SUBSET Fields -> Nat] : UpTo(h, Size)
  <2>1. Size \in S
    <3> HIDE DEF S, Size
    <3> QED
      BY <1>0, <1>5
  <2> QED
    BY <2>1
<1>7. \A fields \in SUBSET Fields : h[fields] = Rule(h, fields)
  <2> HIDE DEF Rule
  <2> QED
    BY <1>0, <1>6
<1>8. Is(h)
  <2>1. h = [fields \in SUBSET Fields |-> h[fields]]
    OBVIOUS
  <2>2. h = [fields \in SUBSET Fields |-> Rule(h, fields)]
    <3> HIDE DEF Rule
    <3> QED
      BY <1>7, <2>1
  <2> QED
    BY <2>2 DEF FirstField
<1>9. Is(lines)
  <2> HIDE DEF Is
  <2> QED
    BY <1>8, Zenon
<1>10. \A fields \in SUBSET Fields : lines[fields] = Rule(lines, fields)
  <2> HIDE DEF lines
  <2> QED
    BY <1>9 DEF FirstField
<1> HIDE DEF lines, Is, S
<1> DEFINE T == {n \in 0..Size : \A fields \in SUBSET Fields : Cardinality(fields) <= n => lines[fields] \in Nat}
<1>11. 0 \in T
  <2>1. ASSUME NEW fields \in SUBSET Fields, Cardinality(fields) <= 0 PROVE lines[fields] \in Nat
    <3>1. fields = {}
      BY <2>1, FieldsCount
    <3>2. lines[fields] = 0
      BY <1>10, <3>1
    <3> QED
      BY <3>2
  <2> QED
    BY <1>0, <2>1
<1>12. \A n \in 1..Size : n - 1 \in T => n \in T
  <2> SUFFICES ASSUME NEW n \in 1..Size, n - 1 \in T PROVE n \in T
    OBVIOUS
  <2>0. \A fields \in SUBSET Fields : Cardinality(fields) <= n - 1 => lines[fields] \in Nat
    OBVIOUS
  <2>1. ASSUME NEW fields \in SUBSET Fields, Cardinality(fields) <= n PROVE lines[fields] \in Nat
    <3>1. CASE fields = {}
      BY <1>10, <3>1
    <3>2. CASE fields # {}
      <4> DEFINE rest == fields \ {FirstField(fields)}
      <4>1. rest \in SUBSET Fields /\ Cardinality(rest) <= n - 1
        BY <1>0, <2>1, <3>2, FieldsRunOut
      <4>2. lines[rest] \in Nat
        BY <2>0, <4>1
      <4>3. Line(s.count[FirstField(fields)]) \in Nat
        BY <1>1, <3>2
      <4>4. lines[fields] = Line(s.count[FirstField(fields)]) + lines[rest]
        BY <1>10, <3>2
      <4> HIDE DEF rest
      <4> QED
        BY <4>2, <4>3, <4>4
    <3> QED
      BY <3>1, <3>2
  <2> QED
    BY <1>0, <2>1
<1>13. 0..Size \subseteq T
  <2> HIDE DEF T, Size
  <2> QED
    BY <1>0, <1>11, <1>12, RangeInduction, Zenon
<1>14. lines[Fields] \in Nat
  <2>1. Size \in T
    <3> HIDE DEF T, Size
    <3> QED
      BY <1>0, <1>13
  <2> QED
    BY <1>0, <2>1
<1>15. Line(s.worst) \in Nat \ {0}
  BY LinesAreNumbers
<1> QED
  BY <1>2, <1>14, <1>15

\* Numbers have sums up to each of them.
LEMMA SumExists ==
  ASSUME NEW N \in Nat, NEW L \in [1..N -> Nat]
  PROVE  \E g \in [0..N -> Nat] : AddsUp(g, N, L)
<1> DEFINE S == {n \in 0..N : \E g \in [0..n -> Nat] : AddsUp(g, n, L)}
<1>1. 0 \in S
  <2>1. [n \in 0..0 |-> 0] \in [0..0 -> Nat] /\ AddsUp([n \in 0..0 |-> 0], 0, L)
    BY DEF AddsUp
  <2> QED
    BY <2>1
<1>2. \A n \in 1..N : n - 1 \in S => n \in S
  <2> SUFFICES ASSUME NEW n \in 1..N, n - 1 \in S PROVE n \in S
    OBVIOUS
  <2>1. PICK g \in [0..(n - 1) -> Nat] : AddsUp(g, n - 1, L)
    OBVIOUS
  <2> DEFINE h == [k \in 0..n |-> IF k < n THEN g[k] ELSE g[n - 1] + L[n]]
  <2>2. h \in [0..n -> Nat]
    <3>1. ASSUME NEW k \in 0..n PROVE h[k] \in Nat
      OBVIOUS
    <3> QED
      BY <3>1
  <2>3. AddsUp(h, n, L)
    <3>1. h[0] = 0
      BY <2>1 DEF AddsUp
    <3>2. ASSUME NEW k \in 1..n PROVE h[k] = h[k - 1] + L[k]
      <4>1. CASE k < n
        BY <2>1, <4>1 DEF AddsUp
      <4>2. CASE k = n
        BY <4>2
      <4> QED
        BY <4>1, <4>2
    <3> HIDE DEF h
    <3> QED
      BY <3>1, <3>2 DEF AddsUp
  <2>4. n \in 0..N
    OBVIOUS
  <2> HIDE DEF h
  <2> QED
    BY <2>2, <2>3, <2>4, Zenon
<1>3. 0..N \subseteq S
  <2> HIDE DEF S
  <2> QED
    BY <1>1, <1>2, RangeInduction, Zenon
<1>4. N \in S
  <2> HIDE DEF S
  <2> QED
    BY <1>3
<1> QED
  BY <1>4

\* The bytes that wait in a queue of records.
Waiting(q) == LET sum[n \in 0..Len(q)] == IF n = 0 THEN 0 ELSE sum[n - 1] + q[n].left IN sum[Len(q)]
Lefts(q) == [n \in 1..Len(q) |-> q[n].left]

\* The bytes that wait are the last of the sums.
LEMMA WaitingIs ==
  ASSUME NEW q, Len(q) \in Nat, NEW g \in [0..Len(q) -> Nat], AddsUp(g, Len(q), Lefts(q))
  PROVE  Waiting(q) = g[Len(q)]
<1> DEFINE N == Len(q)
           L == Lefts(q)
           Is(f) == f = [n \in 0..Len(q) |-> IF n = 0 THEN 0 ELSE f[n - 1] + q[n].left]
           sum == CHOOSE f : Is(f)
<1>1. Waiting(q) = sum[N]
  BY DEF Waiting
<1>2. \A n \in 1..N : L[n] = q[n].left
  BY DEF Lefts
<1>3. N \in Nat /\ g \in [0..N -> Nat] /\ AddsUp(g, N, L)
  OBVIOUS
<1>4. Is(g)
  <2>1. g = [n \in 0..N |-> IF n = 0 THEN 0 ELSE g[n - 1] + L[n]]
    <3> HIDE DEF N, L
    <3> QED
      BY <1>3, SumIsChosen
  <2> HIDE DEF L
  <2>2. \A n \in 0..N : n # 0 => n \in 1..N
    OBVIOUS
  <2>3. \A n \in 0..N : (IF n = 0 THEN 0 ELSE g[n - 1] + L[n]) = IF n = 0 THEN 0 ELSE g[n - 1] + q[n].left
    BY <1>2, <2>2
  <2> QED
    BY <2>1, <2>3
<1>5. Is(sum)
  <2> HIDE DEF Is
  <2> QED
    BY <1>4, Zenon
<1> HIDE DEF sum, L
<1>6. AddsUp(sum, N, L)
  BY <1>2, <1>5 DEF AddsUp
<1> HIDE DEF N
<1>7. sum[N] = g[N]
  BY <1>3, <1>6, SumIsOne
<1> QED
  BY <1>1, <1>7 DEF N

\* A queue of records with some bytes left each.
Backlog(q) == (\E S : q \in Seq(S)) /\ \A n \in 1..Len(q) : q[n].left \in Nat

\* Its sums.
LEMMA WaitingAddsUp ==
  ASSUME NEW q, Backlog(q)
  PROVE  /\ Len(q) \in Nat /\ Lefts(q) \in [1..Len(q) -> Nat]
         /\ \E g \in [0..Len(q) -> Nat] : AddsUp(g, Len(q), Lefts(q)) /\ Waiting(q) = g[Len(q)]
<1>1. Len(q) \in Nat
  BY DEF Backlog
<1>2. Lefts(q) \in [1..Len(q) -> Nat]
  BY DEF Backlog, Lefts
<1>3. PICK g \in [0..Len(q) -> Nat] : AddsUp(g, Len(q), Lefts(q))
  BY <1>1, <1>2, SumExists
<1>4. Waiting(q) = g[Len(q)]
  BY <1>1, <1>3, WaitingIs
<1> QED
  BY <1>1, <1>2, <1>3, <1>4

\* What an empty queue holds.
LEMMA NothingWaits == Waiting(<<>>) = 0
<1> DEFINE g == [n \in 0..0 |-> 0]
<1>1. Len(<<>>) = 0 /\ g \in [0..0 -> Nat] /\ AddsUp(g, 0, Lefts(<<>>))
  BY DEF AddsUp
<1>2. Waiting(<<>>) = g[0]
  <2> HIDE DEF g
  <2>1. Len(<<>>) \in Nat /\ g \in [0..Len(<<>>) -> Nat] /\ AddsUp(g, Len(<<>>), Lefts(<<>>))
    BY <1>1
  <2> QED
    BY <1>1, <2>1, WaitingIs
<1> QED
  BY <1>2

\* A record more adds what it has left.
LEMMA WaitingGrows ==
  ASSUME NEW q, Backlog(q), NEW r, r.left \in Nat
  PROVE  Backlog(Append(q, r)) /\ Waiting(Append(q, r)) = Waiting(q) + r.left
<1> DEFINE N == Len(q)
           p == Append(q, r)
<1>1. PICK g \in [0..N -> Nat] : AddsUp(g, N, Lefts(q)) /\ Waiting(q) = g[N]
  BY WaitingAddsUp
<1>2. PICK S : q \in Seq(S)
  BY DEF Backlog
<1>3. /\ N \in Nat /\ p \in Seq(S \cup {r}) /\ Len(p) = N + 1
      /\ \A n \in 1..N : p[n] = q[n]
      /\ p[N + 1] = r
  <2>1. q \in Seq(S \cup {r})
    BY <1>2
  <2> QED
    BY <2>1
<1> HIDE DEF p
<1>4. Backlog(p)
  BY <1>3 DEF Backlog
<1> DEFINE h == [n \in 0..(N + 1) |-> IF n <= N THEN g[n] ELSE g[N] + r.left]
<1>5. h \in [0..(N + 1) -> Nat]
  <2>1. ASSUME NEW n \in 0..(N + 1) PROVE h[n] \in Nat
    BY <1>1, <1>3
  <2> QED
    BY <2>1
<1>6. AddsUp(h, N + 1, Lefts(p))
  <2>1. h[0] = 0
    BY <1>1, <1>3 DEF AddsUp
  <2>2. ASSUME NEW n \in 1..(N + 1) PROVE h[n] = h[n - 1] + Lefts(p)[n]
    <3>1. CASE n <= N
      <4>1. Lefts(p)[n] = Lefts(q)[n]
        BY <1>3, <3>1 DEF Lefts
      <4>2. g[n] = g[n - 1] + Lefts(q)[n]
        BY <1>1, <1>3, <3>1 DEF AddsUp
      <4>3. h[n] = g[n] /\ h[n - 1] = g[n - 1]
        BY <1>3, <3>1
      <4> QED
        BY <4>1, <4>2, <4>3
    <3>2. CASE n = N + 1
      <4>1. Lefts(p)[n] = r.left
        BY <1>3, <3>2 DEF Lefts
      <4>2. h[n] = g[N] + r.left /\ h[n - 1] = g[N]
        BY <1>3, <3>2
      <4> QED
        BY <4>1, <4>2
    <3> QED
      BY <1>3, <3>1, <3>2
  <2> HIDE DEF h
  <2> QED
    BY <2>1, <2>2 DEF AddsUp
<1>7. h[N + 1] = g[N] + r.left
  BY <1>3
<1>8. Waiting(p) = h[N + 1]
  <2> HIDE DEF h
  <2>1. Len(p) \in Nat /\ h \in [0..Len(p) -> Nat] /\ AddsUp(h, Len(p), Lefts(p))
    BY <1>3, <1>5, <1>6
  <2> QED
    BY <1>3, <2>1, WaitingIs
<1> QED
  BY <1>1, <1>4, <1>7, <1>8 DEF p

\* The sums grow.
LEMMA FirstCounts ==
  ASSUME NEW N \in Nat \ {0}, NEW L \in [1..N -> Nat], NEW g \in [0..N -> Nat], AddsUp(g, N, L)
  PROVE  g[1] = L[1] /\ \A n \in 1..N : g[n] >= g[1]
<1> DEFINE S == {n \in 0..N : n = 0 \/ g[n] >= g[1]}
<1>1. 0 \in S
  OBVIOUS
<1>2. \A n \in 1..N : n - 1 \in S => n \in S
  <2> SUFFICES ASSUME NEW n \in 1..N, n - 1 \in S PROVE n \in S
    OBVIOUS
  <2>3. n - 1 \in 0..N /\ n \in 0..N /\ 1 \in 0..N
    OBVIOUS
  <2>4. g[n - 1] \in Nat /\ L[n] \in Nat /\ g[1] \in Nat
    BY <2>3
  <2>5. g[n] = g[n - 1] + L[n]
    BY DEF AddsUp
  <2>1. g[n] = g[n - 1] + L[n] /\ g[n - 1] \in Nat /\ L[n] \in Nat /\ g[1] \in Nat /\ g[n] \in Nat
    BY <2>3, <2>4, <2>5
  <2>2. n = 1 \/ g[n - 1] >= g[1]
    OBVIOUS
  <2> QED
    BY <2>1, <2>2
<1>3. 0..N \subseteq S
  <2> HIDE DEF S
  <2> QED
    BY <1>1, <1>2, RangeInduction, Zenon
<1>4. g[1] = L[1]
  <2>1. 1 \in 1..N /\ 1 - 1 = 0
    OBVIOUS
  <2>2. g[1] = g[0] + L[1] /\ g[0] = 0 /\ L[1] \in Nat
    BY <2>1 DEF AddsUp
  <2> QED
    BY <2>2
<1> QED
  BY <1>3, <1>4

\* Reading takes away: a whole record, or some bytes of the first.
LEMMA WaitingShrinks ==
  ASSUME NEW q, Backlog(q), q # <<>>
  PROVE  Backlog(Tail(q)) /\ Waiting(Tail(q)) = Waiting(q) - Head(q).left
         /\ Head(q).left \in Nat /\ Waiting(q) \in Nat /\ Waiting(Tail(q)) \in Nat
<1> DEFINE N == Len(q)
           p == Tail(q)
<1>1. PICK g \in [0..N -> Nat] : AddsUp(g, N, Lefts(q)) /\ Waiting(q) = g[N]
  BY WaitingAddsUp
<1>2. PICK S : q \in Seq(S)
  BY DEF Backlog
<1>3. /\ N \in Nat \ {0} /\ p \in Seq(S) /\ Len(p) = N - 1
      /\ \A n \in 1..(N - 1) : p[n] = q[n + 1]
      /\ Head(q) = q[1]
  BY <1>2
<1> HIDE DEF p
<1>4. Backlog(p)
  <2>1. ASSUME NEW n \in 1..Len(p) PROVE p[n].left \in Nat
    <3>1. p[n] = q[n + 1] /\ n + 1 \in 1..N
      BY <1>3
    <3> QED
      BY <3>1 DEF Backlog
  <2> QED
    BY <1>3, <2>1 DEF Backlog
<1>5. Lefts(q) \in [1..N -> Nat]
  BY WaitingAddsUp
<1>6. g[1] = Lefts(q)[1] /\ \A n \in 1..N : g[n] >= g[1]
  BY <1>1, <1>3, <1>5, FirstCounts
<1>7. Lefts(q)[1] = Head(q).left
  BY <1>3 DEF Lefts
<1> DEFINE h == [n \in 0..(N - 1) |-> g[n + 1] - g[1]]
<1>8. h \in [0..(N - 1) -> Nat]
  <2>1. ASSUME NEW n \in 0..(N - 1) PROVE g[n + 1] - g[1] \in Nat
    <3>1. n + 1 \in 1..N /\ 1 \in 1..N
      BY <1>3
    <3>2. g[n + 1] \in Nat /\ g[1] \in Nat /\ g[n + 1] >= g[1]
      BY <1>1, <1>6, <3>1
    <3> QED
      BY <3>2
  <2> QED
    BY <2>1
<1>9. AddsUp(h, N - 1, Lefts(p))
  <2>1. h[0] = 0
    <3>1. 0 \in 0..(N - 1) /\ 0 + 1 = 1 /\ g[1] \in Nat
      BY <1>3
    <3> QED
      BY <3>1
  <2>2. ASSUME NEW n \in 1..(N - 1) PROVE h[n] = h[n - 1] + Lefts(p)[n]
    <3>1. Lefts(p)[n] = Lefts(q)[n + 1]
      BY <1>3 DEF Lefts
    <3>2. n + 1 \in 1..N /\ n + 1 - 1 = n /\ n \in 0..(N - 1) /\ n - 1 \in 0..(N - 1) /\ n - 1 + 1 = n
      BY <1>3
    <3>3. g[n + 1] = g[n + 1 - 1] + Lefts(q)[n + 1]
      BY <1>1, <3>2 DEF AddsUp
    <3>4. h[n] = g[n + 1] - g[1] /\ h[n - 1] = g[n] - g[1]
      BY <3>2
    <3>5. g[n] \in Nat /\ g[1] \in Nat /\ Lefts(q)[n + 1] \in Nat
      BY <1>3, <1>5, <3>2
    <3>6. g[n + 1] = g[n] + Lefts(q)[n + 1]
      BY <3>2, <3>3
    <3> HIDE DEF h
    <3> QED
      BY <3>1, <3>4, <3>5, <3>6
  <2> HIDE DEF h
  <2> QED
    BY <2>1, <2>2 DEF AddsUp
<1>10. h[N - 1] = g[N] - g[1]
  <2>1. N - 1 \in 0..(N - 1) /\ N - 1 + 1 = N
    BY <1>3
  <2> QED
    BY <2>1
<1>11. Waiting(p) = h[N - 1]
  <2> HIDE DEF h
  <2>1. Len(p) \in Nat /\ h \in [0..Len(p) -> Nat] /\ AddsUp(h, Len(p), Lefts(p))
    BY <1>3, <1>8, <1>9
  <2> QED
    BY <1>3, <2>1, WaitingIs
<1>12. g[N] \in Nat /\ g[1] \in Nat /\ h[N - 1] \in Nat
  <2>1. N \in 0..N /\ 1 \in 0..N /\ N - 1 \in 0..(N - 1)
    BY <1>3
  <2> HIDE DEF h
  <2> QED
    BY <1>8, <2>1
<1> QED
  BY <1>1, <1>4, <1>6, <1>7, <1>10, <1>11, <1>12 DEF p

\* A record in front adds what it has left.
LEMMA WaitingLeads ==
  ASSUME NEW q, Backlog(q), NEW r, r.left \in Nat
  PROVE  Backlog(<< r >> \o q) /\ Waiting(<< r >> \o q) = r.left + Waiting(q)
<1> DEFINE p == << r >> \o q
<1>1. PICK S : q \in Seq(S)
  BY DEF Backlog
<1>2. /\ p \in Seq(S \cup {r}) /\ Len(p) = Len(q) + 1 /\ Len(q) \in Nat /\ p # <<>>
      /\ p[1] = r /\ \A n \in 1..Len(q) : p[n + 1] = q[n]
      /\ Head(p) = r
  <2>1. q \in Seq(S \cup {r})
    BY <1>1
  <2> QED
    BY <2>1
<1>3. Tail(p) = q
  <2>1. q \in Seq(S \cup {r})
    BY <1>1
  <2> QED
    BY <2>1
<1> HIDE DEF p
<1>4. Backlog(p)
  <2>1. ASSUME NEW n \in 1..Len(p) PROVE p[n].left \in Nat
    <3>1. CASE n = 1
      BY <1>2, <3>1
    <3>2. CASE n # 1
      <4>1. n - 1 \in 1..Len(q) /\ n - 1 + 1 = n
        BY <1>2, <3>2
      <4>2. p[n] = q[n - 1]
        BY <1>2, <4>1
      <4> QED
        BY <4>1, <4>2 DEF Backlog
    <3> QED
      BY <3>1, <3>2
  <2> QED
    BY <1>2, <2>1 DEF Backlog
<1>5. Waiting(q) = Waiting(p) - r.left /\ Waiting(p) \in Nat
  BY <1>2, <1>3, <1>4, WaitingShrinks
<1> QED
  BY <1>4, <1>5 DEF p

\* The queue of the CDC port holds records with some bytes left each, and as many
\* bytes as the FIFO has room for.
WireFits == Backlog(fifo) /\ Waiting(fifo) \in 0..TxBytes

\* The counters wrap, and no block is longer than a counter that wraps can measure.
CountersInRange ==
  /\ \A f \in Fields : counters.count[f] \in 0..(Wrap - 1)
  /\ longest \in 0..kMaxPossibleBlockMicros
  /\ open \in BOOLEAN /\ opens \in 0..MaxOpens

\* The room in the FIFO is not inductive: it needs the records to be records, and
\* their sizes need the counters to be in range.
DiagnosticsInv == TelemetryInv /\ CountersInRange /\ WireFits

\* The maximum is a number, being the longest block, the sentinel or nothing.
LEMMA WorstInRange ==
  ASSUME TimerIsHonest, CountersInRange PROVE counters.worst \in 0..(Wrap - 1)
<1>1. kBlockTimerDeadSentinel \in Nat /\ kBlockTimerDeadSentinel > kMaxPossibleBlockMicros
  BY SentinelIsApart
<1>2. Wrap \in Nat \ {0} /\ CyclesPerUs \in Nat \ {0} /\ kBlockTimerDeadSentinel = Wrap - 1
  BY DiagnosticsAssumption DEF DiagnosticsConstants, kBlockTimerDeadSentinel
<1>3. kMaxPossibleBlockMicros \in Nat
  <2>1. \A a \in Nat, b \in Nat \ {0} : a \div b \in Nat
    BY Z3
  <2> QED
    BY <1>2, <2>1 DEF kMaxPossibleBlockMicros, CyclesToMicros
<1>4. longest \in 0..kMaxPossibleBlockMicros
  BY DEF CountersInRange
<1>5. counters.worst \in {0, longest, kBlockTimerDeadSentinel}
  BY DEF TimerIsHonest
<1> HIDE DEF kBlockTimerDeadSentinel, kMaxPossibleBlockMicros
<1> QED
  BY <1>1, <1>2, <1>3, <1>4, <1>5

\* They are what the model calls queued.
LEMMA QueuedWaits == Queued = Waiting(fifo)
BY DEF Queued, Waiting

\* Out of reset nothing is counted and nothing waits.
LEMMA DiagnosticsStarts == DiagnosticsInit => DiagnosticsInv
<1> SUFFICES ASSUME DiagnosticsInit PROVE DiagnosticsInv
  OBVIOUS
<1>1. Wrap \in Nat \ {0} /\ CyclesPerUs \in Nat \ {0} /\ TxBytes \in Nat /\ MaxOpens \in Nat
  BY DiagnosticsAssumption DEF DiagnosticsConstants
<1>2. TelemetryInv
  <2>1. <<>> \in Seq({})
    OBVIOUS
  <2> QED
    BY <1>1, <2>1 DEF DiagnosticsInit, TelemetryInv, TimerIsHonest, WireIsHonest
<1>3. CountersInRange
  <2>1. kMaxPossibleBlockMicros \in Nat
    <3>1. \A a \in Nat, b \in Nat \ {0} : a \div b \in Nat
      BY Z3
    <3> QED
      BY <1>1, <3>1 DEF kMaxPossibleBlockMicros, CyclesToMicros
  <2>2. \A f \in Fields : counters.count[f] = 0
    BY DEF DiagnosticsInit
  <2>3. longest = 0 /\ opens = 0
    BY DEF DiagnosticsInit
  <2> HIDE DEF kMaxPossibleBlockMicros
  <2>4. \A f \in Fields : counters.count[f] \in 0..(Wrap - 1)
    BY <1>1, <2>2
  <2>5. longest \in 0..kMaxPossibleBlockMicros
    BY <2>1, <2>3
  <2>6. open \in BOOLEAN
    BY Zenon DEF DiagnosticsInit
  <2>7. opens \in 0..MaxOpens
    BY <1>1, <2>3
  <2> QED
    BY <2>4, <2>5, <2>6, <2>7 DEF CountersInRange
<1>4. WireFits
  <2>1. fifo = <<>> /\ <<>> \in Seq({}) /\ Len(<<>>) = 0
    BY DEF DiagnosticsInit
  <2> QED
    BY <1>1, <2>1, NothingWaits DEF WireFits, Backlog
<1> QED
  BY <1>2, <1>3, <1>4 DEF DiagnosticsInv

\* Enabling the timer counts nothing.
LEMMA EnableInRange == ASSUME DiagnosticsInv, EnableBlockTimer PROVE CountersInRange'
<1>1. counters'.count = counters.count
  BY DEF EnableBlockTimer, InitializeBlockTimer, DiagnosticsInv, TelemetryInv, TimerIsHonest
<1> QED
  BY <1>1 DEF EnableBlockTimer, DiagnosticsInv, CountersInRange, kMaxPossibleBlockMicros, CyclesToMicros

\* A block counts once at most, and takes what the counter can measure.
LEMMA RunBlockInRange ==
  ASSUME DiagnosticsInv, NEW cost \in Costs, NEW counted \in SUBSET Fields, TimeBlock(cost, counted)
  PROVE  CountersInRange'
<1>1. Wrap \in Nat \ {0} /\ CyclesPerUs \in Nat \ {0} /\ cost \in 0..(Wrap - 1)
  BY DiagnosticsAssumption DEF DiagnosticsConstants
<1>2. ASSUME NEW f \in Fields PROVE counters'.count[f] \in 0..(Wrap - 1)
  <2>1. counters'.count = [g \in Fields |-> (counters.count[g] + (IF g \in counted THEN 1 ELSE 0)) % Wrap]
    BY DEF TimeBlock, DiagnosticsInv, TelemetryInv, TimerIsHonest
  <2>2. counters'.count[f] = (counters.count[f] + (IF f \in counted THEN 1 ELSE 0)) % Wrap
    BY <2>1
  <2>3. counters.count[f] + (IF f \in counted THEN 1 ELSE 0) \in Nat
    BY <1>1 DEF DiagnosticsInv, CountersInRange
  <2>4. \A m \in Nat \ {0}, a \in Nat : a % m \in 0..(m - 1)
    BY Z3
  <2> QED
    BY <1>1, <2>2, <2>3, <2>4
<1>3. longest' \in 0..kMaxPossibleBlockMicros
  <2>1. \A a, b \in Nat, c \in Nat \ {0} : a <= b => a \div c \in Nat /\ b \div c \in Nat /\ a \div c <= b \div c
    BY Z3
  <2>2. CyclesToMicros(cost) \in Nat /\ kMaxPossibleBlockMicros \in Nat
        /\ CyclesToMicros(cost) <= kMaxPossibleBlockMicros
    BY <1>1, <2>1 DEF kMaxPossibleBlockMicros, CyclesToMicros
  <2>3. longest' \in {CyclesToMicros(cost), longest}
    BY DEF TimeBlock
  <2>4. longest \in 0..kMaxPossibleBlockMicros
    BY DEF DiagnosticsInv, CountersInRange
  <2> HIDE DEF kMaxPossibleBlockMicros
  <2> QED
    BY <2>2, <2>3, <2>4
<1> QED
  BY <1>2, <1>3 DEF TimeBlock, DiagnosticsInv, CountersInRange, kMaxPossibleBlockMicros, CyclesToMicros

\* A record goes where there is room for all of it.
LEMMA ReportFits == ASSUME DiagnosticsInv, ServiceDiagnostics PROVE WireFits'
<1> DEFINE size == RecordBytes(counters)
           record == [bytes |-> size, put |-> size, left |-> size,
                      longest |-> longest, stats |-> counters]
<1>1. WholeOrNone(size) > 0 /\ WholeOrNone(size) \in {0, size}
  BY DEF ServiceDiagnostics, WholeOrNone
<1>2. size \in Nat
  BY RecordIsSome, WorstInRange DEF DiagnosticsInv, TelemetryInv, CountersInRange
<1> HIDE DEF size
<1>3. WholeOrNone(size) = size /\ size <= TxBytes - Waiting(fifo)
  BY <1>1, QueuedWaits DEF WholeOrNone, tud_cdc_write_available
<1>4. fifo' = Append(fifo, record)
  BY <1>3 DEF ServiceDiagnostics, size
<1>5. record.left = size /\ Backlog(fifo) /\ Waiting(fifo) \in 0..TxBytes /\ TxBytes \in Nat
  BY DiagnosticsAssumption DEF DiagnosticsConstants, DiagnosticsInv, WireFits
<1> HIDE DEF record
<1>6. Backlog(Append(fifo, record)) /\ Waiting(Append(fifo, record)) = Waiting(fifo) + size
  BY <1>2, <1>5, WaitingGrows
<1>7. Waiting(fifo) + size \in 0..TxBytes
  BY <1>2, <1>3, <1>5
<1>8. WireFits' = (Backlog(fifo') /\ Waiting(fifo') \in 0..TxBytes)
  BY DEF WireFits, Waiting, Backlog
<1> QED
  BY <1>4, <1>6, <1>7, <1>8

\* Reading makes room.
LEMMA ReadFits == ASSUME DiagnosticsInv, HostReads PROVE WireFits'
<1> DEFINE head == Head(fifo)
           rest == [head EXCEPT !.left = @ - EpBytes]
<1>1. fifo # <<>> /\ fifo' = IF head.left <= EpBytes THEN Tail(fifo) ELSE << rest >> \o Tail(fifo)
  BY DEF HostReads
<1>2. Backlog(fifo) /\ Waiting(fifo) \in 0..TxBytes /\ TxBytes \in Nat /\ EpBytes \in Nat
  BY DiagnosticsAssumption DEF DiagnosticsConstants, DiagnosticsInv, WireFits
<1>3. /\ Backlog(Tail(fifo)) /\ Waiting(Tail(fifo)) = Waiting(fifo) - head.left
      /\ head.left \in Nat /\ Waiting(fifo) \in Nat /\ Waiting(Tail(fifo)) \in Nat
  BY <1>1, <1>2, WaitingShrinks
<1>4. rest.left = head.left - EpBytes
  <2>1. fifo[1] = head /\ 1 \in DOMAIN fifo
    BY <1>1, <1>2 DEF Backlog
  <2>2. IsHonest(head)
    BY <2>1 DEF DiagnosticsInv, TelemetryInv, WireIsHonest
  <2> HIDE DEF head
  <2> QED
    BY <2>2 DEF IsHonest
<1> HIDE DEF head, rest
<1>5. Backlog(fifo') /\ Waiting(fifo') \in 0..TxBytes
  <2>1. CASE head.left <= EpBytes
    BY <1>1, <1>2, <1>3, <2>1
  <2>2. CASE ~(head.left <= EpBytes)
    <3>1. rest.left \in Nat /\ rest.left <= head.left
      BY <1>2, <1>3, <1>4, <2>2
    <3>2. Backlog(<< rest >> \o Tail(fifo)) /\ Waiting(<< rest >> \o Tail(fifo)) = rest.left + Waiting(Tail(fifo))
      BY <1>3, <3>1, WaitingLeads
    <3>3. rest.left + Waiting(Tail(fifo)) \in 0..TxBytes
      BY <1>2, <1>3, <3>1
    <3> QED
      BY <1>1, <2>2, <3>2, <3>3
  <2> QED
    BY <2>1, <2>2
<1>6. WireFits' = (Backlog(fifo') /\ Waiting(fifo') \in 0..TxBytes)
  BY DEF WireFits, Waiting, Backlog
<1> QED
  BY <1>5, <1>6

\* The FIFO is left alone by the others.
LEMMA WireStays == ASSUME WireFits, UNCHANGED fifo PROVE WireFits'
BY DEF WireFits, Waiting, Backlog

\* The invariant with the ranges is inductive.
LEMMA DiagnosticsKeep == DiagnosticsInv /\ [DiagnosticsNext]_diagnosticsVars => DiagnosticsInv'
<1> SUFFICES ASSUME DiagnosticsInv, [DiagnosticsNext]_diagnosticsVars PROVE DiagnosticsInv'
  OBVIOUS
<1>1. TelemetryInv'
  BY TelemetryKeeps DEF DiagnosticsInv
<1>2. CASE EnableBlockTimer
  BY <1>1, <1>2, EnableInRange, WireStays DEF EnableBlockTimer, DiagnosticsInv
<1>3. ASSUME NEW cost \in Costs, NEW counted \in SUBSET Fields, TimeBlock(cost, counted)
      PROVE  DiagnosticsInv'
  BY <1>1, <1>3, RunBlockInRange, WireStays DEF TimeBlock, DiagnosticsInv
<1>4. CASE ServiceDiagnostics \/ HostReads
  <2>1. CountersInRange'
    BY <1>4 DEF ServiceDiagnostics, HostReads, DiagnosticsInv, CountersInRange,
       kMaxPossibleBlockMicros, CyclesToMicros
  <2> QED
    BY <1>1, <1>4, <2>1, ReportFits, ReadFits DEF DiagnosticsInv
<1>5. CASE Open \/ Close
  <2>1. counters' = counters /\ longest' = longest /\ fifo' = fifo
    BY <1>5 DEF Open, Close
  <2>2. open' \in BOOLEAN
    BY <1>5, Zenon DEF Open, Close
  <2>3. opens' \in 0..MaxOpens
    <3>1. opens \in 0..MaxOpens /\ MaxOpens \in Nat
      BY DiagnosticsAssumption DEF DiagnosticsConstants, DiagnosticsInv, CountersInRange
    <3>2. opens' = opens \/ (opens < MaxOpens /\ opens' = opens + 1)
      BY <1>5 DEF Open, Close
    <3> QED
      BY <3>1, <3>2
  <2>4. CountersInRange'
    BY <2>1, <2>2, <2>3 DEF DiagnosticsInv, CountersInRange, kMaxPossibleBlockMicros, CyclesToMicros
  <2> QED
    BY <1>1, <2>1, <2>4, WireStays DEF DiagnosticsInv
<1>6. CASE UNCHANGED diagnosticsVars
  <2>1. CountersInRange' /\ fifo' = fifo
    BY <1>6 DEF diagnosticsVars, DiagnosticsInv, CountersInRange, kMaxPossibleBlockMicros, CyclesToMicros
  <2> QED
    BY <1>1, <2>1, WireStays DEF DiagnosticsInv
<1> QED
  BY <1>2, <1>3, <1>4, <1>5, <1>6 DEF DiagnosticsNext

\* The counters wrap within their width, no block is measured longer than the
\* counter can tell, and the FIFO is never written past its end, for every size of
\* it, of a packet and of a record (transport-stats.h, block-timer.h:18-83,
\* diagnostic-service.h:25-39).
LEMMA DiagnosticsTypes == DiagnosticsSpec => []DiagnosticsTypeOK
<1>1. DiagnosticsInv => DiagnosticsTypeOK
  <2> SUFFICES ASSUME DiagnosticsInv PROVE DiagnosticsTypeOK
    OBVIOUS
  <2>1. counters.worst \in 0..(Wrap - 1)
    BY WorstInRange DEF DiagnosticsInv, TelemetryInv
  <2>2. Queued \in 0..TxBytes
    BY QueuedWaits DEF DiagnosticsInv, WireFits
  <2>3. ticking \in BOOLEAN /\ clock \in 0..(Wrap - 1)
    BY DEF DiagnosticsInv, TelemetryInv, TimerIsHonest
  <2> QED
    BY <2>1, <2>2, <2>3 DEF DiagnosticsInv, CountersInRange, DiagnosticsTypeOK
<1> QED
  BY <1>1, DiagnosticsStarts, DiagnosticsKeep, PTL DEF DiagnosticsSpec

-----------------------------------------------------------------------------
(* The parts of the board in one run                                       *)

\* A behaviour that picks a part is a behaviour of each part: the others stand still.
LEMMA EveryPartIsItself ==
  BoardSpec => EnumerationSpec /\ BootSpec /\ DiagnosticsSpec /\ PacedSpec
<1>1. BoardInit => EnumerationInit /\ BootInit /\ DiagnosticsInit /\ PacedInit
  BY DEF BoardInit
<1>2. [BoardNext]_boardVars =>
        /\ [EnumerationNext]_enumerationVars
        /\ [BootNext]_bootVars
        /\ [DiagnosticsNext]_diagnosticsVars
        /\ [PacedNext]_pacedVars
  BY DEF BoardNext, boardVars, Enumerating, Booting, Reporting, Pacing
<1> QED
  BY <1>1, <1>2, PTL DEF BoardSpec, EnumerationSpec, BootSpec, DiagnosticsSpec, PacedSpec

\* No part of the board leaves its types: the enumeration keeps to its course, the
\* boot to its program and its bounded polls, the telemetry within the width of its
\* counters and the room of its FIFO (usb-descriptors.cpp, clock-init.h:114-129,
\* diagnostic-service.h:25-39).
THEOREM BoardTypesHold == BoardSpec => []BoardTypeOK
<1>1. EnumerationSpec => []EnumerationTypeOK
  BY EnumerationStays, EnumerationTypes, PTL
<1> QED
  BY <1>1, BootTypes, DiagnosticsTypes, EveryPartIsItself, PTL DEF BoardTypeOK

=============================================================================
