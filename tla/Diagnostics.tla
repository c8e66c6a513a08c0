----------------------------- MODULE Diagnostics -----------------------------
(***************************************************************************)
(* The block timer and the telemetry: the cycle counter and the worst      *)
(* block it has seen, the record of the transport statistics, and its way  *)
(* through the CDC FIFO to a host that opens the port, reads and closes.   *)
(* Scaled: cycles and counters wrap at Wrap, a microsecond is CyclesPerUs  *)
(* cycles, and a number takes one byte for each digit in base Base.  Fields *)
(* stands for the seven event counters.                                    *)
(***************************************************************************)
EXTENDS Naturals, Sequences, FiniteSets

CONSTANTS
  Wrap, CyclesPerUs, Base,
  Fields,        \* the counters of the record
  TxBytes,       \* CFG_TUD_CDC_TX_BUFSIZE
  EpBytes,       \* CFG_TUD_CDC_EP_BUFSIZE: what one packet takes out
  Costs,         \* cycles a block may take
  MaxOpens       \* times the host opens the port

DiagnosticsConstants ==
  /\ Wrap \in Nat \ {0} /\ CyclesPerUs \in 2..Wrap /\ Base \in Nat \ {0, 1}
  /\ IsFiniteSet(Fields)
  /\ TxBytes \in Nat \ {0} /\ EpBytes \in 1..TxBytes
  /\ Costs \subseteq 0..(Wrap - 1) /\ MaxOpens \in Nat
ASSUME DiagnosticsAssumption == DiagnosticsConstants

VARIABLES
  ticking,   \* whether the cycle counter of this part counts
  clock,     \* CYCCNT
  counters,  \* g_transportStats
  longest,   \* the longest block there has been, in microseconds
  fifo,      \* the CDC transmit FIFO: records, the bytes accepted and left of each
  open,      \* tud_cdc_connected()
  opens
diagnosticsVars == <<ticking, clock, counters, longest, fifo, open, opens>>

---------------------------------------------------------------------------
(* block-timer.h                                                           *)

kBlockTimerDeadSentinel == Wrap - 1
CyclesToMicros(span) == span \div CyclesPerUs
kMaxPossibleBlockMicros == CyclesToMicros(Wrap - 1)

DiagnosticsInit ==
  /\ ticking \in BOOLEAN /\ clock = 0
  /\ counters = [count |-> [f \in Fields |-> 0], worst |-> 0, live |-> FALSE, started |-> FALSE]
  /\ longest = 0
  /\ fifo = <<>> /\ open = FALSE /\ opens = 0

\* EnableBlockTimer: a counter that stands still over the spin is dead, and its
\* maximum is pinned where no measurement reaches.
\* MUTANT of InitializeBlockTimer: the verdict without the sentinel.
TimerLeftAtZero(advance) ==
  [counters EXCEPT !.live = advance # 0, !.started = TRUE]
InitializeBlockTimer(advance) ==
  [counters EXCEPT !.live = advance # 0, !.started = TRUE,
                !.worst = IF advance = 0 THEN kBlockTimerDeadSentinel ELSE @]

EnableBlockTimer ==
  /\ ~counters.started
  /\ \E advance \in 1..2 :
       LET spin == IF ticking THEN advance ELSE 0
       IN  /\ clock' = (clock + spin) % Wrap
           /\ counters' = InitializeBlockTimer(spin)
  /\ UNCHANGED <<ticking, longest, fifo, open, opens>>

\* RecordBlockTiming
\* MUTANT of SpanOf: a counter that went round counts as no time.
ClampedSpan(start, end) == IF end < start THEN 0 ELSE end - start
SpanOf(start, end) == (end + Wrap - start) % Wrap
RecordBlockTiming(start, end) ==
  LET micros == CyclesToMicros(SpanOf(start, end))
  IN  IF micros > counters.worst THEN micros ELSE counters.worst

\* One block of the DSP path, with the statistics it counts.
TimeBlock(cost, counted) ==
  /\ counters.started
  /\ LET end == IF ticking THEN (clock + cost) % Wrap ELSE clock
     IN  /\ clock' = end
         /\ counters' = [counters EXCEPT !.worst = RecordBlockTiming(clock, end),
                                   !.count = [f \in Fields |-> (@[f] + (IF f \in counted THEN 1 ELSE 0)) % Wrap]]
  /\ longest' = IF CyclesToMicros(cost) > longest THEN CyclesToMicros(cost) ELSE longest
  /\ UNCHANGED <<ticking, fifo, open, opens>>

---------------------------------------------------------------------------
(* SerializeDiagnostics and ServiceDiagnostics                             *)

Digits(value) ==
  LET of[v \in 0..Wrap] == IF v < Base THEN 1 ELSE 1 + of[v \div Base] IN of[value]

\* A line is a key of two, "=", the digits and the end of the line.
Line(value) == 4 + Digits(value)
RecordBytes(s) ==
  LET lines[fields \in SUBSET Fields] ==
        IF fields = {} THEN 0
        ELSE LET f == CHOOSE g \in fields : TRUE IN Line(s.count[f]) + lines[fields \ {f}]
  IN  lines[Fields] + Line(s.worst) + (IF s.live THEN 8 ELSE 9)

Queued ==
  LET sum[n \in 0..Len(fifo)] == IF n = 0 THEN 0 ELSE sum[n - 1] + fifo[n].left
  IN  sum[Len(fifo)]
tud_cdc_write_available == TxBytes - Queued

\* The port is open and the whole record fits, or the record is dropped.
\* MUTANT of WholeOrNone: as much of the record as there is room for.
WhateverFits(bytes) == IF bytes <= tud_cdc_write_available THEN bytes ELSE tud_cdc_write_available
WholeOrNone(bytes) == IF bytes <= tud_cdc_write_available THEN bytes ELSE 0

ServiceDiagnostics ==
  /\ counters.started /\ open
  /\ LET bytes == RecordBytes(counters)
         put == WholeOrNone(bytes)
     IN  /\ put > 0
         /\ fifo' = Append(fifo, [bytes |-> bytes, put |-> put, left |-> put, longest |-> longest, stats |-> counters])
  /\ UNCHANGED <<ticking, clock, counters, longest, open, opens>>

\* The host, external: opens and closes the port, and takes a packet at a time
\* out of the FIFO, which keeps what is not read yet.
Open ==
  /\ ~open /\ opens < MaxOpens
  /\ open' = TRUE /\ opens' = opens + 1
  /\ UNCHANGED <<ticking, clock, counters, longest, fifo>>
Close ==
  /\ open
  /\ open' = FALSE
  /\ UNCHANGED <<ticking, clock, counters, longest, fifo, opens>>

HostReads ==
  /\ open /\ fifo # <<>>
  /\ LET head == Head(fifo)
         done == head.left <= EpBytes
     IN  fifo' = IF done THEN Tail(fifo) ELSE << [head EXCEPT !.left = @ - EpBytes] >> \o Tail(fifo)
  /\ UNCHANGED <<ticking, clock, counters, longest, open, opens>>

DiagnosticsNext ==
  \/ EnableBlockTimer
  \/ \E cost \in Costs, counted \in SUBSET Fields : TimeBlock(cost, counted)
  \/ ServiceDiagnostics
  \/ Open \/ Close \/ HostReads

DiagnosticsSpec == DiagnosticsInit /\ [][DiagnosticsNext]_diagnosticsVars

---------------------------------------------------------------------------
DiagnosticsTypeOK ==
  /\ ticking \in BOOLEAN /\ clock \in 0..(Wrap - 1) /\ open \in BOOLEAN /\ opens \in 0..MaxOpens
  /\ \A f \in Fields : counters.count[f] \in 0..(Wrap - 1)
  /\ counters.worst \in 0..(Wrap - 1) /\ longest \in 0..kMaxPossibleBlockMicros
  /\ Queued \in 0..TxBytes

\* A record on the wire is whole, and it never passes for a measurement what is
\* none: with a live timer it carries the longest block there had been, also
\* over a wrap of the counter, with a dead one the value no block can reach
\* (block-timer.h:18-83, diagnostic-serializer.h:130-185, diagnostic-service.h:25-39).
TelemetryIsHonest ==
  \A n \in DOMAIN fifo :
    /\ fifo[n].put = fifo[n].bytes
    /\ LET told == fifo[n].stats
       IN  IF ticking
           THEN told.live /\ told.worst = fifo[n].longest
           ELSE ~told.live /\ told.worst > kMaxPossibleBlockMicros

\* Dropping is no silence: while a host has the port open and reads, records go
\* on arriving, as long as one fits the FIFO at all.  One that does not is never
\* reported (diagnostic-serializer.h:31-44).
RecordsGoOn ==
  \/ []<><<HostReads>>_diagnosticsVars
  \/ []<>(~open)
  \/ []<>(RecordBytes(counters) > TxBytes)

=============================================================================
