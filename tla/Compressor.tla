----------------------------- MODULE Compressor ------------------------------
(***************************************************************************)
(* core/effects/compressor: the effect runs one CompressorCore per channel *)
(* and couples them by StereoLink.  What is kept of a core is what one     *)
(* sample leaves to the next: the lookahead line, and the recursive        *)
(* memories of the detector and of the gain smoother, of which a site, or  *)
(* linking, may let some stand still while the stream goes on.  The curve, *)
(* the time constants, makeup, mix and output only scale a sample.         *)
(***************************************************************************)
EXTENDS DelayLine, FiniteSets

CONSTANTS
  Channel,       \* channels of the widest context; the least is designated
  Rates,         \* sample rates, in samples per unit of lookahead time
  MaxSeconds,    \* the lookahead parameter's maximum, in that unit
  Budget,        \* kMaxLookaheadSamples: the compiled lookahead buffer
  MaxEdits       \* bound of the model: control calls in one behaviour

VARIABLES
  cores,           \* cores_: per channel the lookahead, its limit, line and memories
  numChannels,     \* the channels prepared, 0 before the first prepare()
  sampleRate,
  settings,        \* the applied values of the parameters kept here
  pending,         \* the values published and not yet applied
  latencySamples,  \* what the host is told
  main,            \* each channel's delayed sample, before the gain
  stream           \* samples since the lines were cleared (counted), and edits

vars == <<cores, numChannels, sampleRate, settings, pending, latencySamples, main, stream>>

\* Ages are told apart as far back as the lookahead line goes.
ASSUME CompressorAssumption ==
  /\ TraceConstants /\ Budget * Ticks <= Horizon
  /\ IsFiniteSet(Channel) /\ Channel # {} /\ Channel = 0..Cardinality(Channel) - 1
  /\ Rates \subseteq Nat \ {0} /\ Rates # {} /\ MaxSeconds \in Nat /\ Budget \in Nat
  /\ MaxEdits \in Nat

Domain ==
  [lookahead |-> 0..MaxSeconds, stereoLink |-> {"perChannel", "linked"},
   site |-> {"level", "gain"}]
Defaults == [lookahead |-> 0, stereoLink |-> "linked", site |-> "level"]

Memory == {"clear", "running", "stale"}
Active(n) == {c \in Channel : c < n}
Least(a, b) == IF a < b THEN a ELSE b

TypeOK ==
  /\ \A c \in Channel : /\ cores[c].maxLookahead \in 0..Budget
                        /\ cores[c].lookahead \in 0..cores[c].maxLookahead
                        /\ cores[c].detector \in Memory /\ cores[c].smoother \in Memory
  /\ numChannels \in 0..Cardinality(Channel) /\ sampleRate \in Rates
  /\ \A p \in DOMAIN Domain : settings[p] \in Domain[p]
  /\ DOMAIN pending \subseteq DOMAIN Domain
  /\ latencySamples \in 0..Budget
  /\ main \in [Channel -> Traces]
  /\ stream.run \in 0..Budget + 2 /\ stream.edits \in 0..MaxEdits

\* CompressorCore::reset(): line, detector and smoother cleared.
ResetCore(core) ==
  [core EXCEPT !.line = Line(Budget + 1), !.detector = "clear", !.smoother = "clear"]

\* MUTANT of SetLookahead: the request reaches the core as it is.
SetLookaheadUnclamped(core, samples) == [core EXCEPT !.lookahead = samples]

\* setLookahead(): clamped to what prepare() allowed.
SetLookahead(core, samples) == [core EXCEPT !.lookahead = Least(samples, core.maxLookahead)]

\* MUTANT of Reported: the request, as it was before the clamp was added.
ReportedRequest(seconds, rate) == seconds * rate

\* The reported latency: clamped as the core clamps its delay (F6).
Reported(seconds, rate) == Least(seconds * rate, Least(MaxSeconds * rate, Budget))

\* applyLookahead() on the n channels prepared.
Delayed(all, n, seconds, rate) ==
  [c \in Channel |-> IF c \in Active(n) THEN SetLookahead(all[c], seconds * rate) ELSE all[c]]

Ran(memory)   == IF memory = "stale" THEN "stale" ELSE "running"
Stood(memory) == IF memory = "running" THEN "stale" ELSE memory

Init ==
  /\ cores = [c \in Channel |-> [lookahead |-> 0, maxLookahead |-> 0, line |-> Line(Budget + 1),
                                 detector |-> "clear", smoother |-> "clear"]]
  /\ numChannels = 0 /\ sampleRate = CHOOSE rate \in Rates : TRUE
  /\ settings = Defaults /\ pending = <<>>
  /\ latencySamples = 0
  /\ main = [c \in Channel |-> Silent]
  /\ stream = [run |-> 0, edits |-> 0]

Edited == stream.edits < MaxEdits

\* setParameter(): from any thread, at any time.
SetParameter ==
  /\ Edited
  /\ stream' = [stream EXCEPT !.edits = @ + 1]
  /\ \E p \in DOMAIN Domain : \E v \in Domain[p] :
        pending' = [q \in DOMAIN pending \cup {p} |-> IF q = p THEN v ELSE pending[q]]
  /\ UNCHANGED <<cores, numChannels, sampleRate, settings, latencySamples, main>>

Stopped == /\ stream' = [run |-> 0, edits |-> stream.edits + 1]
           /\ main' = [c \in Channel |-> Silent]

\* prepare(), the stream stopped: every channel of the context is prepared
\* and cleared, then every applied value is pushed to it.
Prepare ==
  /\ Edited /\ Stopped
  /\ \E n \in 1..Cardinality(Channel), rate \in Rates :
        LET limit == Least(MaxSeconds * rate, Budget)
            ready == [c \in Channel |->
                        IF c \in Active(n) THEN [ResetCore(cores[c]) EXCEPT !.maxLookahead = limit]
                        ELSE cores[c]]
        IN  /\ numChannels' = n /\ sampleRate' = rate
            /\ cores' = Delayed(ready, n, settings.lookahead, rate)
            /\ latencySamples' = Reported(settings.lookahead, rate)
  /\ UNCHANGED <<settings, pending>>

\* reset(), the stream stopped.
Reset ==
  /\ Edited /\ Stopped
  /\ cores' = Delayed([c \in Channel |-> IF c \in Active(numChannels) THEN ResetCore(cores[c])
                                         ELSE cores[c]],
                      numChannels, settings.lookahead, sampleRate)
  /\ latencySamples' = Reported(settings.lookahead, sampleRate)
  /\ UNCHANGED <<numChannels, sampleRate, settings, pending>>

\* MUTANT of Detecting: linking runs the last channel's detector.
DetectingLast(link) ==
  IF link = "linked" THEN {numChannels - 1} ELSE Active(numChannels)

\* The cores whose detector runs: the designated one, or each its own.
Detecting(link) == IF link = "linked" THEN {0} ELSE Active(numChannels)

\* detectGainLin(): the detector always runs, the smoother at its site only.
Detected(core, site) ==
  [core EXCEPT !.detector = Ran(@), !.smoother = IF site = "gain" THEN Ran(@) ELSE Stood(@)]

\* applyGain(): the line runs on every channel, every sample.
Applied(core) == [core EXCEPT !.line = Write(LineAged(@), Input)]

\* applyPending(): what was published over what was applied.
Current == [p \in DOMAIN Domain |-> IF p \in DOMAIN pending THEN pending[p] ELSE settings[p]]

\* process(): pending edits, then one sample on every prepared channel.
Process ==
  LET now    == Current
      pushed == IF "lookahead" \in DOMAIN pending
                THEN Delayed(cores, numChannels, now.lookahead, sampleRate) ELSE cores
      runs   == Detecting(now.stereoLink)
      next   == [c \in Channel |->
                   IF c \notin Active(numChannels) THEN pushed[c]
                   ELSE IF c \in runs THEN Applied(Detected(pushed[c], now.site))
                   ELSE [Applied(pushed[c]) EXCEPT !.detector = Stood(@), !.smoother = Stood(@)]]
  IN  /\ settings' = now /\ pending' = <<>>
      /\ cores' = next
      /\ latencySamples' = IF "lookahead" \in DOMAIN pending
                           THEN Reported(now.lookahead, sampleRate) ELSE latencySamples
      /\ main' = [c \in Channel |-> IF c \in Active(numChannels)
                                    THEN ReadFractional(next[c].line, next[c].lookahead * Ticks)
                                    ELSE Silent]
      /\ stream' = [stream EXCEPT !.run = Least(@ + 1, Budget + 2)]
      /\ UNCHANGED <<numChannels, sampleRate>>

Next == SetParameter \/ Prepare \/ Reset \/ Process

Spec == Init /\ [][Next]_vars

-----------------------------------------------------------------------------
(* Properties.                                                             *)

\* FR-021 and the comment of latencySamples(): whatever rate, channel count
\* and lookahead, and whenever they changed, every channel's compressed
\* signal is late by what the host is told, once that many samples were seen.
LatencyIsDelay ==
  \A c \in Active(numChannels) :
    stream.run > latencySamples => main[c].centre = latencySamples * Ticks

\* The gain of a linked stream always comes from a detector that has heard
\* the whole stream: no change of link, site, rate or width lets it stand.
LinkedDetectorHears == cores[0].detector # "stale"

\* The core's header (34-35, again at 284-286): the inactive smoother is held
\* instantaneous "so a live site switch is clean", that is, the gain smoother
\* that takes over has not stood still while the stream went on.
SiteSwitchIsClean ==
  settings.site = "gain" /\ stream.run > 0 => cores[0].smoother # "stale"
=============================================================================
