--------------------------- MODULE UsbEnumeration ---------------------------
(***************************************************************************)
(* The device on the bus.  First its descriptor set: interface and         *)
(* endpoint numbers, string indices and sizes, and the configuration       *)
(* descriptor as the sequence of descriptors the host reads; a descriptor  *)
(* is a record with its length in bytes, and fields no parser of ours      *)
(* reads are left out.  Then the way from attach to a configured host: the *)
(* descriptor callbacks, the class drivers that open what the              *)
(* configuration declares, the FIFO memory they draw on, and the clock and *)
(* alternate-setting requests of the configured device.  The host and the  *)
(* stack are external and do what the comments of usb-descriptors.h say.   *)
(***************************************************************************)
EXTENDS Naturals, Sequences, SequencesExt

kItfNumAudioControl == 0
kItfNumAudioStreamingOut == 1
kItfNumAudioStreamingIn == 2
kItfNumMidiControl == 3
kItfNumMidiStreaming == 4
kItfNumCdcControl == 5
kItfNumCdcData == 6
kItfCount == kItfNumCdcData + 1

kIadItfCountAudio == 3
kIadItfCountMidi == 2

kAltZeroBandwidth == 0
kAltStreaming == 1
kAltStreaming24 == 2

\* An endpoint address: its number, and its direction for the high bit.
In(number) == [number |-> number, dir |-> "in"]
Out(number) == [number |-> number, dir |-> "out"]
kEpAudioOut == Out(1)
kEpAudioIn == In(1)
kEpMidiOut == Out(2)
kEpMidiIn == In(2)
kEpCdcNotify == In(3)
kEpCdcOut == Out(4)
kEpCdcIn == In(4)

kEntityClock == 1

kStrLangId == 0
kStrManufacturer == 1
kStrProduct == 2
kStrSerial == 3
kStrAudioFunction == 4
kStrAudioStreamOut == 5
kStrAudioStreamIn == 6
kStrMidi == 7
kStrCdc == 8
kStringCount == kStrCdc + 1

---------------------------------------------------------------------------
(* Sizes.  The driver's envelopes are macros of their own.                 *)

kMaxPacketFrames == 49
kAudioChannels == 2
kBytesPerSample == 2
kBytesPerSample24 == 3
\* MUTANT of kMaxSubslotBytes: the endpoint sized for the 16-bit format.
SubslotOfSixteenBits == kBytesPerSample
kMaxSubslotBytes == kBytesPerSample24
kAudioEpSize == kMaxPacketFrames * kAudioChannels * kMaxSubslotBytes
kEpMidiSize == 64
kEpCdcSize == 64
kEpCdcNotifySize == 8
CFG_TUD_ENDPOINT0_SIZE == 64

CFG_TUD_AUDIO_FUNC_1_EP_SZ_MAX == 49 * 2 * 3
CFG_TUD_AUDIO_FUNC_1_EP_SW_BUF_SZ == 4 * CFG_TUD_AUDIO_FUNC_1_EP_SZ_MAX
CFG_TUD_AUDIO_CTRL_BUF_SZ == 64

\* UsbOutPath::maxPayloadBytes() of the widest format: the staging buffer.
OutPacketBufferBytes == 49 * 2 * 3

\* The FIFO memory, in words: one transmit FIFO for each IN endpoint and one
\* receive FIFO sized by the largest OUT packet.
kOtgFsDfifoWords == 320
kOtgFsEpCount == 6
OtgFsFifoWords(bytes) == (bytes + 3) \div 4
OtgFsRxFifoWords(largestOutBytes) == 13 + 1 + 2 * (OtgFsFifoWords(largestOutBytes) + 1) + 2 * kOtgFsEpCount

---------------------------------------------------------------------------
(* The descriptors.                                                        *)

Config(total) == [kind |-> "config", len |-> 9, total |-> total, interfaces |-> kItfCount, str |-> 0]
Iad(first, count, class, str) == [kind |-> "iad", len |-> 8, first |-> first, count |-> count, class |-> class, str |-> str]
Interface(number, alt, endpoints, class, str) ==
  [kind |-> "interface", len |-> 9, number |-> number, alt |-> alt, endpoints |-> endpoints, class |-> class, str |-> str]
Endpoint(address, type, size) == [kind |-> "endpoint", len |-> 7, address |-> address, type |-> type, size |-> size, str |-> 0]
FormatType(subslot) == [kind |-> "format", len |-> 6, subslot |-> subslot, str |-> 0]
ClassSpecific(len, str) == [kind |-> "class-specific", len |-> len, str |-> str]
\* The header of the audio entities carries their total length, itself included.
EntityHeader(entities) == [kind |-> "header", len |-> 9, total |-> 9 + entities, str |-> 0]

TotalLength(descriptors) ==
  LET upTo[n \in 0..Len(descriptors)] == IF n = 0 THEN 0 ELSE upTo[n - 1] + descriptors[n].len
  IN  upTo[Len(descriptors)]

\* Clock source, and an input and an output terminal for each direction.
AudioControlEntities ==
  << ClassSpecific(8, 0), ClassSpecific(17, kStrAudioStreamOut), ClassSpecific(12, 0),
     ClassSpecific(17, 0), ClassSpecific(12, kStrAudioStreamIn) >>

StreamingAlt(number, alt, str, subslot, address) ==
  << Interface(number, alt, 1, "AudioStreaming", str), ClassSpecific(16, 0), FormatType(subslot),
     Endpoint(address, "iso", kAudioEpSize), ClassSpecific(8, 0) >>

\* MUTANT of AudioStreaming: the 24-bit block keeps the format of the one it
\* was copied from.
StreamingBothAlike(number, str, address) ==
  << Interface(number, kAltZeroBandwidth, 0, "AudioStreaming", str) >>
  \o StreamingAlt(number, kAltStreaming, str, kBytesPerSample, address)
  \o StreamingAlt(number, kAltStreaming24, str, kBytesPerSample, address)

AudioStreaming(number, str, address) ==
  << Interface(number, kAltZeroBandwidth, 0, "AudioStreaming", str) >>
  \o StreamingAlt(number, kAltStreaming, str, kBytesPerSample, address)
  \o StreamingAlt(number, kAltStreaming24, str, kBytesPerSample24, address)

AudioFunction ==
  << Iad(kItfNumAudioControl, kIadItfCountAudio, "AudioControl", kStrAudioFunction),
     Interface(kItfNumAudioControl, 0, 0, "AudioControl", kStrAudioFunction),
     EntityHeader(TotalLength(AudioControlEntities)) >>
  \o AudioControlEntities
  \o AudioStreaming(kItfNumAudioStreamingOut, kStrAudioStreamOut, kEpAudioOut)
  \o AudioStreaming(kItfNumAudioStreamingIn, kStrAudioStreamIn, kEpAudioIn)

\* The library's templates for the other two: MIDI without an association
\* descriptor of its own, CDC with one and always with a notification endpoint.
TUD_MIDI_DESCRIPTOR(number, str, out, in, size) ==
  << Interface(number, 0, 0, "AudioControl", str), ClassSpecific(9, 0),
     Interface(number + 1, 0, 2, "MidiStreaming", str), ClassSpecific(7 + 30, 0),
     [Endpoint(out, "bulk", size) EXCEPT !.len = 9], ClassSpecific(5, 0),
     [Endpoint(in, "bulk", size) EXCEPT !.len = 9], ClassSpecific(5, 0) >>
TUD_CDC_DESCRIPTOR(number, str, notify, notifySize, out, in, size) ==
  << Iad(number, 2, "CdcControl", 0), Interface(number, 0, 1, "CdcControl", str), ClassSpecific(19, 0),
     Endpoint(notify, "interrupt", notifySize),
     Interface(number + 1, 0, 2, "CdcData", 0), Endpoint(out, "bulk", size), Endpoint(in, "bulk", size) >>

\* MUTANT of MidiFunction: the template alone, without the association.
MidiWithoutAssociation == TUD_MIDI_DESCRIPTOR(kItfNumMidiControl, kStrMidi, kEpMidiOut, kEpMidiIn, kEpMidiSize)

MidiFunction ==
  << Iad(kItfNumMidiControl, kIadItfCountMidi, "AudioControl", kStrMidi) >>
  \o TUD_MIDI_DESCRIPTOR(kItfNumMidiControl, kStrMidi, kEpMidiOut, kEpMidiIn, kEpMidiSize)
CdcFunction ==
  TUD_CDC_DESCRIPTOR(kItfNumCdcControl, kStrCdc, kEpCdcNotify, kEpCdcNotifySize, kEpCdcOut, kEpCdcIn, kEpCdcSize)

kConfigTotalLen == 9 + TotalLength(AudioFunction) + TotalLength(MidiFunction) + TotalLength(CdcFunction)
kConfigurationDescriptor == << Config(kConfigTotalLen) >> \o AudioFunction \o MidiFunction \o CdcFunction

\* The device descriptor: the class triple that announces associations.
kDeviceDescriptor ==
  [class |-> "misc-common-iad", strings |-> {kStrManufacturer, kStrProduct, kStrSerial}]

\* The string table by its lengths; 0 stands for the entry without a text.
kStringTable == [index \in 1..8 |-> <<4, 23, 0, 10, 19, 18, 9, 14>>[index]]
kMaxStringChars == 31
kSerialChars == 3 * 8


---------------------------------------------------------------------------
(* The enumeration.                                                        *)

CONSTANTS
  Requested,    \* rates a host may ask for, in Hz
  MaxResets     \* bus resets, each of which starts the enumeration over

kSupportedSampleRatesHz == <<44100, 48000>>
kDefaultSampleRateHz == 48000
EnumerationConstants == kDefaultSampleRateHz \in Requested /\ MaxResets \in Nat

VARIABLES
  phase,        \* "detached", "attached", "device", "config", "strings", "drivers", "configured" or "failed"
  resets,
  flash,        \* kConfigurationDescriptor where it lies, never written
  known,        \* the descriptors the host has read
  unread,       \* string indices the host still asks for
  asked,        \* the string request whose data stage is due, or NoIndex
  buffer,       \* sStringBuffer: the announced length and the characters
  at,           \* the driver walk: position in the configuration descriptor
  claimed,      \* the interfaces each driver has opened
  opened,       \* the endpoints with FIFO memory: address and size
  received,     \* the string the host read last, and its index
  clockRate,    \* g_currentSampleRateHz
  hostRate,     \* the rate the host believes in, 0 before it knows
  alt,          \* the alternate setting of each streaming interface
  chosen,       \* the streaming setting in force that was selected last, or NoStream
  format        \* g_currentAudioFormat
progressVars == <<at, claimed, opened>>
stringVars == <<unread, asked, buffer, received>>
streamVars == <<clockRate, hostRate, alt, chosen, format>>
enumerationVars == <<flash, phase, resets, known, progressVars, stringVars, streamVars>>

Streams == {kItfNumAudioStreamingOut, kItfNumAudioStreamingIn}
Drivers == {"audio", "midi", "cdc"}
NoIndex == 255
NoStream == 0
NoString == [index |-> NoIndex, chars |-> <<>>]

EnumerationInit ==
  /\ phase = "detached" /\ resets = 0 /\ flash = kConfigurationDescriptor
  /\ known = <<>> /\ unread = {} /\ asked = NoIndex
  /\ buffer = [announced |-> 0, chars |-> [n \in 1..kMaxStringChars |-> <<0, 0>>]]
  /\ at = 2 /\ claimed = [d \in Drivers |-> {}] /\ opened = {}
  /\ received = NoString
  /\ clockRate = kDefaultSampleRateHz /\ hostRate = 0
  /\ alt = [s \in Streams |-> kAltZeroBandwidth] /\ chosen = NoStream
  /\ format = "Pcm16"

---------------------------------------------------------------------------
(* Attach.  The breakout's VBUS is not wired, so a core that senses it     *)
(* would wait for ever.                                                    *)

VbusWired == FALSE
\* MUTANT of CFG_TUD_VBUS_DETECT_HW: the core waits for the sense pin.
SenseVbus == 1
CFG_TUD_VBUS_DETECT_HW == 0

Attach ==
  /\ phase = "detached"
  /\ CFG_TUD_VBUS_DETECT_HW = 1 => VbusWired
  /\ phase' = "attached"
  /\ UNCHANGED <<flash, resets, known, progressVars, stringVars, streamVars>>

\* A bus reset closes every endpoint and restarts the enumeration; what the
\* callbacks recorded of rate and format stays.
BusReset ==
  /\ resets < MaxResets /\ phase # "detached"
  /\ resets' = resets + 1
  /\ phase' = "attached"
  /\ known' = <<>> /\ unread' = {} /\ asked' = NoIndex /\ received' = NoString
  /\ at' = 2 /\ claimed' = [d \in Drivers |-> {}] /\ opened' = {}
  /\ hostRate' = 0 /\ alt' = [s \in Streams |-> kAltZeroBandwidth] /\ chosen' = NoStream
  /\ UNCHANGED <<flash, buffer, clockRate, format>>

---------------------------------------------------------------------------
(* The descriptors the host reads.                                         *)

\* tud_descriptor_device_cb
GetDevice ==
  /\ phase = "attached"
  /\ phase' = "device"
  /\ unread' = kDeviceDescriptor.strings
  /\ UNCHANGED <<flash, resets, known, progressVars, asked, buffer, received, streamVars>>

\* tud_descriptor_configuration_cb: nine bytes first, then as many as the first
\* of them announce.  A descriptor cut short is not parsed.
Read(bytes) ==
  LET offset[n \in 0..Len(flash)] == IF n = 0 THEN 0 ELSE offset[n - 1] + flash[n].len
      last == CHOOSE n \in DOMAIN offset :
                offset[n] <= bytes /\ (n = Len(flash) \/ offset[n + 1] > bytes)
  IN  SubSeq(flash, 1, last)

GetHeader ==
  /\ phase = "device"
  /\ phase' = "config"
  /\ known' = Read(9)
  /\ UNCHANGED <<flash, resets, progressVars, stringVars, streamVars>>

GetConfiguration ==
  /\ phase = "config"
  /\ phase' = "strings"
  /\ known' = Read(known[1].total)
  /\ unread' = unread \cup {d.str : d \in Range(known')} \cup {kStrLangId}
  /\ UNCHANGED <<flash, resets, progressVars, asked, buffer, received, streamVars>>

\* tud_descriptor_string_cb.  The buffer is shared and keeps what the string
\* before wrote past the end of this one.
Copied(index, count) ==
  [announced |-> count,
   chars |-> [n \in 1..kMaxStringChars |-> IF n <= count THEN <<index, n>> ELSE buffer.chars[n]]]
CharsOf(index) ==
  CASE index = kStrLangId -> 1
    [] index = kStrSerial -> Min({kSerialChars, kMaxStringChars})
    [] OTHER -> Min({kStringTable[index], kMaxStringChars})
Known(index) == index < kStringCount /\ (index \in {kStrLangId, kStrSerial} \/ kStringTable[index] > 0)

\* MUTANT of StringReply: the announced length is the longest one so far.
ReplyKeepsLength(index) ==
  [Copied(index, CharsOf(index)) EXCEPT !.announced = Max({@, buffer.announced})]
StringReply(index) == Copied(index, CharsOf(index))

\* The host asks for the strings in order, may ask again before the answer, and
\* gives up on a device that stalls a string it advertises.
GetString ==
  /\ phase = "strings" /\ unread # {}
  /\ LET index == Min(unread)
     IN  IF Known(index)
         THEN /\ buffer' = StringReply(index) /\ asked' = index
              /\ UNCHANGED phase
         ELSE /\ phase' = "failed"
              /\ UNCHANGED <<buffer, asked>>
  /\ UNCHANGED <<flash, resets, known, progressVars, unread, received, streamVars>>

ReceiveString ==
  /\ phase = "strings" /\ asked # NoIndex
  /\ received' = [index |-> asked, chars |-> SubSeq(buffer.chars, 1, buffer.announced)]
  /\ unread' = unread \ {asked}
  /\ asked' = NoIndex
  /\ UNCHANGED <<flash, phase, resets, known, progressVars, buffer, streamVars>>

---------------------------------------------------------------------------
(* SET_CONFIGURATION: the stack walks the configuration, and the driver    *)
(* that recognises an interface opens its function up to the next one.     *)

Boundary(n) == n > Len(flash) \/ flash[n].kind \in {"iad", "interface"}
Following(n) == Min({m \in (n + 1)..(Len(flash) + 1) : Boundary(m)})
ClassAt(n) ==
  IF n <= Len(flash) /\ flash[n].kind = "interface" THEN flash[n].class ELSE "none"

DriverAt(n) ==
  CASE ClassAt(n) = "AudioControl" /\ ClassAt(Following(n)) = "AudioStreaming" -> "audio"
    [] ClassAt(n) = "AudioControl" /\ ClassAt(Following(n)) = "MidiStreaming" -> "midi"
    [] ClassAt(n) = "CdcControl" -> "cdc"
    [] OTHER -> "none"
EndAt(n) ==
  CASE DriverAt(n) = "audio" ->
         Min({m \in (n + 1)..(Len(flash) + 1) : Boundary(m) /\ ClassAt(m) # "AudioStreaming"})
    [] DriverAt(n) = "midi" -> Following(Following(n))
    [] DriverAt(n) = "cdc" ->
         IF ClassAt(Following(n)) = "CdcData" THEN Following(Following(n)) ELSE Following(n)
    [] OTHER -> Following(n)

Within(n, kind) == {flash[m] : m \in {i \in n..(EndAt(n) - 1) : flash[i].kind = kind}}
Sized(endpoints) == {[address |-> e.address, size |-> e.size] : e \in endpoints}

\* The FIFO memory of a set of endpoints, the control endpoint's included.
Words(endpoints) ==
  LET transmit == MapThenSumSet(LAMBDA e : OtgFsFifoWords(e.size), {e \in endpoints : e.address.dir = "in"})
      largestOut == Max({CFG_TUD_ENDPOINT0_SIZE} \cup {e.size : e \in {o \in endpoints : o.address.dir = "out"}})
  IN  OtgFsFifoWords(CFG_TUD_ENDPOINT0_SIZE) + transmit + OtgFsRxFifoWords(largestOut)

SetConfiguration ==
  /\ phase = "strings" /\ unread = {}
  /\ phase' = "drivers"
  /\ UNCHANGED <<flash, resets, known, progressVars, stringVars, streamVars>>

\* A function whose endpoints find no FIFO memory does not open, and nothing
\* reports it.
OpenNext ==
  /\ phase = "drivers"
  /\ IF at > Len(flash)
     THEN phase' = "configured" /\ UNCHANGED progressVars
     ELSE /\ at' = EndAt(at)
          /\ LET driver == DriverAt(at)
                 endpoints == Sized(Within(at, "endpoint"))
             IN  IF driver # "none" /\ Words(opened \cup endpoints) <= kOtgFsDfifoWords
                 THEN /\ claimed' = [claimed EXCEPT ![driver] = @ \cup {d.number : d \in Within(at, "interface")}]
                      /\ opened' = opened \cup endpoints
                 ELSE UNCHANGED <<claimed, opened>>
          /\ UNCHANGED phase
  /\ UNCHANGED <<flash, resets, known, stringVars, streamVars>>

---------------------------------------------------------------------------
(* The configured device: tud_audio_get_req_entity_cb and its counterpart  *)
(* for SET, and the alternate settings.                                    *)

isSupportedSampleRate(hz) == \E n \in DOMAIN kSupportedSampleRatesHz : kSupportedSampleRatesHz[n] = hz
Subranges == {[bMin |-> hz, bMax |-> hz, bRes |-> 0] : hz \in Range(kSupportedSampleRatesHz)}
RangeReplyBytes == 2 + 12 * Len(kSupportedSampleRatesHz)

GetRequest(entity, selector, request) ==
  CASE entity = kEntityClock /\ selector = "SAM_FREQ" /\ request = "CUR" -> clockRate
    [] entity = kEntityClock /\ selector = "SAM_FREQ" /\ request = "RANGE" -> Subranges
    [] entity = kEntityClock /\ selector = "CLK_VALID" /\ request = "CUR" -> 1
    [] OTHER -> "stall"

ReadRate ==
  /\ phase = "configured"
  /\ hostRate' = GetRequest(kEntityClock, "SAM_FREQ", "CUR")
  /\ UNCHANGED <<flash, phase, resets, known, progressVars, stringVars, clockRate, alt, chosen, format>>

\* A refused rate stalls, and the host stays with the one it had.
SetRate(hz) ==
  /\ phase = "configured" /\ hostRate # 0
  /\ isSupportedSampleRate(hz)
  /\ clockRate' = hz /\ hostRate' = hz
  /\ UNCHANGED <<flash, phase, resets, known, progressVars, stringVars, alt, chosen, format>>

FormatOf(a) == IF a = kAltStreaming24 THEN "Pcm24" ELSE "Pcm16"

SetInterface(stream, a) ==
  /\ phase = "configured" /\ stream \in claimed["audio"]
  /\ alt' = [alt EXCEPT ![stream] = a]
  /\ IF a # kAltZeroBandwidth
     THEN format' = FormatOf(a) /\ chosen' = stream
     ELSE /\ chosen' = IF chosen = stream THEN NoStream ELSE chosen
          /\ UNCHANGED format
  /\ UNCHANGED <<flash, phase, resets, known, progressVars, stringVars, clockRate, hostRate>>

EnumerationNext ==
  \/ Attach \/ BusReset
  \/ GetDevice \/ GetHeader \/ GetConfiguration \/ GetString \/ ReceiveString
  \/ SetConfiguration \/ OpenNext
  \/ ReadRate \/ \E hz \in Requested : SetRate(hz)
  \/ \E stream \in Streams, a \in 0..2 : SetInterface(stream, a)

\* A host that enumerates a device goes on until it is done.
EnumerationProgress ==
  Attach \/ GetDevice \/ GetHeader \/ GetConfiguration \/ GetString \/ SetConfiguration \/ OpenNext

EnumerationSpec == EnumerationInit /\ [][EnumerationNext]_enumerationVars

---------------------------------------------------------------------------
EnumerationTypeOK ==
  /\ phase \in {"detached", "attached", "device", "config", "strings", "drivers", "configured", "failed"}
  /\ resets \in 0..MaxResets
  /\ unread \subseteq 0..(kStringCount - 1) /\ asked \in 0..(kStringCount - 1) \cup {NoIndex}
  /\ at \in 2..(Len(flash) + 1)
  /\ \A d \in Drivers : claimed[d] \subseteq 0..(kItfCount - 1)
  /\ clockRate \in Range(kSupportedSampleRatesHz) /\ hostRate \in Requested \cup {0}
  /\ alt \in [Streams -> 0..2] /\ format \in {"Pcm16", "Pcm24"}

\* The functions a host binds: the interfaces an association covers, and each
\* one left over by itself.
HostFunctions ==
  LET present == {d.number : d \in {i \in Range(known) : i.kind = "interface"}}
      covered == IF kDeviceDescriptor.class = "misc-common-iad"
                 THEN {(d.first)..(d.first + d.count - 1) : d \in {i \in Range(known) : i.kind = "iad"}}
                 ELSE {}
  IN  covered \cup {{n} : n \in present \ UNION covered}

\* Once configured, the functions the host has bound are the ones the drivers
\* opened, the three of them take up all the interfaces, and every endpoint the
\* host will use has its share of the FIFO memory (usb-descriptors.h:52-93,
\* 224-286).
EveryFunctionOpens ==
  phase = "configured" =>
    /\ HostFunctions = {claimed[d] : d \in Drivers}
    /\ UNION HostFunctions = 0..(known[1].interfaces - 1)
    /\ {e.address : e \in opened} = {d.address : d \in {i \in Range(known) : i.kind = "endpoint"}}
    /\ Words(opened) <= kOtgFsDfifoWords
    /\ Cardinality({e.address.number : e \in opened}) < kOtgFsEpCount

\* A string the host has received is the one it asked for, in full, whatever
\* the buffer held before (usb-descriptors.cpp:297-394).
StringsArrive ==
  received # NoString =>
    received.chars = [n \in 1..CharsOf(received.index) |-> <<received.index, n>>]

\* The rate the host believes in is the device's and one of those on offer, and
\* the frames of the setting it chose last are the ones the device converts:
\* the largest packet of them fits the endpoint, the staging buffer and, four
\* times over, the driver's FIFO (usb-descriptors.h:178-208,
\* usb-audio-fifo-budget.h:77-148, tusb_config.h:204-279).
AdvertisedSubslot(stream, a) ==
  LET n == CHOOSE i \in DOMAIN known :
             known[i].kind = "interface" /\ known[i].number = stream /\ known[i].alt = a
  IN  known[n + 2].subslot
EndpointOf(stream) == IF stream = kItfNumAudioStreamingOut THEN kEpAudioOut ELSE kEpAudioIn
FrameBytes(f) == kAudioChannels * (IF f = "Pcm24" THEN 3 ELSE 2)

HostAndDeviceAgree ==
  /\ hostRate # 0 =>
       /\ hostRate = clockRate
       /\ \E s \in GetRequest(kEntityClock, "SAM_FREQ", "RANGE") : hostRate \in (s.bMin)..(s.bMax)
       /\ RangeReplyBytes <= CFG_TUD_AUDIO_CTRL_BUF_SZ
  /\ chosen # NoStream =>
       LET frame == kAudioChannels * AdvertisedSubslot(chosen, alt[chosen])
           packet == kMaxPacketFrames * frame
       IN  /\ frame = FrameBytes(format)
           /\ \E e \in opened : e.address = EndpointOf(chosen) /\ packet <= e.size
           /\ packet <= OutPacketBufferBytes /\ packet <= CFG_TUD_AUDIO_FUNC_1_EP_SZ_MAX
           /\ 4 * frame * (clockRate \div 1000 + 1) <= CFG_TUD_AUDIO_FUNC_1_EP_SW_BUF_SZ

\* Resets apart, the host gets through: no request of the enumeration waits for
\* ever or stalls (tusb_config.h:93-127, usb-descriptors.h:305-309).
EnumerationFinishes == <>[](phase = "configured")

=============================================================================
