------------------------------ MODULE Descriptors ------------------------------
(***************************************************************************)
(* internal/surround/descriptors.go: what a device of n cables says of     *)
(* itself, byte by byte, because hosts find every descriptor by the        *)
(* lengths of those before it.  Of a string's text only what it names      *)
(* counts: each of its bytes is that name.                                 *)
(***************************************************************************)
EXTENDS CableLayout, SequencesExt

Channels == 8
SampleRate == 48000
BytesPerMillisecond == (SampleRate * Channels * 2) \div 1000

DeviceDescriptor(d) ==
  <<18, 1, 0, 2, 0, 0, 0, 64, 255, 255, d, 205, 1, 0, 1, 2, 3, 1>>   \* product 0xCD00 + d

DeviceQualifier == <<10, 6, 0, 2, 0, 0, 0, 64, 1, 0>>

Interface(i, alt, endpoints, subclass) == <<9, 4, i, alt, endpoints, 1, subclass, 0, 0>>

\* Mute and volume for all channels together.
FeatureUnit(unit, source) == <<16, 36, 6, unit, source, 1, 3>> \o [c \in 1..9 |-> 0]

\* USB stream -> feature unit -> speaker, and microphone -> feature unit -> USB
\* stream, of the cable with l cables before it.
Topology(l) ==
  LET e == 1 + 6 * l
      playbackName == 4 + 2 * l
      captureName == 5 + 2 * l
  IN <<12, 36, 2, e, 1, 1, 0, Channels, 63, 6, 0, 0>> \o FeatureUnit(e + 1, e)
     \o <<9, 36, 3, e + 2, 1, 3, 0, e + 1, playbackName>>
     \o <<12, 36, 2, e + 3, 1, 2, 0, Channels, 63, 6, 0, captureName>>
     \o FeatureUnit(e + 4, e + 3) \o <<9, 36, 3, e + 5, 1, 1, 0, e + 4, 0>>

\* Interface i: closed, or open with one isochronous endpoint of 0x300 bytes every
\* 2^(4-1) microframes.
Streaming(i, terminal, address, attributes) ==
  Interface(i, 0, 0, 2) \o Interface(i, 1, 1, 2) \o <<7, 36, 1, terminal, 1, 1, 0>>
  \o <<11, 36, 2, 1, Channels, 2, 16, 1, 128, 187, 0>>
  \o <<9, 5, address, attributes, 0, 3, 4, 0, 0, 7, 37, 1, 0, 0, 0, 0>>

\* The class-specific header of the control interface.
AudioHeader(n) ==
  LET length == 8 + 2 * n
      total == length + 74 * n
  IN <<length, 36, 1, 0, 1, total % 256, total \div 256, 2 * n>> \o [i \in 1..2 * n |-> i]

MutantStreamingPair(l) ==
  Streaming(1 + 2 * l, 1 + 6 * l, 1 + l, 9)
  \o Streaming(2 + 2 * l, 6 + 6 * l, 128 + 2 + l, 13)

\* Playback and capture of a cable share an endpoint number.
StreamingPair(l) ==
  Streaming(1 + 2 * l, 1 + 6 * l, 1 + l, 9)
  \o Streaming(2 + 2 * l, 6 + 6 * l, 128 + 1 + l, 13)

Configuration(n) ==
  LET each(Op(_)) == FlattenSeq([c \in 1..n |-> Op(c - 1)])
      body == Interface(0, 0, 0, 1) \o AudioHeader(n) \o each(Topology)
              \o each(StreamingPair)
      total == 9 + Len(body)
  IN <<9, 2, total % 256, total \div 256, 1 + 2 * n, 1, 0, 128, 50>> \o body

\* UTF-16, at most 126 characters.
StringDescriptor(name, characters) ==
  LET c == IF characters > 126 THEN 126 ELSE characters
  IN <<2 + 2 * c, 3>> \o [i \in 1..2 * c |-> name]

\* Strings 4, 6, .. name the playback sides of the cables, 5, 7, .. the recordings.
String(d, i) ==
  LET number == FirstCable(d) + (i - 4) \div 2
  IN CASE i = 0 -> <<4, 3, 9, 4>>
       [] i = 1 -> StringDescriptor("manufacturer", 18)
       [] i = 2 -> StringDescriptor(<<"product", d>>, 43)
       [] i = 3 -> StringDescriptor(<<"serial", d>>, 19)
       [] i > 3 /\ i % 2 = 0 -> StringDescriptor(<<"playback", number>>, 33)
       [] OTHER -> StringDescriptor(<<"recording", number>>, 34)

\* GetDescriptor of device d with n cables, for the types and indexes it finds.
DescriptorsOf(d, n) ==
  [k \in {<<1, 0>>, <<2, 0>>, <<6, 0>>} \cup {<<3, i>> : i \in 0..3 + 2 * n} |->
     CASE k[1] = 1 -> DeviceDescriptor(d)
       [] k[1] = 2 -> Configuration(n)
       [] k[1] = 6 -> DeviceQualifier
       [] OTHER -> String(d, k[2])]

\* The walk of Validate, and of every host, from descriptor to descriptor; the
\* empty one stands for a length that leads nowhere.
Walk(b) ==
  LET from[p \in 1..Len(b) + 1] ==
        IF p > Len(b) THEN <<>>
        ELSE IF b[p] < 2 \/ p + b[p] - 1 > Len(b) THEN << <<>> >>
        ELSE <<SubSeq(b, p, p + b[p] - 1)>> \o from[p + b[p]]
  IN from[1]

\* Validate; NewDescriptors fails otherwise.
Valid(n) ==
  LET b == Configuration(n)
  IN /\ Len(b) >= 9 /\ b[2] = 2 /\ b[3] + 256 * b[4] = Len(b) /\ b[5] = 1 + 2 * n
     /\ ~Contains(Walk(b), <<>>)
=============================================================================
