---------------------------- MODULE TerminalInput ----------------------------
(***************************************************************************)
(* Keys on their way from the terminal to the dashboard: bytes on Unix     *)
(* (platform/terminal/unix.rs, core terminal_input/decoder.rs, control.rs, *)
(* sequence.rs, unicode.rs), records of the console on Windows             *)
(* (platform/terminal/windows.rs, core terminal_input/utf16.rs).  They     *)
(* come in batches that end anywhere, and a pause is taken for the end of  *)
(* an escape.                                                              *)
(***************************************************************************)
EXTENDS Naturals, Sequences, SequencesExt

CONSTANTS
  Typeable,       \* keys
  Sends(_),       \* the bytes and the records a key comes as, the events it means
  MaxTyped,       \* bound on keys
  MaxControl,    \* MAX_SEQUENCE_BYTES
  FieldLimit,     \* the first number that a parameter cannot hold, 2^32 in the code
  InputBatch      \* INPUT_BATCH

VARIABLES
  console,        \* unix or windows
  typed,          \* the keys that were pressed
  wire,           \* bytes or records that were not read yet
  batch,          \* what was read and not decoded yet
  decoder,        \* state, bytes of the sequence, bytes expected, modifiers, bytes to skip
  high,           \* a high surrogate that waits for its other half, 0 for none
  events,         \* the events that were decoded
  split           \* a pause fell between the bytes of one key

inputVars == <<console, typed, wire, batch, decoder, high, events, split>>

Ground == [state |-> "ground", bytes |-> <<>>, expected |-> 0, modifiers |-> {}, skip |-> 0]

InputInit ==
  /\ console \in {"unix", "windows"}
  /\ typed = <<>> /\ wire = <<>> /\ batch = <<>> /\ decoder = Ground /\ high = 0
  /\ events = <<>> /\ split = FALSE

-----------------------------------------------------------------------------
(* Bytes.  A decoder and a byte give a decoder and the events it brings.   *)

Key(code, modifiers) == [code |-> code, modifiers |-> modifiers, kind |-> "press"]
Char(n) == <<"char", n>>
Scalar(n) == n \in 0..1114111 /\ n \notin 55296..57343
Brings(d, e) == [decoder |-> d, events |-> e]

\* unicode::scalar: the shortest form only.
Decoded8(bytes) ==
  LET lead == CASE bytes[1] \in 194..223 -> [length |-> 2, first |-> bytes[1] % 32, least |-> 128]
                [] bytes[1] \in 224..239 -> [length |-> 3, first |-> bytes[1] % 16, least |-> 2048]
                [] OTHER -> [length |-> 4, first |-> bytes[1] % 8, least |-> 65536]
      value == FoldLeft(LAMBDA v, b : v * 64 + (b % 64), lead.first, Tail(bytes))
  IN IF Len(bytes) = lead.length /\ value >= lead.least /\ Scalar(value)
     THEN <<Char(value)>> ELSE <<>>

\* control::fields: three numbers, parted by ; or :, or none.
Fields(bytes) ==
  LET number(f, b) ==
        IF ~f.ok THEN f
        ELSE IF b \in {58, 59}
        THEN [f EXCEPT !.at = @ + 1, !.ok = f.at < 3]
        ELSE IF b \in 48..57 /\ f.of[f.at] * 10 + (b - 48) < FieldLimit
        THEN [f EXCEPT !.of[f.at] = @ * 10 + (b - 48)]
        ELSE [f EXCEPT !.ok = FALSE]
  IN FoldLeft(number, [ok |-> TRUE, at |-> 1, of |-> <<0, 0, 0>>], bytes)

\* control::modifiers: a number from 1 to 8 whose bits are modifiers.
Modifiers(n) ==
  LET bits == IF n = 0 THEN 0 ELSE n - 1
  IN {m \in {"shift", "alt", "control"} :
        \/ m = "shift" /\ bits % 2 = 1
        \/ m = "alt" /\ (bits \div 2) % 2 = 1
        \/ m = "control" /\ (bits \div 4) % 2 = 1}

Tilde == [n \in {1, 2, 3, 4, 5, 6, 7, 8} |->
            CASE n \in {1, 7} -> "home" [] n = 2 -> "insert" [] n = 3 -> "delete"
              [] n \in {4, 8} -> "end" [] n = 5 -> "page up" [] OTHER -> "page down"]
FunctionKeys == <<11, 12, 13, 14, 15, 17, 18, 19, 20, 21, 23, 24>>
Letter == [b \in {65, 66, 67, 68, 70, 72, 80, 81, 82, 83} |->
             CASE b = 65 -> "up" [] b = 66 -> "down" [] b = 67 -> "right" [] b = 68 -> "left"
               [] b = 70 -> "end" [] b = 72 -> "home" [] OTHER -> <<"f", b - 79>>]

\* control::key: the key of a whole sequence, or none.
ControlOf(bytes) ==
  LET last == bytes[Len(bytes)]
      f == Fields(SubSeq(bytes, 1, Len(bytes) - 1))
      code == CASE last \in DOMAIN Letter -> <<Letter[last]>>
                [] last = 126 /\ f.of[1] \in DOMAIN Tilde -> <<Tilde[f.of[1]]>>
                [] last = 126 /\ Contains(FunctionKeys, f.of[1]) ->
                     <<<<"f", CHOOSE i \in 1..12 : FunctionKeys[i] = f.of[1]>>>>
                [] last = 117 /\ f.of[1] = 0 -> <<"null">>
                [] last = 117 /\ Scalar(f.of[1]) -> <<Char(f.of[1])>>
                [] OTHER -> <<>>
      kind == CASE f.of[3] \in {0, 1} -> "press" [] f.of[3] = 2 -> "repeat" [] OTHER -> "release"
  IN IF ~f.ok THEN <<>>
     ELSE IF last = 90 THEN <<Key("back tab", {"shift"})>>
     ELSE IF code = <<>> \/ f.of[2] > 8 \/ f.of[3] > 3 THEN <<>>
     ELSE <<[Key(code[1], Modifiers(f.of[2])) EXCEPT !.kind = kind]>>

\* Decoder::ground and start_utf8.
OnGround(byte, modifiers) ==
  LET d == [Ground EXCEPT !.modifiers = modifiers]
      width == CASE byte \in 194..223 -> 2 [] byte \in 224..239 -> 3 [] byte \in 240..244 -> 4
                 [] OTHER -> 0
  IN CASE byte = 27 -> Brings([d EXCEPT !.state = "escape"], <<>>)
       [] byte \in {8, 127} -> Brings(d, <<Key("backspace", modifiers)>>)
       [] byte = 9 -> Brings(d, <<Key("tab", modifiers)>>)
       [] byte \in {10, 13} -> Brings(d, <<Key("enter", modifiers)>>)
       [] byte = 0 -> Brings(d, <<Key("null", modifiers)>>)
       [] byte \in 1..26 -> Brings(d, <<Key(Char(byte + 96), modifiers \cup {"control"})>>)
       [] byte \in 28..126 -> Brings(d, <<Key(Char(byte), modifiers)>>)
       [] width > 0 -> Brings([d EXCEPT !.state = "utf8", !.bytes = <<byte>>,
                                        !.expected = width], <<>>)
       [] OTHER -> Brings(Ground, <<>>)

\* Decoder::escape.
OnEscape(byte) ==
  CASE byte \in {79, 91} -> Brings([decoder EXCEPT !.state = "control", !.bytes = <<>>], <<>>)
    [] byte = 27 -> Brings(decoder, <<Key("esc", {})>>)
    [] OTHER -> OnGround(byte, {"alt"})

\* Decoder::utf8: a byte that does not continue the sequence starts afresh.
OnUtf8(byte) ==
  LET bytes == Append(decoder.bytes, byte)
      chars == Decoded8(bytes)
  IN IF byte \notin 128..191 THEN OnGround(byte, {})
     ELSE IF Len(bytes) < decoder.expected THEN Brings([decoder EXCEPT !.bytes = bytes], <<>>)
     ELSE Brings(Ground, [i \in 1..Len(chars) |-> Key(chars[i], decoder.modifiers)])

Final(byte) == byte \in 64..126

\* Decoder::control: a sequence that is too long is dropped up to its last byte, and the
\* report of a mouse is followed by three bytes that are no keys.
OnControl(byte) ==
  LET bytes == Append(decoder.bytes, byte)
  IN CASE byte \notin 32..126 -> OnGround(byte, {})
       [] Len(bytes) > MaxControl ->
            Brings(IF Final(byte) THEN Ground ELSE [Ground EXCEPT !.state = "discard"], <<>>)
       [] ~Final(byte) -> Brings([decoder EXCEPT !.bytes = bytes], <<>>)
       [] OTHER -> Brings(IF bytes = <<77>> THEN [Ground EXCEPT !.state = "mouse", !.skip = 3]
                          ELSE Ground, ControlOf(bytes))

\* Decoder::decode.
DecodeByte(byte) ==
  CASE decoder.state = "ground" -> OnGround(byte, {})
    [] decoder.state = "escape" -> OnEscape(byte)
    [] decoder.state = "utf8" -> OnUtf8(byte)
    [] decoder.state = "control" -> OnControl(byte)
    [] decoder.state = "discard" -> Brings(IF Final(byte) THEN Ground ELSE decoder, <<>>)
    [] OTHER -> Brings(IF decoder.skip <= 1 THEN Ground ELSE [decoder EXCEPT !.skip = @ - 1],
                       <<>>)

-----------------------------------------------------------------------------
(* Records of the console.                                                 *)

\* Utf16Decoder::decode: the halves of a character, and half a character that is dropped.
Decode16(unit) ==
  LET value == IF unit \in 56320..57343 THEN (high - 55296) * 1024 + (unit - 56320) + 65536
               ELSE unit
  IN IF unit \in 55296..56319 THEN [high |-> unit, chars |-> <<>>]
     ELSE [high |-> 0,
           chars |-> IF (unit \in 56320..57343 /\ high = 0) \/ ~Scalar(value) THEN <<>>
                     ELSE <<Char(value)>>]

VirtualKeys == [k \in {8, 9, 13, 27} \cup 33..40 \cup {45, 46} \cup 112..135 |->
  CASE k = 8 -> "backspace" [] k = 9 -> "tab" [] k = 13 -> "enter" [] k = 27 -> "esc"
    [] k = 33 -> "page up" [] k = 34 -> "page down" [] k = 35 -> "end" [] k = 36 -> "home"
    [] k = 37 -> "left" [] k = 38 -> "up" [] k = 39 -> "right" [] k = 40 -> "down"
    [] k = 45 -> "insert" [] k = 46 -> "delete" [] OTHER -> <<"f", k - 111>>]

\* Text that the release of Alt brings.
AltText(r) == ~r.down /\ r.vk = 18 /\ r.unit # 0

\* Utf16Decoder::windows_key and key_code: a record without a character leaves half a
\* character waiting, any other key drops it.
DecodeRecord(r) ==
  LET kind == IF AltText(r) THEN "press" ELSE IF ~r.down THEN "release"
              ELSE IF r.repeats > 1 THEN "repeat" ELSE "press"
      event(code, modifiers) == <<[Key(code, modifiers) EXCEPT !.kind = kind]>>
      half == Decode16(r.unit)
      text == IF half.chars = <<>> THEN [high |-> half.high, events |-> <<>>]
              ELSE [high |-> 0, events |-> event(half.chars[1], r.modifiers)]
  IN IF AltText(r) THEN text
     ELSE IF r.vk = 9 /\ "shift" \in r.modifiers
     THEN [high |-> 0, events |-> event("back tab", r.modifiers)]
     ELSE IF r.vk \in DOMAIN VirtualKeys
     THEN [high |-> 0, events |-> event(VirtualKeys[r.vk], r.modifiers)]
     ELSE IF r.unit = 0 THEN [high |-> high, events |-> <<>>]
     ELSE IF r.unit \in 1..26
     THEN [high |-> 0, events |-> event(Char(r.unit + 96), r.modifiers \cup {"control"})]
     ELSE text

-----------------------------------------------------------------------------
\* The terminal sends a key.  Whoever types Escape waits until it is understood.
Type(k) ==
  /\ Len(typed) < MaxTyped
  /\ typed # <<>> /\ Sends(Last(typed)).bytes = <<27>> =>
       wire = <<>> /\ batch = <<>> /\ decoder = Ground
  /\ typed' = Append(typed, k)
  /\ wire' = wire \o (IF console = "unix" THEN Sends(k).bytes ELSE Sends(k).records)
  /\ UNCHANGED <<console, batch, decoder, high, events, split>>

\* Input::next reads what is there, up to a batch.
ReadBatch ==
  /\ batch = <<>> /\ wire # <<>>
  /\ \E n \in 1..(IF Len(wire) < InputBatch THEN Len(wire) ELSE InputBatch) :
       batch' = SubSeq(wire, 1, n) /\ wire' = SubSeq(wire, n + 1, Len(wire))
  /\ UNCHANGED <<console, typed, decoder, high, events, split>>

\* Input::buffered, and the loop over the records of a batch.
TakeByte ==
  /\ console = "unix" /\ batch # <<>> /\ batch' = Tail(batch)
  /\ LET b == DecodeByte(Head(batch))
     IN decoder' = b.decoder /\ events' = events \o b.events
  /\ UNCHANGED <<console, typed, wire, high, split>>
TakeRecord ==
  /\ console = "windows" /\ batch # <<>> /\ batch' = Tail(batch)
  /\ LET r == DecodeRecord(Head(batch))
     IN high' = r.high /\ events' = events \o r.events
  /\ UNCHANGED <<console, typed, wire, decoder, split>>

\* Decoder::quiet: no input within the time of a poll.  The rest of the sequence may be on
\* its way all the same.
PauseInput ==
  /\ console = "unix" /\ batch = <<>> /\ decoder.state = "escape"
  /\ events' = Append(events, Key("esc", {})) /\ decoder' = Ground
  /\ split' = (split \/ wire # <<>>)
  /\ UNCHANGED <<console, typed, wire, batch, high>>

InputNext ==
  \/ \E k \in Typeable : Type(k)
  \/ ReadBatch \/ TakeByte \/ TakeRecord \/ PauseInput

InputSpec == InputInit /\ [][InputNext]_inputVars

-----------------------------------------------------------------------------
\* Unless a pause falls into the middle of a key, the events are the keys that were typed,
\* in their order, however they are cut into batches: neither what the decoder does not know
\* nor what is too long for it costs the key after it (Decoder, Utf16Decoder, Input::next).
TypedIsDecoded ==
  ~split /\ wire = <<>> /\ batch = <<>> /\ decoder.state # "escape" =>
    SelectSeq(events, LAMBDA e : e.kind # "release")
      = FlattenSeq([i \in 1..Len(typed) |-> Sends(typed[i]).means])

\* After the last byte of a key the decoder waits for nothing, and it never holds more than
\* one sequence (Sequence::push, Decoder::reset).
DecoderReady ==
  /\ Len(decoder.bytes) <= MaxControl
  /\ decoder.state = "ground" => decoder.bytes = <<>>
  /\ ~split /\ wire = <<>> /\ batch = <<>> => decoder.state \in {"ground", "escape"} /\ high = 0

\* What is typed is what the dashboard is told (terminal_input, platform/terminal).
InputSound == TypedIsDecoded /\ DecoderReady
=============================================================================
