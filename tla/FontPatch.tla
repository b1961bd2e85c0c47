------------------------------ MODULE FontPatch ------------------------------
(***************************************************************************)
(* Text of the ImGui overlay (darktide-imgui-patch and the mod ImguiPatch): *)
(* hooks of two functions of ImGui queue the characters they meet for the   *)
(* first time, a task looks for fonts of the system that have them, and a   *)
(* later frame of the game adds these fonts to the atlas.                   *)
(*                                                                          *)
(* Drawing, the task and the game's frames interleave.  A busy lock, a full *)
(* queue, a locked atlas and a missing context leave everything as it is:   *)
(* the next frame tries again.  The atlas of the context and the system's   *)
(* message font stay the same.                                              *)
(***************************************************************************)
EXTENDS Integers, Sequences, SequencesExt, FiniteSets

CONSTANTS
  Drawn,      \* texts that are drawn: sequences of bytes
  Probes,     \* texts whose decoding is asked for
  FontOf,     \* the font of the system for a character, or NoFont
  BaseFont,   \* the message font
  NoFont,
  TextBytes,  \* kMaxCapturedTextBytes
  MaxTexts,   \* kMaxQueuedTexts
  MaxBatch,   \* kMaxCapturedTextsPerBatch
  CodeUnits,  \* parameters of character messages
  MaxUnits    \* bound: messages

ASSUME FontAssumption == MaxTexts \in Nat /\ MaxBatch \in Nat \ {0} /\ NoFont # BaseFont

VARIABLES
  overlay,     \* the mod: unloaded, running or taken down by a crash; fonts_configured
  detours,     \* the hooks of CalcTextSize and RenderText: off, on, or disabled but not removed
  catcher,     \* g_capture_installed, g_text_queue (sets of characters), g_seen_codepoints
  preparing,   \* g_capture_active, g_capture_ready, g_capture_batch
  configuring, \* g_configure_batch: none, prepared, or moved from
  atlas,       \* the fonts that are on the atlas, which are those in g_installed_font_keys
  told,        \* history: characters given up by a call that returned an error, since the capture began
  typing,      \* g_pending_surrogate; history: the messages, the characters submitted
  probe        \* a text, and the characters found in it

overlayVars == <<overlay, detours, catcher, preparing, configuring, atlas, told>>
fontVars == <<overlayVars, typing, probe>>

NoDetours == [calc |-> "off", render |-> "off"]
NoCatcher == [installed |-> FALSE, queue |-> << >>, seen |-> {}]
NotPreparing == [at |-> "idle", text |-> {}, fonts |-> {}, failed |-> FALSE, spoiled |-> FALSE]
NothingTyped == [pending |-> 0, units |-> << >>, submitted |-> << >>]

OverlayInit ==
  /\ overlay = [at |-> "unloaded", configured |-> FALSE]
  /\ detours = NoDetours
  /\ catcher = NoCatcher
  /\ preparing = NotPreparing
  /\ configuring = "none"
  /\ atlas = {}
  /\ told = {}

Loaded == overlay' = [at |-> "running", configured |-> FALSE]
OverlayRuns(configured) == overlay.at = "running" /\ overlay.configured = configured
Crashes == overlay' = [overlay EXCEPT !.at = "crashed"]

(***************************************************************************)
(* The mod is loaded: install_text_capture hooks both functions or, when a  *)
(* call fails, none; a hook that can then not be removed stays its owner's, *)
(* whose next batch is refused for it.                                      *)
(***************************************************************************)
InstallCapture ==
  /\ overlay.at = "unloaded"
  /\ ~catcher.installed
  /\ detours = NoDetours
  /\ detours' = [calc |-> "on", render |-> "on"]
  /\ catcher' = [NoCatcher EXCEPT !.installed = TRUE]
  /\ told' = {}
  /\ Loaded
  /\ UNCHANGED <<preparing, configuring, atlas>>

InstallFails ==
  /\ overlay.at = "unloaded"
  /\ ~catcher.installed
  /\ detours' \in IF detours = NoDetours THEN [{"calc", "render"} -> {"off", "disabled", "on"}] ELSE {detours}
  /\ catcher' = NoCatcher
  /\ told' = {}
  /\ UNCHANGED <<overlay, preparing, configuring, atlas>>

\* The capture outlived the last unload.
LoadAgain ==
  /\ overlay.at = "unloaded"
  /\ catcher.installed
  /\ Loaded
  /\ UNCHANGED <<detours, catcher, preparing, configuring, atlas, told>>

(***************************************************************************)
(* Drawing: enqueue_rendered_text.                                          *)
(***************************************************************************)
\* A text with an end is left out when it is too long; one that ends with a zero is cut.
TextRange(text, ended) ==
  IF Len(text) <= TextBytes THEN text ELSE IF ended THEN << >> ELSE SubSeq(text, 1, TextBytes)

\* decode_utf8_codepoint
NoSequence == [length |-> 0, code |-> 0]
Continued(text, at, n) == at + n - 1 <= Len(text) /\ \A k \in 1 .. n - 1 : text[at + k] \div 64 = 2
Bits(text, at) == text[at] % 64

DecodeUtf8(text, at) ==
  LET first == text[at]
      second == text[at + 1]
  IN CASE first < 128 -> [length |-> 1, code |-> first]
       [] first \in 194 .. 223 /\ Continued(text, at, 2) ->
            [length |-> 2, code |-> (first % 32) * 64 + Bits(text, at + 1)]
       [] first \in 224 .. 239 /\ Continued(text, at, 3) /\ ~(first = 224 /\ second < 160) /\ ~(first = 237 /\ second >= 160) ->
            [length |-> 3, code |-> (first % 16) * 4096 + Bits(text, at + 1) * 64 + Bits(text, at + 2)]
       [] first \in 240 .. 244 /\ Continued(text, at, 4) /\ ~(first = 240 /\ second < 144) /\ ~(first = 244 /\ second >= 144) ->
            [length |-> 4, code |-> (first % 8) * 262144 + Bits(text, at + 1) * 4096 + Bits(text, at + 2) * 64
                                    + Bits(text, at + 3)]
       [] OTHER -> NoSequence

\* The characters of a text beyond ASCII; a byte that begins none is skipped.
CharactersOf(text) ==
  LET from[at \in 1 .. Len(text) + 1] ==
        IF at > Len(text) THEN << >>
        ELSE LET found == DecodeUtf8(text, at)
             IN IF found.length = 0 THEN from[at + 1]
                ELSE (IF found.code >= 128 THEN <<found.code>> ELSE << >>) \o from[at + found.length]
  IN from[1]

HasRoom == Len(catcher.queue) < MaxTexts

\* Mutant: characters are marked as seen before the queue is asked for room.
CaughtUnqueued(new) ==
  [catcher EXCEPT !.seen = @ \cup new, !.queue = IF HasRoom THEN Append(@, new) ELSE @]

\* A full queue leaves the characters unseen, for the next time that they are drawn.
Caught(new) ==
  IF HasRoom THEN [catcher EXCEPT !.seen = @ \cup new, !.queue = Append(@, new)] ELSE catcher

Draw(text, ended) ==
  LET new == ToSet(CharactersOf(TextRange(text, ended))) \ catcher.seen
  IN /\ overlay.at # "crashed"
     /\ detours.calc = "on" \/ detours.render = "on"
     /\ new # {}
     /\ catcher' = Caught(new)
     /\ UNCHANGED <<overlay, detours, preparing, configuring, atlas, told>>

(***************************************************************************)
(* The task: prepare_font_batch_for_text.  A batch that fails, or for which *)
(* the system has no font at all, carries an error.                         *)
(***************************************************************************)
FontsFor(text) == {FontOf[c] : c \in text} \ {NoFont}

FontsFound ==
  /\ preparing.at = "preparing"
  /\ FontsFor(preparing.text) # {}
  /\ preparing' = [preparing EXCEPT !.at = "ready", !.fonts = FontsFor(preparing.text)]
  /\ UNCHANGED <<overlay, detours, catcher, configuring, atlas, told>>

FontsNotFound ==
  /\ preparing.at = "preparing"
  /\ preparing' = [preparing EXCEPT !.at = "ready", !.failed = TRUE]
  /\ UNCHANGED <<overlay, detours, catcher, configuring, atlas, told>>

(***************************************************************************)
(* The game's frame: first ImguiPatch_ConfigureFonts until it has succeeded.*)
(* AddFont takes the prepared fonts out of their batch: when it refuses     *)
(* one, or a later step fails, the batch that is kept for the next frame    *)
(* has lost its data, which that frame would use.                           *)
(***************************************************************************)
BaseAdded == BaseFont \in atlas

ConfigureWaits ==
  /\ OverlayRuns(FALSE)
  /\ configuring = "none"
  /\ configuring' = "prepared"
  /\ UNCHANGED <<overlay, detours, catcher, preparing, atlas, told>>

Configured ==
  /\ OverlayRuns(FALSE)
  /\ configuring # "spoiled"
  /\ configuring' = "none"
  /\ atlas' = atlas \cup {BaseFont}
  /\ overlay' = [overlay EXCEPT !.configured = TRUE]
  /\ UNCHANGED <<detours, catcher, preparing, told>>

ConfigureFailsHalfway ==
  /\ OverlayRuns(FALSE)
  /\ configuring # "spoiled"
  /\ ~BaseAdded
  /\ configuring' = "spoiled"
  /\ atlas' \in {atlas, atlas \cup {BaseFont}}
  /\ UNCHANGED <<overlay, detours, catcher, preparing, told>>

ConfigureSpoiled ==
  /\ OverlayRuns(FALSE)
  /\ configuring = "spoiled"
  /\ Crashes
  /\ UNCHANGED <<detours, catcher, preparing, configuring, atlas, told>>

(***************************************************************************)
(* Then ImguiPatch_PollTextCapture: hand queued texts to a task, or apply   *)
(* what it has prepared.                                                    *)
(***************************************************************************)
Polls == OverlayRuns(TRUE) /\ catcher.installed

BatchSize == IF Len(catcher.queue) < MaxBatch THEN Len(catcher.queue) ELSE MaxBatch
BatchText == UNION {catcher.queue[i] : i \in 1 .. BatchSize}
Popped == [catcher EXCEPT !.queue = SubSeq(@, BatchSize + 1, Len(@))]

PollStarts ==
  /\ Polls
  /\ preparing.at = "idle"
  /\ catcher.queue # << >>
  /\ catcher' = Popped
  /\ preparing' = [NotPreparing EXCEPT !.at = "preparing", !.text = BatchText]
  /\ UNCHANGED <<overlay, detours, configuring, atlas, told>>

\* No thread for the task: this call and the next return an error, the next resets.
PollCannotStart ==
  /\ Polls
  /\ preparing.at = "idle"
  /\ catcher.queue # << >>
  /\ catcher' = Popped
  /\ preparing' = [NotPreparing EXCEPT !.at = "ready", !.text = BatchText, !.failed = TRUE]
  /\ told' = told \cup BatchText
  /\ UNCHANGED <<overlay, detours, configuring, atlas>>

PollTellsFailure ==
  /\ Polls
  /\ preparing.at = "ready"
  /\ preparing.failed
  /\ told' = told \cup preparing.text
  /\ preparing' = NotPreparing
  /\ UNCHANGED <<overlay, detours, catcher, configuring, atlas>>

PollApplies ==
  /\ Polls
  /\ preparing.at = "ready"
  /\ ~preparing.failed /\ ~preparing.spoiled
  /\ atlas' = atlas \cup preparing.fonts
  /\ preparing' = NotPreparing
  /\ UNCHANGED <<overlay, detours, catcher, configuring, told>>

PollFailsHalfway ==
  /\ Polls
  /\ preparing.at = "ready"
  /\ ~preparing.failed /\ ~preparing.spoiled
  /\ ~(preparing.fonts \subseteq atlas)
  /\ \E added \in SUBSET preparing.fonts : atlas' = atlas \cup added
  /\ preparing' = [preparing EXCEPT !.spoiled = TRUE]
  /\ told' = told \cup preparing.text
  /\ UNCHANGED <<overlay, detours, catcher, configuring>>

PollSpoiled ==
  /\ Polls
  /\ preparing.spoiled
  /\ Crashes
  /\ UNCHANGED <<detours, catcher, preparing, configuring, atlas, told>>

(***************************************************************************)
(* The mod is unloaded: what is being prepared is dropped, and the hooks    *)
(* are removed one after the other.                                         *)
(***************************************************************************)
Unloads ==
  /\ overlay.at = "running"
  /\ overlay' = [at |-> "unloaded", configured |-> FALSE]
  /\ preparing' = NotPreparing
  /\ UNCHANGED <<configuring, atlas>>

UninstallCapture ==
  /\ Unloads
  /\ detours' = NoDetours
  /\ catcher' = NoCatcher
  /\ told' = {}

\* A hook that is not removed may have been disabled; the one of CalcTextSize comes second.
UninstallFails ==
  /\ Unloads
  /\ \/ /\ detours.render # "off"
        /\ detours' \in {detours, [detours EXCEPT !.render = "disabled"]}
     \/ /\ detours.calc # "off"
        /\ detours' \in {[detours EXCEPT !.render = "off"], [render |-> "off", calc |-> "disabled"]}
  /\ told' = told \cup preparing.text
  /\ UNCHANGED catcher

OverlayNext ==
  \/ InstallCapture \/ InstallFails \/ LoadAgain
  \/ \E text \in Drawn, ended \in BOOLEAN : Draw(text, ended)
  \/ FontsFound \/ FontsNotFound
  \/ ConfigureWaits \/ Configured \/ ConfigureFailsHalfway \/ ConfigureSpoiled
  \/ PollStarts \/ PollCannotStart \/ PollTellsFailure \/ PollApplies \/ PollFailsHalfway \/ PollSpoiled
  \/ UninstallCapture \/ UninstallFails

(***************************************************************************)
(* The keyboard: submit_utf16_code_unit, for the messages that the hook of  *)
(* the message handler takes as input (WM_IME_CHAR with the editor open,    *)
(* WM_CHAR without it).                                                     *)
(***************************************************************************)
IsHigh(unit) == unit \in 55296 .. 56319
IsLow(unit) == unit \in 56320 .. 57343
PairOf(high, low) == 65536 + (high - 55296) * 1024 + (low - 56320)

Submits(unit) ==
  IF unit > 65535 \/ unit = 0 \/ IsHigh(unit) THEN << >>
  ELSE IF ~IsLow(unit) THEN <<unit>>
  ELSE IF typing.pending # 0 THEN <<PairOf(typing.pending, unit)>> ELSE << >>

TypeUnit(unit) ==
  /\ Len(typing.units) < MaxUnits
  /\ typing' = [pending |-> IF IsHigh(unit) THEN unit ELSE 0,
                units |-> Append(typing.units, unit),
                submitted |-> typing.submitted \o Submits(unit)]

(***************************************************************************)
(* The decoding of any text, apart from what has been drawn before.         *)
(***************************************************************************)
NotProbed == <<0>>
ProbeInit == probe \in [text : Probes, found : {NotProbed}]
ProbeText == probe.found = NotProbed /\ probe' = [probe EXCEPT !.found = CharactersOf(probe.text)]

(***************************************************************************)
(* Properties.                                                              *)
(***************************************************************************)
InQueue == UNION ToSet(catcher.queue)
OnAtlas == {c \in DOMAIN FontOf : FontOf[c] \in atlas \cup {NoFont}}

\* A character is looked up once, the first time that it is drawn.  From then on it waits, is being
\* prepared, is on the atlas (or in no font at all), or its loss was told by a call that failed: full
\* queues, failed tasks, locked atlases and hooks that cannot be removed lose none in silence.
CharactersAreAccountedFor ==
  /\ catcher.seen \subseteq InQueue \cup preparing.text \cup OnAtlas \cup told
  /\ \A i, j \in DOMAIN catcher.queue : i # j => catcher.queue[i] \cap catcher.queue[j] = {}
  /\ preparing.text \cap InQueue = {}

\* Reference: the scalar value that a text encodes at a place, by the value of its bits, or 0.
ScalarAt(text, at) ==
  LET Lead(n) == <<0, 192, 224, 240>>[n]
      Fits(n) == /\ Continued(text, at, n)
                 /\ text[at] \in Lead(n) .. Lead(n) + 2 ^ (7 - n) - 1
      Value(n) == FoldLeft(LAMBDA v, b : v * 64 + b - 128, text[at] - Lead(n), SubSeq(text, at + 1, at + n - 1))
      Least(n) == <<0, 128, 2048, 65536>>[n]
      IsScalar(n) == Fits(n) /\ Value(n) \in Least(n) .. 1114111 /\ Value(n) \notin 55296 .. 57343
  IN IF \E n \in 2 .. 4 : IsScalar(n) THEN Value(CHOOSE n \in 2 .. 4 : IsScalar(n)) ELSE 0

\* Reference: the character that ends with a message, or 0.
TypedAt(units, at) ==
  LET unit == units[at]
  IN IF IsLow(unit) THEN IF at > 1 /\ IsHigh(units[at - 1]) THEN PairOf(units[at - 1], unit) ELSE 0
     ELSE IF IsHigh(unit) \/ unit > 65535 THEN 0 ELSE unit

NonZero(s) == SelectSeq(s, LAMBDA v : v # 0)

\* Of any bytes, exactly the well-formed encodings are found, wherever they stand; of any messages,
\* exactly the characters and the pairs that follow each other are submitted.
CharactersAreExact ==
  /\ probe.found # NotProbed => probe.found = NonZero([i \in DOMAIN probe.text |-> ScalarAt(probe.text, i)])
  /\ typing.submitted = NonZero([i \in DOMAIN typing.units |-> TypedAt(typing.units, i)])

\* Every character that is drawn or typed gets through, as itself, or its loss is told.
TextGetsThrough == CharactersAreAccountedFor /\ CharactersAreExact
=============================================================================
