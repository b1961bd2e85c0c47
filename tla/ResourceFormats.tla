-------------------------- MODULE ResourceFormats --------------------------
(***************************************************************************)
(* What the SimpleAssets runtime accepts before it registers a resource     *)
(* (loading/), and the numbers and names it hands to the engine: the packed *)
(* stream range of a video or texture, the identity of a stream, and the    *)
(* carrier path relative to the bundle directory.  Pure functions; a        *)
(* behaviour asks one question and gets its answer.                         *)
(***************************************************************************)
EXTENDS Integers, Sequences, SequencesExt

CONSTANTS
  Word,             \* 2^32: the size of a half of a packed stream range
  HeaderSize,       \* SA_IVF_HEADER_SIZE
  FrameHeaderSize,  \* SA_IVF_FRAME_HEADER_SIZE
  Envelope,         \* the 12 bytes before a texture's payload
  Accumulator,      \* 2^32: the accumulator of the stream identity
  Versions,         \* the version each versioned resource type must have
  GameRoot,         \* the installation directory, a sequence of characters
  Questions         \* the questions of the instance

VARIABLES asked, answer

formatVars == <<asked, answer>>

Refused == [accepted |-> FALSE]

(***************************************************************************)
(* Stream ranges: the length in the upper half, the start in the lower one. *)
(***************************************************************************)
Pack(length, start) == ((length * Word) % (Word * Word)) + start
Length(range) == range \div Word
Start(range) == range % Word

\* Mutant: the size of the whole file is compared, less than what is packed may still not fit.
TooLongAtAll(file) == FALSE

\* The size that goes into the range does not fit its half.
TooLong(file) ==
  CASE file.kind = "ivf" -> file.size - HeaderSize > Word - 1
    [] file.kind = "bk2" -> file.size > Word - 1
    [] OTHER -> file.stream > Word - 1

\* sa_parse_ivf_resource: the header of a VP8 file, and the record of its first frame.
IvfHeader(file) ==
  /\ file.signature
  /\ file.width # 0 /\ file.height # 0 /\ file.rate # 0 /\ file.scale # 0 /\ file.frames # 0
  /\ file.rate % file.scale = 0
  /\ file.rate \div file.scale # 0

FirstFrame(file) == file.first # 0 /\ file.first <= file.size - HeaderSize - FrameHeaderSize

ParseIvf(file) ==
  IF /\ file.size >= HeaderSize + FrameHeaderSize
     /\ ~TooLong(file)
     /\ IvfHeader(file)
     /\ FirstFrame(file)
  THEN [accepted |-> TRUE, range |-> Pack(file.size - HeaderSize, HeaderSize), rate |-> file.rate \div file.scale]
  ELSE Refused

\* sa_parse_bk2_resource: a signature of four bytes, of which three are compared.
ParseBk2(file) ==
  IF file.size >= 4 /\ ~TooLong(file) /\ file.signature
  THEN [accepted |-> TRUE, range |-> Pack(file.size, 0)]
  ELSE Refused

\* sa_validate_texture_data: a compressed size of 0 says that the payload is not compressed.
TextureData(file) ==
  /\ file.size > Envelope
  /\ \/ file.compressed = 0
     \/ file.compressor \in {1, 2} /\ file.compressed <= file.size - Envelope

\* simple_assets_texture_resource_load: a stream path and its size come together or not at all.
ParseTexture(file) ==
  IF (~file.hasPath <=> file.stream = 0) /\ ~TooLong(file) /\ TextureData(file)
  THEN [accepted |-> TRUE, range |-> IF file.hasPath THEN Pack(file.stream, 0) ELSE 0]
  ELSE Refused

\* sa_validate_resource_data: fonts and albums name their block, versioned types their version.
ParseData(file) ==
  IF /\ file.size # 0
     /\ file.type = "slug" => file.size >= 12 /\ file.signature
     /\ file.type \in DOMAIN Versions => file.size >= 4 /\ file.version = Versions[file.type]
  THEN [accepted |-> TRUE]
  ELSE Refused

(***************************************************************************)
(* sa_format_resource_stream_identity: the bytes of the key, six bits to a  *)
(* character.  Characters are the numbers 0 .. 63.                          *)
(***************************************************************************)
\* One byte more: the characters taken from the accumulator while it holds six bits.
Shift(state, byte) ==
  LET accumulator == ((state.accumulator * 256) % Accumulator) + byte
      bits == state.bits + 8
      taken == [i \in 1 .. bits \div 6 |-> (accumulator \div 2 ^ (bits - 6 * i)) % 64] IN
  [accumulator |-> accumulator, bits |-> bits % 6, text |-> state.text \o taken]

Shifted(bytes) == FoldLeft(Shift, [accumulator |-> 0, bits |-> 0, text |-> << >>], bytes)

IdentityOf(bytes) ==
  LET all == Shifted(bytes) IN
  IF all.bits = 0 THEN all.text
  ELSE Append(all.text, (all.accumulator * 2 ^ (6 - all.bits)) % 64)

(***************************************************************************)
(* sa_make_bundle_relative_path: both paths are final paths by then.        *)
(* Characters are compared without regard to case.                          *)
(***************************************************************************)
Lower(c) == IF c = "A" THEN "a" ELSE c
Folded(path) == [i \in DOMAIN path |-> Lower(path[i])]

InsideRoot(path) ==
  /\ Len(path) > Len(GameRoot)
  /\ Folded(SubSeq(path, 1, Len(GameRoot))) = Folded(GameRoot)
  /\ path[Len(GameRoot) + 1] = "\\"

\* From the bundle directory, which is beside binaries in the installation directory.
RelativePath(path) ==
  IF InsideRoot(path)
  THEN [accepted |-> TRUE, path |-> <<"..", "\\">> \o SubSeq(path, Len(GameRoot) + 2, Len(path))]
  ELSE Refused

(***************************************************************************)
Answer ==
  CASE asked.kind = "ivf" -> ParseIvf(asked)
    [] asked.kind = "bk2" -> ParseBk2(asked)
    [] asked.kind = "texture" -> ParseTexture(asked)
    [] asked.kind = "data" -> ParseData(asked)
    [] asked.kind = "identity" -> [accepted |-> TRUE, pair |-> [i \in 1 .. 2 |-> IdentityOf(asked.bytes[i])]]
    [] OTHER -> RelativePath(asked.path)

NoAnswer == [accepted |-> FALSE, asked |-> TRUE]

FormatInit == asked \in Questions /\ answer = NoAnswer
FormatNext == answer = NoAnswer /\ answer' = Answer /\ UNCHANGED asked
FormatSpec == FormatInit /\ [][FormatNext]_formatVars

(***************************************************************************)
(* Properties.                                                              *)
(***************************************************************************)
Accepted(kinds) == asked.kind \in kinds /\ answer.accepted

\* The numbers the engine is given are true of the files: a stream range lies inside the file, is
\* never empty, and reaches its end; the first frame of a video with its header lies inside the range.
RangesStayInFiles ==
  /\ Accepted({"ivf", "bk2"}) =>
       /\ Length(answer.range) > 0
       /\ Start(answer.range) + Length(answer.range) = asked.size
  /\ Accepted({"ivf"}) => Start(answer.range) + FrameHeaderSize + asked.first <= asked.size /\ answer.rate > 0
  /\ Accepted({"texture"}) => (Length(answer.range) = asked.stream) /\ (answer.range # 0 <=> asked.hasPath)

\* The names the engine is given are those of one file: different keys have different identities, of
\* the length the path-join hook insists on, and a relative path leads back into the installation.
NamesAreExact ==
  /\ Accepted({"identity"}) =>
       /\ asked.bytes[1] # asked.bytes[2] => answer.pair[1] # answer.pair[2]
       /\ \A i \in 1 .. 2 : Len(answer.pair[i]) = (8 * Len(asked.bytes[i]) + 5) \div 6
  /\ Accepted({"path"}) => Folded(GameRoot \o <<"\\">> \o SubSeq(answer.path, 3, Len(answer.path))) = Folded(asked.path)

\* The engine is told the truth about the files it is given: their ranges and their names.
FilesAreDescribed == RangesStayInFiles /\ NamesAreExact
=============================================================================
