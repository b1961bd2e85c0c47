----------------------------- MODULE NativesMC -----------------------------
(***************************************************************************)
(* The native libraries behind the mods, checked side by side: an execution *)
(* registers, replaces or loads resources of SimpleAssets, asks what it     *)
(* accepts and hands to the engine, patches code, captures the game's log,  *)
(* asks where a place of the game is, serves the pipe of dt-cli, or draws,  *)
(* decodes or types the text of the overlay; the other parts rest.  Loading *)
(* reaches the tables only through what ResourceMap promises of them.       *)
(***************************************************************************)
EXTENDS ResourceIndex, ResourceLoading, ResourceFormats, CodePatches, GameLog, CodeSearch, PipeServer, FontPatch

CONSTANTS r1, r2, r3, r4, r5, h1, h2

\* r5 has the key of r1; r1 and r2 share a stream path; the homes crowd around the end of the table.
MCKey(r) == CASE r \in {r1, r5} -> "k1" [] r = r2 -> "k2" [] r = r3 -> "k3" [] OTHER -> "k4"
MCPath(r) == CASE r \in {r1, r2} -> "p" [] r = r3 -> "q" [] OTHER -> NoPath
MCHash(k) == CASE k = "k1" -> 3 [] k = "k2" -> 7 [] k = "k3" -> 0 [] k = "k4" -> 4 [] k = "p" -> 6 [] OTHER -> 2

MCVersions == [unit |-> 115, material |-> 61, particles |-> 102]
MCRoot == <<"a", "x">>

\* Sizes on both sides of the header, of the first frame's record and of what half a range holds.
MCQuestions ==
  [kind : {"ivf"}, size : 5 .. 21, signature : {TRUE}, width : {0, 1}, height : {1}, rate : {0, 2, 3}, scale : 0 .. 2,
   frames : {1}, first : 0 .. 14]
  \cup [kind : {"bk2"}, size : 0 .. 20, signature : BOOLEAN]
  \cup [kind : {"texture"}, size : 0 .. 5, compressor : 0 .. 3, compressed : 0 .. 4, hasPath : BOOLEAN, stream : 0 .. 18]
  \cup [kind : {"data"}, size : {0, 3, 4, 11, 12}, type : {"slug", "unit", "state_machine"}, signature : BOOLEAN,
        version : {115, 116}]
  \cup [kind : {"identity"}, bytes : {<<a, b>> : a, b \in {<<x, y>> : x, y \in {0, 1, 128, 255}}}]
  \cup [kind : {"path"}, path : UNION {[1 .. n -> {"a", "A", "x", "\\"}] : n \in 1 .. 4}]

\* A batch of two hooks and one of the second alone.
MCBatches == {<<h1, h2>>, <<h2>>}

\* A line, an empty line, half a line, and a line longer than a record.
MCTexts == {<<97, NewLine>>, <<NewLine>>, <<97, 98, 99>>, <<97, 98, 99, 100, NewLine>>}

(***************************************************************************)
(* Images.  Tables of four fragments behind each other, and with entries    *)
(* that begin alike or come twice; every entry is chained to any other, is  *)
(* a root, or cannot be read.                                               *)
(***************************************************************************)
Entry(begin, end, unwind) == [begin |-> begin, end |-> end, unwind |-> unwind]
Unwind(version, parent) == [version |-> version, parent |-> parent]
Apart == <<Entry(0, 2, 1), Entry(2, 3, 2), Entry(3, 4, 3), Entry(5, 6, 4)>>
Alike == <<Entry(0, 1, 1), Entry(0, 2, 2), Entry(2, 3, 3), Entry(3, 4, 4), Entry(3, 4, 4)>>

Chained(t) ==
  [size : {7}, table : {t},
   unwind : [1 .. 4 -> {Unwind(1, NoParent), Unwind(3, NoParent)} \cup {Unwind(1, p) : p \in ToSet(t)}]]

\* Code whose bytes are also addresses and the first bytes of instructions, strings inside of strings,
\* and pointers on both sides of their alignment.
MCCode == {<<6, 11, 0, 5, 1, 0, 6, 12, 5, 4>>, <<5, 6, 11, 6, 17, 33, 11, 6, 11, 34>>,
           <<33, 11, 5, 4, 6, 17, 5, 4, 6, 17>>, <<6, 12, 5, 6, 12, 33, 17, 6, 17, 0>>}
MCData == <<41, 42, 0, 0, 11, 0, 41, 0, 11, 0>>
MCSection(name, start, size, flags) == [name |-> name, start |-> start, size |-> size, flags |-> flags]
MCFragments == <<Entry(1, 4, 1), Entry(4, 7, 2), Entry(7, 9, 3)>>

MCImages ==
  {[size |-> 21, cells |-> code \o MCData, table |-> MCFragments,
    unwind |-> <<Unwind(1, NoParent), Unwind(1, NoParent), Unwind(2, MCFragments[1])>>,
    sections |-> <<MCSection(".text", 1, 10, {"r", "x"}), MCSection(".rdata", 11, 8, {"r"}),
                   MCSection(".data", 19, 2, {"r", "w"})>>] : code \in MCCode}

Step(op) == [AnyStep EXCEPT !.op = op]

MCSources ==
  {[Step("string") EXCEPT !.text = t, !.max = m] : t \in {<<41, 42>>, <<42>>, <<41>>}, m \in {0, 1}}
  \cup {[Step("prefix") EXCEPT !.text = <<41>>, !.section = n] : n \in {"", ".data", ".none"}}
  \cup {[Step("pattern") EXCEPT !.text = t] : t \in {<<6, Wildcard>>, <<Wildcard, Wildcard>>, <<Bad>>, <<5>>}}
  \cup {[Step("address") EXCEPT !.address = a] : a \in {4, 8, 12, 30}}

MCFewSources == {[Step("string") EXCEPT !.text = <<42>>], [Step("prefix") EXCEPT !.text = <<41>>],
                 [Step("pattern") EXCEPT !.text = <<6, Wildcard>>], [Step("address") EXCEPT !.address = 4]}

MCTransforms ==
  {Step("slots"), Step("references"), Step("functions"), Step("isCall"), Step("call"), Step("callTargets"), Step("inSection"),
   [Step("references") EXCEPT !.mnemonic = "lea"], [Step("ripTargets") EXCEPT !.mnemonic = "mov"],
   [Step("near") EXCEPT !.pattern = <<6, Wildcard>>, !.range = 3],
   [Step("near") EXCEPT !.pattern = <<5>>, !.range = 9, !.displacement = 1],
   [Step("offset") EXCEPT !.displacement = 2], [Step("offset") EXCEPT !.displacement = -4],
   [Step("calledBy") EXCEPT !.address = 7], [Step("calledBy") EXCEPT !.address = 10],
   [Step("hasNear") EXCEPT !.text = <<Wildcard, 12>>], [Step("hasInFunction") EXCEPT !.text = <<5>>, !.range = 5],
   [Step("inSection") EXCEPT !.section = ".rdata"], [Step("inSection") EXCEPT !.flags = {"w"}],
   [Step("entries") EXCEPT !.max = 1]}

MCLocators == {<<a>> : a \in MCSources} \cup {<<a, b>> : a \in MCSources, b \in MCTransforms \cup MCFewSources}

MCAnchors == {<<41, 42>>, <<42>>, <<41>>, << >>}

MCQueries ==
  [kind : {"containing"}, image : Chained(Apart) \cup Chained(Alike), address : 0 .. 6]
  \cup [kind : {"address", "function"}, image : MCImages, steps : MCLocators, accepts : {0 .. 21, {7, 11}}]
  \cup [kind : {"address"}, image : MCImages, accepts : {0 .. 21},
        steps : {<<a, b, c>> : a \in MCFewSources, b \in MCTransforms, c \in MCTransforms}]
  \cup [kind : {"strings"}, image : MCImages, anchors : {<<a>> : a \in MCAnchors} \cup {<<a, b>> : a, b \in MCAnchors}]

\* Characters of one font, of another and of none; texts that are too long or end inside a character.
MCEAcute == <<195, 169>>
MCHan == <<228, 189, 160>>
MCCheck == <<226, 156, 147>>
MCEmoji == <<240, 159, 152, 128>>
MCFonts == 233 :> "f1" @@ 20320 :> "f2" @@ 10003 :> "f1" @@ 128512 :> NoFont
MCDrawn == {MCEAcute, <<97>> \o MCEAcute \o MCHan, MCCheck \o <<226, 156>>, MCEmoji, MCEAcute \o MCEmoji}

\* Bytes on both sides of every boundary of UTF-8, and code units on both sides of the surrogates.
MCLeads == {126, 128, 193, 194, 223, 224, 225, 237, 238, 239, 240, 241, 244, 245}
MCProbes == UNION {{<<b>> \o t : b \in MCLeads, t \in [1 .. n -> {127, 128, 143, 144, 159, 160, 191, 192}]} : n \in 0 .. 3}
MCUnits == {0, 65, 55296, 56319, 56320, 57343, 57344, 65536}

(***************************************************************************)
VARIABLE part
assetVars == <<indexVars, loadingVars, formatVars>>
nativeVars == <<patchVars, logVars, searchVars, pipeVars, fontVars>>
vars == <<part, assetVars, nativeVars>>

RestingQuery == [kind |-> "strings", image |-> << >>, anchors |-> << >>]

Init ==
  /\ part \in {"registering", "replacing", "loading", "format", "patches", "log", "search", "pipe", "overlay", "typing",
              "probing"}
  /\ IndexInit
  /\ LoadingInit
  /\ IF part = "format" THEN asked \in Questions ELSE asked = [kind |-> "path", path |-> <<"a">>]
  /\ answer = NoAnswer
  /\ PatchInit
  /\ LogInit
  /\ IF part = "search" THEN query \in Queries ELSE query = RestingQuery
  /\ reply = NoReply
  /\ PipeInit
  /\ OverlayInit
  /\ typing = NothingTyped
  /\ IF part = "probing" THEN ProbeInit ELSE probe = [text |-> << >>, found |-> NotProbed]

OnlyRegistered == sourceOf' = sourceOf /\ tables'["replacement"] = NoTable
OnlyReplaced == dataOf' = dataOf /\ \A t \in Table \ {"replacement"} : tables'[t] = NoTable

Next ==
  /\ UNCHANGED part
  /\ \/ part = "registering" /\ IndexNext /\ OnlyRegistered /\ UNCHANGED <<loadingVars, formatVars, nativeVars>>
     \/ part = "replacing" /\ IndexNext /\ OnlyReplaced /\ UNCHANGED <<loadingVars, formatVars, nativeVars>>
     \/ part = "loading" /\ LoadingNext /\ UNCHANGED <<indexVars, formatVars, nativeVars>>
     \/ part = "format" /\ FormatNext /\ UNCHANGED <<indexVars, loadingVars, nativeVars>>
     \/ part = "patches" /\ PatchNext /\ UNCHANGED <<assetVars, logVars, searchVars, pipeVars, fontVars>>
     \/ part = "log" /\ LogNext /\ UNCHANGED <<assetVars, patchVars, searchVars, pipeVars, fontVars>>
     \/ part = "search" /\ SearchNext /\ UNCHANGED <<assetVars, patchVars, logVars, pipeVars, fontVars>>
     \/ part = "pipe" /\ PipeNext /\ UNCHANGED <<assetVars, patchVars, logVars, searchVars, fontVars>>
     \/ /\ UNCHANGED <<assetVars, patchVars, logVars, searchVars, pipeVars>>
        /\ \/ part = "overlay" /\ OverlayNext /\ UNCHANGED <<typing, probe>>
           \/ part = "typing" /\ (\E unit \in CodeUnits : TypeUnit(unit)) /\ UNCHANGED <<overlayVars, probe>>
           \/ part = "probing" /\ ProbeText /\ UNCHANGED <<overlayVars, typing>>

\* The game polls every frame, every goroutine runs, and a read of a closed connection fails; a read
\* of an open one may wait for ever.
Serves(A) == part = "pipe" /\ A /\ UNCHANGED <<part, assetVars, patchVars, logVars, searchVars, fontVars>>

PipeFairness ==
  /\ WF_vars(Serves(GameStep))
  /\ WF_vars(Serves(AddConn))
  /\ WF_vars(Serves(AcceptEnds))
  /\ \A c \in Connection : WF_vars(Serves(HandlerRuns(c))) /\ WF_vars(Serves(ReadFails(c) /\ c \in severed))

Spec == Init /\ [][Next]_vars /\ PipeFairness
=============================================================================
