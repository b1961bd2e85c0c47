----------------------------- MODULE CodeSearch -----------------------------
(***************************************************************************)
(* How darktide-internal-utils finds the places of the game it patches      *)
(* (scan.c, memory.c, locator*.c, and the search by strings of analysis.c). *)
(* A locator starts from the places of a string, a pattern or an address,   *)
(* and each of its steps turns the candidates into others or drops some;    *)
(* after every step their number has to be within the step's bounds, and at *)
(* the end there must be one.  The behaviour asks one question about one    *)
(* image and gets its answer.                                               *)
(*   cells     the bytes of the image, the first one at address 1           *)
(*   sections  name, start, size and what the section may be used for       *)
(* A byte is a small number, so an address fits into one cell; a pointer    *)
(* takes two.  The decoder is the external Zydis: an instruction is its     *)
(* first byte and, for those that name an address, the cell behind it.      *)
(***************************************************************************)
EXTENDS FunctionTable

CONSTANTS
  CallByte, LeaByte, MovByte, BadByte,  \* the first bytes of instructions the searches tell apart
  Wildcard,              \* DTINTUTILS_MNEMONIC_ANY, and the wildcard of a pattern
  Bad, NoText,      \* what is no byte of a pattern; a step without a text
  MaxPattern,       \* DTINTUTILS_MAX_IDA_PATTERN_BYTES
  MaxSteps,         \* DTINTUTILS_LOCATOR_MAX_STEPS
  MaxCandidates,    \* DTINTUTILS_LOCATOR_MAX_CANDIDATES
  MaxReferences,    \* DTINTUTILS_EXACT_STRING_MAX_REFERENCES
  Queries           \* the questions of the instance

VARIABLES query, reply

searchVars == <<query, reply>>

PointerSize == 2
\* The addresses of a range in order.
From(start, size) == [i \in 1 .. size |-> start + i - 1]
Flat(lists) == FoldLeft(LAMBDA all, list : all \o list, << >>, lists)
Distinct(list) == FoldLeft(LAMBDA all, a : IF a \in ToSet(all) THEN all ELSE Append(all, a), << >>, list)

(***************************************************************************)
(* The image.                                                               *)
(***************************************************************************)
EndOf(section) == section.start + section.size

SectionNamed(im, name) == SelectSeq(im.sections, LAMBDA s : s.name = name)
SectionAt(im, address) == SelectSeq(im.sections, LAMBDA s : address \in s.start .. EndOf(s) - 1)

Executable(im, address) == LET s == SectionAt(im, address) IN s # << >> /\ "x" \in s[1].flags

\* Sections that may hold strings.
IsData(section) == "r" \in section.flags /\ "x" \notin section.flags

Matches(im, address, pattern) == \A i \in DOMAIN pattern : pattern[i] \in {Wildcard, im.cells[address + i - 1]}

\* Every place of a range where a pattern lies, overlaps included.
Hits(im, start, size, pattern) ==
  IF pattern = << >> \/ size < Len(pattern) THEN << >>
  ELSE SelectSeq(From(start, size - Len(pattern) + 1), LAMBDA a : Matches(im, a, pattern))

SectionHits(im, section, pattern) == Hits(im, section.start, section.size, pattern)

DataHits(im, pattern) == Flat([i \in DOMAIN im.sections |->
  IF IsData(im.sections[i]) THEN SectionHits(im, im.sections[i], pattern) ELSE << >>])

\* A string is exact with the zero behind it.
ExactStrings(im, text) == DataHits(im, Append(text, 0))

\* Slots lie on multiples of the pointer's size from the section's start.
PointerSlots(im, target) == Flat([i \in DOMAIN im.sections |->
  LET s == im.sections[i] IN
  IF IsData(s) /\ s.name \in {".rdata", ".data"}
  THEN SelectSeq(SectionHits(im, s, <<target, 0>>), LAMBDA a : (a - s.start) % PointerSize = 0)
  ELSE << >>])

(***************************************************************************)
(* Instructions.                                                            *)
(***************************************************************************)
NotDecoded == [length |-> 0]

\* The external decoder, given the bytes before `end`.
Decode(im, address, end) ==
  LET byte == im.cells[address] IN
  CASE byte = BadByte -> NotDecoded
    [] byte \in {CallByte, LeaByte, MovByte} ->
         IF address + 1 < end
         THEN [length |-> 2, mnemonic |-> CASE byte = CallByte -> "call" [] byte = LeaByte -> "lea" [] OTHER -> "mov",
               operand |-> IF byte = CallByte THEN "immediate" ELSE "rip", target |-> im.cells[address + 1], at |-> address]
         ELSE NotDecoded
    [] OTHER -> [length |-> 1, mnemonic |-> "other", operand |-> "none", at |-> address]

\* The instructions of a range, one after the other; a byte that starts none is stepped over.
Instructions(im, start, end) ==
  LET from[a \in start .. end + 1] ==
        IF a >= end THEN << >>
        ELSE LET i == Decode(im, a, end) IN
             IF i.length = 0 THEN from[a + 1] ELSE <<i>> \o from[a + i.length]
  IN from[start]

RipReferences(im, section, target, mnemonic) ==
  LET refers(i) == i.operand = "rip" /\ i.target = target /\ mnemonic \in {Wildcard, i.mnemonic}
      all == SelectSeq(Instructions(im, section.start, EndOf(section)), refers) IN
  [i \in DOMAIN all |-> all[i].at]

\* The functions called, each once, those outside of code left out.
CallTargets(im, f) ==
  LET calls == SelectSeq(Instructions(im, f.start, f.end), LAMBDA i : i.operand = "immediate" /\ Executable(im, i.target)) IN
  Distinct([i \in DOMAIN calls |-> calls[i].target])

RipTargets(im, f, mnemonic) ==
  LET named(i) == i.operand = "rip" /\ mnemonic \in {Wildcard, i.mnemonic} /\ SectionAt(im, i.target) # << >>
      all == SelectSeq(Instructions(im, f.start, f.end), named) IN
  [i \in DOMAIN all |-> all[i].target]

\* The target of the call at an address, as a list of none or one.
DirectCall(im, address) ==
  LET s == SectionAt(im, address)
      i == Decode(im, address, EndOf(s[1])) IN
  IF s # << >> /\ i.length # 0 /\ i.operand = "immediate" /\ Executable(im, i.target) THEN <<i.target>> ELSE << >>

(***************************************************************************)
(* Lists of candidates: each address once, and never more than the limit.   *)
(***************************************************************************)
Failed(why) == [ok |-> FALSE, why |-> why]
Listed(items) == [ok |-> TRUE, items |-> items]
NoCandidates == Listed(<< >>)

Added(list, hits) ==
  IF ~list.ok THEN list
  ELSE LET items == Distinct(list.items \o hits) IN
       IF Len(items) > MaxCandidates THEN Failed("limit") ELSE Listed(items)

\* Mutant: what does not fit into the buffer of a scan is forgotten.
AddedAsFits(list, hits) == Added(list, SubSeq(hits, 1, IF Len(hits) > MaxCandidates THEN MaxCandidates ELSE Len(hits)))

\* The hits of a scan go through a buffer of as many.
AddedScan(list, hits) == IF list.ok /\ Len(hits) > MaxCandidates THEN Failed("limit") ELSE Added(list, hits)

(***************************************************************************)
(* The steps.                                                               *)
(***************************************************************************)
\* The bytes of a pattern, written as a text or given raw, or none when it is not valid.
ParsePattern(text) == IF Len(text) <= MaxPattern /\ Bad \notin ToSet(text) THEN text ELSE << >>

ResolvePattern(step) ==
  IF step.text # NoText THEN IF step.pattern = << >> THEN ParsePattern(step.text) ELSE << >>
  ELSE IF Len(step.pattern) <= MaxPattern THEN step.pattern ELSE << >>

SectionOf(im, step) == SectionNamed(im, IF step.section = "" THEN ".text" ELSE step.section)

PrefixHits(im, step) ==
  IF step.section # ""
  THEN IF SectionNamed(im, step.section) = << >> THEN Failed("refused")
       ELSE AddedScan(NoCandidates, SectionHits(im, SectionNamed(im, step.section)[1], step.text))
  ELSE FoldLeft(LAMBDA list, s : IF IsData(s) THEN AddedScan(list, SectionHits(im, s, step.text)) ELSE list,
                NoCandidates, im.sections)

HasText(step) == step.text # NoText /\ step.text # << >>

Source(im, step) ==
  CASE step.op = "string" /\ HasText(step) -> AddedScan(NoCandidates, ExactStrings(im, step.text))
    [] step.op = "prefix" /\ HasText(step) -> PrefixHits(im, step)
    [] step.op = "pattern" /\ SectionOf(im, step) # << >> /\ ResolvePattern(step) # << >> ->
         AddedScan(NoCandidates, SectionHits(im, SectionOf(im, step)[1], ResolvePattern(step)))
    [] step.op = "address" /\ SectionAt(im, step.address) # << >> -> Listed(<<step.address>>)
    [] OTHER -> Failed("refused")

Inside(im, address) == address \in 0 .. im.size - 1

\* The part of a function a step searches for a candidate; empty when there is none.
SearchRange(im, step, address, f, fromStart) ==
  LET start == (IF fromStart THEN f.start ELSE address) + step.displacement
      size == IF step.range = 0 \/ step.range > f.end - start THEN f.end - start ELSE step.range IN
  IF f.found /\ Inside(im, start) /\ start \in f.start .. f.end - 1
  THEN [start |-> start, size |-> size] ELSE [start |-> 0, size |-> 0]

PatternIn(im, step, range) == Hits(im, range.start, range.size, ResolvePattern(step))

\* What a step makes of one candidate, which lies in function f or in none.
FruitsIn(im, step, a, f) ==
  LET keptIf(holds) == IF holds THEN <<a>> ELSE << >>
      near == PatternIn(im, step, SearchRange(im, step, a, f, step.op = "hasInFunction")) IN
  CASE step.op = "slots" -> PointerSlots(im, a)
    [] step.op = "references" -> RipReferences(im, SectionOf(im, step)[1], a, step.mnemonic)
    [] step.op = "functions" -> IF f.found THEN <<f.start>> ELSE << >>
    [] step.op = "near" -> near
    [] step.op = "offset" -> IF Inside(im, a) /\ Inside(im, a + step.displacement) THEN <<a + step.displacement>> ELSE << >>
    [] step.op = "isCall" -> keptIf(DirectCall(im, a) # << >>)
    [] step.op = "call" -> DirectCall(im, a)
    [] step.op = "callTargets" -> IF f.found THEN CallTargets(im, f) ELSE << >>
    [] step.op = "ripTargets" -> IF f.found THEN RipTargets(im, f, step.mnemonic) ELSE << >>
    [] step.op = "calledBy" -> keptIf(a \in ToSet(CallTargets(im, FunctionContaining(im, step.address))))
    [] step.op \in {"hasNear", "hasInFunction"} -> keptIf(near # << >>)
    [] step.op = "inSection" ->
         LET s == SectionAt(im, a) IN
         keptIf(s # << >> /\ step.section \in {"", s[1].name} /\ step.flags \subseteq s[1].flags)
    [] OTHER -> keptIf(f.found /\ f.start = a)

Fruits(im, step, a) == FruitsIn(im, step, a, FunctionContaining(im, a))

\* What is wrong with a step whatever the candidates; f is the function of the step's own address.
TroubleIn(im, step, f) ==
  CASE step.op = "references" /\ SectionOf(im, step) = << >> -> "refused"
    [] step.op = "near" /\ (step.range = 0 \/ ResolvePattern(step) = << >>) -> "refused"
    [] step.op \in {"hasNear", "hasInFunction"} /\ ResolvePattern(step) = << >> -> "refused"
    [] step.op = "inSection" /\ step.section = "" /\ step.flags = {} -> "refused"
    [] step.op = "calledBy" /\ ~f.found -> "refused"
    [] step.op = "calledBy" /\ Len(CallTargets(im, f)) > MaxCandidates -> "limit"
    [] OTHER -> "none"

Trouble(im, step) == TroubleIn(im, step, FunctionContaining(im, step.address))

Scans(step) == step.op \in {"slots", "references", "near", "callTargets"}

\* The hits of a scan go through a buffer.
Joined(step, list, hits) == IF Scans(step) THEN AddedScan(list, hits) ELSE Added(list, hits)

Transform(im, step, items, trouble) ==
  IF trouble # "none" THEN Failed(trouble)
  ELSE FoldLeft(LAMBDA list, a : Joined(step, list, Fruits(im, step, a)), NoCandidates, items)

Sources == {"string", "prefix", "pattern", "address"}

InBounds(step, count) == step.min <= count /\ (step.max # 0 => count <= step.max)

Bounded(step, next) == IF next.ok /\ ~InBounds(step, Len(next.items)) THEN Failed("refused") ELSE next

\* One step of a locator: the first one is a source and no other is.
Advanced(im, step, list, first) ==
  IF ~list.ok THEN list
  ELSE IF (step.max # 0 /\ step.max < step.min) \/ (first # (step.op \in Sources)) THEN Failed("refused")
  ELSE Bounded(step, IF first THEN Source(im, step) ELSE Transform(im, step, list.items, Trouble(im, step)))

Execute(im, steps) ==
  IF Len(steps) \notin 1 .. MaxSteps THEN Failed("refused")
  ELSE FoldLeft(LAMBDA list, i : Advanced(im, steps[i], list, i = 1), NoCandidates, [i \in DOMAIN steps |-> i])

Missing(why) == [found |-> FALSE, why |-> why]

\* The one candidate at the end, of those the caller's validator accepts.
OnlyAccepted(list, accepts) ==
  LET accepted == SelectSeq(list.items, LAMBDA a : a \in accepts) IN
  IF ~list.ok THEN Missing(list.why)
  ELSE IF Len(accepted) = 1 THEN [found |-> TRUE, address |-> accepted[1]]
  ELSE Missing("refused")

UniqueAddress(im, q) == OnlyAccepted(Execute(im, q.steps), q.accepts)

\* The address found has to be the start of a function.
StartOf(unique, f) ==
  IF ~unique.found THEN unique
  ELSE IF f.found /\ f.start = unique.address THEN [found |-> TRUE, address |-> f.start, function |-> f]
  ELSE Missing("refused")

FunctionAt(im, unique) == StartOf(unique, FunctionContaining(im, unique.address))

UniqueFunction(im, q) == FunctionAt(im, UniqueAddress(im, q))

(***************************************************************************)
(* dtintutils_find_unique_functions_by_exact_strings: the functions of      *)
(* several strings at once.  The text is not decoded in order: every place  *)
(* that looks like the LEA of a string's address counts.                    *)
(***************************************************************************)
Leas(im, target) ==
  LET text == SectionNamed(im, ".text")[1]
      is(a) == im.cells[a] = LeaByte /\ im.cells[a + 1] = target IN
  {a \in text.start .. EndOf(text) - 2 : is(a)}

FunctionsOf(im, places) == {FunctionContaining(im, a) : a \in places} \ {NoFunction}

HasFunction(im, anchor) ==
  LET strings == ExactStrings(im, anchor) IN
  /\ Len(strings) = 1
  /\ Cardinality(Leas(im, strings[1])) \in 1 .. MaxReferences
  /\ Cardinality(FunctionsOf(im, Leas(im, strings[1]))) = 1

FunctionOfString(im, anchor) == CHOOSE f \in FunctionsOf(im, Leas(im, ExactStrings(im, anchor)[1])) : TRUE

FunctionsByStrings(im, anchors) ==
  IF anchors # << >> /\ \A i \in DOMAIN anchors : HasFunction(im, anchors[i])
  THEN [found |-> TRUE, functions |-> [i \in DOMAIN anchors |-> FunctionOfString(im, anchors[i])]]
  ELSE Missing("refused")

(***************************************************************************)
Reply ==
  CASE query.kind = "containing" -> FunctionContaining(query.image, query.address)
    [] query.kind = "address" -> UniqueAddress(query.image, query)
    [] query.kind = "function" -> UniqueFunction(query.image, query)
    [] OTHER -> FunctionsByStrings(query.image, query.anchors)

NoReply == [found |-> FALSE, why |-> "asked"]

SearchInit == query \in Queries /\ reply = NoReply
SearchNext == reply = NoReply /\ reply' = Reply /\ UNCHANGED query
SearchSpec == SearchInit /\ [][SearchNext]_searchVars

(***************************************************************************)
(* Properties.                                                              *)
(***************************************************************************)
Replied == reply # NoReply

\* A function is found for an address exactly when one fragment lies around it whose chain ends at a
\* root; it is the same for every fragment of the root, and the address is inside of it.
FunctionsAreWhole ==
  Replied /\ query.kind = "containing" =>
    /\ FunctionsAt(query.image, query.address) = IF reply.found THEN {reply} ELSE {}
    /\ reply.found => query.address \in reply.start .. reply.end - 1

\* What justifies a candidate, said of one address: a source's place, or a step from a place before.
Starts(im, step, b) ==
  LET s == SectionAt(im, b)
      spells(text) == b + Len(text) <= EndOf(s[1]) /\ Matches(im, b, text) IN
  /\ s # << >>
  /\ CASE step.op = "string" -> IsData(s[1]) /\ spells(Append(step.text, 0))
       [] step.op = "prefix" -> (IF step.section = "" THEN IsData(s[1]) ELSE s[1].name = step.section) /\ spells(step.text)
       [] step.op = "pattern" ->
            /\ s[1].name = (IF step.section = "" THEN ".text" ELSE step.section)
            /\ ResolvePattern(step) # << >> /\ spells(ResolvePattern(step))
       [] OTHER -> b = step.address

\* f and g are the functions around a and b, caller the one around the step's address.
LeadsIn(im, step, a, b, f, g, caller) ==
  LET code(h) == ToSet(Instructions(im, h.start, h.end))
      calls(h, c) == h.found /\ Executable(im, c) /\ \E i \in code(h) : i.operand = "immediate" /\ i.target = c
      spells(from, c) ==
        LET p == ResolvePattern(step) IN
        /\ from + step.displacement \in f.start .. c /\ c + Len(p) <= f.end /\ Matches(im, c, p)
        /\ step.range # 0 => c + Len(p) <= from + step.displacement + step.range IN
  CASE step.op = "slots" ->
         \E s \in ToSet(im.sections), n \in 0 .. im.size :
           /\ IsData(s) /\ s.name \in {".rdata", ".data"}
           /\ b = s.start + PointerSize * n /\ b + 1 < EndOf(s)
           /\ im.cells[b] = a /\ im.cells[b + 1] = 0
    [] step.op = "references" ->
         LET s == SectionOf(im, step)[1] IN
         \E i \in ToSet(Instructions(im, s.start, EndOf(s))) :
           i.at = b /\ i.operand = "rip" /\ i.target = a /\ step.mnemonic \in {Wildcard, i.mnemonic}
    [] step.op = "functions" -> f.found /\ b = f.start
    [] step.op = "near" -> f.found /\ spells(a, b)
    [] step.op = "offset" -> b = a + step.displacement
    [] step.op = "isCall" -> b = a /\ DirectCall(im, a) # << >>
    [] step.op = "call" -> DirectCall(im, a) = <<b>>
    [] step.op = "callTargets" -> calls(f, b)
    [] step.op = "ripTargets" ->
         /\ f.found /\ SectionAt(im, b) # << >>
         /\ \E i \in code(f) : i.operand = "rip" /\ i.target = b /\ step.mnemonic \in {Wildcard, i.mnemonic}
    [] step.op = "calledBy" -> b = a /\ calls(caller, a)
    [] step.op = "hasNear" -> b = a /\ f.found /\ \E c \in f.start .. f.end : spells(a, c)
    [] step.op = "hasInFunction" -> b = a /\ f.found /\ \E c \in f.start .. f.end : spells(f.start, c)
    [] step.op = "inSection" -> b = a /\ \E s \in ToSet(im.sections) :
         /\ a \in s.start .. EndOf(s) - 1 /\ (step.section # "" => s.name = step.section) /\ step.flags \subseteq s.flags
    [] OTHER -> b = a /\ g.found /\ g.start = b

Leads(im, step, a, b) ==
  LeadsIn(im, step, a, b, FunctionContaining(im, a), FunctionContaining(im, b), FunctionContaining(im, step.address))

\* All that is justified after each step.
Justified(im, steps) ==
  LET after[i \in DOMAIN steps] ==
        IF i = 1 THEN {b \in 0 .. im.size - 1 : Starts(im, steps[1], b)}
        ELSE {b \in 0 .. im.size - 1 : \E a \in after[i - 1] : Leads(im, steps[i], a, b)}
  IN after

\* The last of the sets that the caller accepts, and whether every step was within its bounds.
Final(sets, q) == sets[Len(q.steps)] \cap q.accepts
WithinBounds(sets, q) == \A i \in DOMAIN q.steps : InBounds(q.steps[i], Cardinality(sets[i]))

Refusable(im, steps) ==
  \/ \E i \in DOMAIN steps : (i = 1) # (steps[i].op \in Sources)
  \/ \E i \in 2 .. Len(steps) : Trouble(im, steps[i]) # "none"

RightFrom(sets) ==
  /\ reply.found => WithinBounds(sets, query) /\ Final(sets, query) = {reply.address}
  /\ ~reply.found /\ reply.why # "limit" /\ query.kind = "address" =>
       \/ ~WithinBounds(sets, query) \/ Cardinality(Final(sets, query)) # 1
       \/ Refusable(query.image, query.steps)

\* A located address is the only one its steps justify, and every step was within its bounds: nothing
\* a scan found was cut off or counted twice, and the places in between never decide.  An address that
\* is justified like that is located, unless a limit was reached.
OnlyJustifiedIsLocated ==
  Replied /\ query.kind \in {"address", "function"} => RightFrom(Justified(query.image, query.steps))

\* The locator that finds the function of a string: the string, its references, their function.
AnyStep == [op |-> "", text |-> NoText, pattern |-> << >>, section |-> "", address |-> 0, displacement |-> 0, range |-> 0,
            mnemonic |-> Wildcard, flags |-> {}, min |-> 1, max |-> 0]
StringSteps(text) ==
  <<[AnyStep EXCEPT !.op = "string", !.text = text, !.max = 1],
    [AnyStep EXCEPT !.op = "references", !.mnemonic = "lea"],
    [AnyStep EXCEPT !.op = "functions", !.max = 1]>>

Agrees(other, f) == other.found => other.function = f

\* The two ways to find the function of a string never name different ones, though only one of them
\* decodes the text in order.
SearchesAgree ==
  Replied /\ query.kind = "strings" /\ reply.found =>
    \A i \in DOMAIN query.anchors :
      LET locator == [steps |-> StringSteps(query.anchors[i]), accepts |-> 0 .. query.image.size] IN
      Agrees(UniqueFunction(query.image, locator), reply.functions[i])

\* What the game is patched at is the only place that is meant: functions are found whole, located
\* addresses are the only ones that are justified, and both searches agree.
LocatedIsTheOnlyOne == FunctionsAreWhole /\ OnlyJustifiedIsLocated /\ SearchesAgree
=============================================================================
