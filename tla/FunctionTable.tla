--------------------------- MODULE FunctionTable ---------------------------
(***************************************************************************)
(* The function that contains an address of the game's image                *)
(* (darktide-internal-utils/src/analysis.c): the table of runtime functions *)
(* is searched for the one fragment around the address, the fragment's      *)
(* unwind data is followed to the root it was split from, and the function  *)
(* reaches from the root's begin to the last end of the root's fragments.   *)
(* Every operator takes the image it reads:                                 *)
(*   size      the first address behind the image, whose first one is 0     *)
(*   table     the runtime functions, by begin; several may begin alike     *)
(*   unwind    the unwind data: its version and the parent it is chained to *)
(***************************************************************************)
EXTENDS Integers, Sequences, FiniteSets, SequencesExt, FiniteSetsExt

CONSTANTS MaxDepth, NoParent

NoFunction == [found |-> FALSE]
Function(start, end) == [found |-> TRUE, start |-> start, end |-> end]

\* The number of leading entries that begin before an address, by bisection.
Bisect(im, address) ==
  LET search[lower \in 0 .. Len(im.table), upper \in 0 .. Len(im.table)] ==
        IF lower >= upper THEN lower
        ELSE LET middle == lower + (upper - lower) \div 2 IN
             IF im.table[middle + 1].begin < address THEN search[middle + 1, upper] ELSE search[lower, middle]
  IN search[0, Len(im.table)]

\* The entries behind `from` that begin where the first of them begins.
Group(im, from, begin) == {i \in from + 1 .. Len(im.table) : \A j \in from + 1 .. i : im.table[j].begin = begin}

\* A parent has to be in the table, exactly once.
Exists(im, entry) ==
  LET from == Bisect(im, entry.begin) IN
  Cardinality({i \in Group(im, from, entry.begin) : im.table[i] = entry}) = 1

Readable(im, entry) ==
  /\ entry.begin < entry.end /\ entry.end <= im.size
  /\ entry.unwind \in DOMAIN im.unwind
  /\ im.unwind[entry.unwind].version \in {1, 2}

\* A fragment lies behind its parent.
Follows(im, entry, parent) ==
  /\ parent.begin < parent.end /\ parent.end <= entry.begin
  /\ Exists(im, parent)
  /\ parent # entry

\* One link of the chain: stop at a root, fail at what cannot be read, or go on at the parent.
Climb(im, chain) ==
  IF chain.state # "climbing" THEN chain
  ELSE IF ~Readable(im, chain.at) THEN [chain EXCEPT !.state = "failed"]
  ELSE LET parent == im.unwind[chain.at.unwind].parent IN
       IF parent = NoParent THEN [chain EXCEPT !.state = "root"]
       ELSE IF Follows(im, chain.at, parent) THEN [chain EXCEPT !.at = parent]
       ELSE [chain EXCEPT !.state = "failed"]

\* A chain longer than the limit has no root: its state is still "climbing".
Root(im, entry) ==
  FoldLeft(LAMBDA chain, i : Climb(im, chain), [state |-> "climbing", at |-> entry], [i \in 1 .. MaxDepth |-> i])

HasRoot(im, entry, root) == Root(im, entry) = [state |-> "root", at |-> root]

\* The entries around an address, among those with the last begin that is not behind it.
Around(im, address) ==
  LET past == Bisect(im, address + 1) IN
  IF past = 0 THEN {}
  ELSE {i \in 1 .. past : im.table[i].begin = im.table[past].begin /\ address < im.table[i].end}

FunctionContaining(im, address) ==
  LET around == Around(im, address)
      chain == Root(im, im.table[CHOOSE i \in around : TRUE])
      fragments == {i \in DOMAIN im.table : im.table[i].begin >= chain.at.begin /\ HasRoot(im, im.table[i], chain.at)}
      end == Max({im.table[i].end : i \in fragments}) IN
  IF /\ address \in 0 .. im.size - 1
     /\ Cardinality(around) = 1
     /\ chain.state = "root"
     /\ end <= im.size
  THEN Function(chain.at.begin, end)
  ELSE NoFunction

(***************************************************************************)
(* What a function is, said without the search: the ancestors of an entry   *)
(* are those a path of at most MaxDepth entries leads to.                   *)
(***************************************************************************)
ParentOf(im, entry) == im.unwind[entry.unwind].parent

Paths(im) ==
  {path \in UNION {[1 .. n -> ToSet(im.table)] : n \in 1 .. MaxDepth} :
     /\ \A i \in DOMAIN path : Readable(im, path[i])
     /\ \A i \in 1 .. Len(path) - 1 :
          /\ ParentOf(im, path[i]) = path[i + 1]
          /\ path[i + 1].end <= path[i].begin
          /\ Cardinality({j \in DOMAIN im.table : im.table[j] = path[i + 1]}) = 1
     /\ ParentOf(im, path[Len(path)]) = NoParent}

\* The pairs of an entry and the root of the function it is a fragment of.
Roots(im) == {<<path[1], path[Len(path)]>> : path \in Paths(im)}

\* None or one: the function of the only fragment around an address.
FunctionsAt(im, address) ==
  LET roots == Roots(im)
      around == {i \in DOMAIN im.table : im.table[i].begin <= address /\ address < im.table[i].end}
      ends(root) == {pair[1].end : pair \in {p \in roots : p[2] = root}} IN
  IF Cardinality(around) # 1 THEN {}
  ELSE {Function(pair[2].begin, Max(ends(pair[2]))) : pair \in {p \in roots : \E i \in around : p[1] = im.table[i]}}
=============================================================================
