--------------------------- MODULE ResourceIndex ---------------------------
(***************************************************************************)
(* The hash tables of the SimpleAssets runtime: external resources by key,  *)
(* by stream identity and by stream path (mapping/), and the replacements   *)
(* (engine/replacement.c).  They are open-addressing tables that only grow; *)
(* every operation holds the lock of its table from its first look to its   *)
(* last store, so each is one action.  A stream path may be shared by       *)
(* several resources and is entered once.                                   *)
(***************************************************************************)
EXTENDS Integers, FiniteSets

CONSTANTS
  Resource,          \* a type name and a resource name
  Data,              \* what a resource is registered with
  Path,              \* the stream paths
  NoPath,            \* a resource without a stream
  KeyOf(_),          \* type_hash and resource_hash of a resource; two may collide
  PathOf(_),         \* the stream path of a resource, or NoPath
  HashOf(_),         \* sa_mapping_hash, sa_string_hash: of a key or a stream path
  MappingCapacity,   \* SA_MAPPING_INITIAL_CAPACITY
  ReplacementCapacity, \* SA_INITIAL_REPLACEMENT_CAPACITY
  Empty              \* a slot that holds nothing

ASSUME IndexAssumption ==
  /\ {MappingCapacity, ReplacementCapacity} \subseteq Nat
  /\ MappingCapacity >= 4 /\ ReplacementCapacity >= 4
  /\ NoPath \notin Path
  /\ \A r \in Resource : PathOf(r) \in Path \cup {NoPath} /\ HashOf(KeyOf(r)) \in Nat
  /\ \A p \in Path : HashOf(p) \in Nat
  /\ Empty \notin Resource

VARIABLES
  tables,       \* the tables: their slots and how many are taken
  dataOf,       \* the data each mapping was created with
  sourceOf      \* the source key of each replacement entry

indexVars == <<tables, dataOf, sourceOf>>

Table == {"key", "identity", "path", "replacement"}
NoTable == [slots |-> << >>, count |-> 0]

IndexInit ==
  /\ tables = [t \in Table |-> NoTable]
  /\ dataOf = << >>
  /\ sourceOf = << >>

\* What a table is searched for.  A stream identity spells the key.
SearchKey(t, r) == IF t = "path" THEN PathOf(r) ELSE KeyOf(r)
Capacity(table) == Cardinality(DOMAIN table.slots)

\* The slots a search visits, in order; capacities are powers of two.
Visited(k, capacity, n) == (HashOf(k) + n) % capacity

(***************************************************************************)
(* Searching: from the home of the key to the first empty slot or the first *)
(* entry with the key.  A search of a table with neither would not end.     *)
(***************************************************************************)
Stops(t, table, k, n) ==
  LET entry == table.slots[Visited(k, Capacity(table), n)] IN
  entry = Empty \/ SearchKey(t, entry) = k

Ends(t, table, k) == Capacity(table) = 0 \/ \E n \in 0 .. Capacity(table) - 1 : Stops(t, table, k, n)

Find(t, table, k) ==
  IF Capacity(table) = 0 THEN Empty
  ELSE LET steps == CHOOSE n \in 0 .. Capacity(table) - 1 :
                      /\ Stops(t, table, k, n)
                      /\ \A m \in 0 .. n - 1 : ~Stops(t, table, k, m) IN
       table.slots[Visited(k, Capacity(table), steps)]

\* sa_insert_mapping_slot, sa_insert_string_slot, sa_insert_replacement: the first empty slot.
Inserted(t, slots, r) ==
  LET capacity == Cardinality(DOMAIN slots)
      k == SearchKey(t, r)
      empty(n) == slots[Visited(k, capacity, n)] = Empty
      steps == CHOOSE n \in 0 .. capacity - 1 : empty(n) /\ \A m \in 0 .. n - 1 : ~empty(m) IN
  [slots EXCEPT ![Visited(k, capacity, steps)] = r]

Entered(t, table, r) == [slots |-> Inserted(t, table.slots, r), count |-> table.count + 1]

(***************************************************************************)
(* Growing: a table that another entry would fill to more than three        *)
(* quarters doubles, and its entries are inserted anew.                     *)
(***************************************************************************)
InitialCapacity(t) == IF t = "replacement" THEN ReplacementCapacity ELSE MappingCapacity

\* Mutant: a table may be filled to its last slot.
NeedsToFill(t, table) == IF Capacity(table) = 0 THEN InitialCapacity(t)
                         ELSE IF table.count + 1 <= Capacity(table) THEN Capacity(table) ELSE 2 * Capacity(table)

\* sa_capacity_for_insert and the test of sa_reserve_replacements.  One doubling is always enough.
Needs(t, table) ==
  LET capacity == Capacity(table) IN
  IF capacity = 0 THEN InitialCapacity(t)
  ELSE IF table.count + 1 <= capacity - capacity \div 4 THEN capacity ELSE 2 * capacity

\* The entries of the first i slots of the old table, inserted in that order.
Rehashed(t, table, capacity) ==
  LET moved[i \in 0 .. Capacity(table)] ==
        IF i = 0 THEN [j \in 0 .. capacity - 1 |-> Empty]
        ELSE IF table.slots[i - 1] = Empty THEN moved[i - 1]
        ELSE Inserted(t, moved[i - 1], table.slots[i - 1]) IN
  moved[Capacity(table)]

\* sa_resize_mapping_slots, sa_resize_string_slots, and the second half of sa_reserve_replacements.
Grown(t, table) ==
  IF Needs(t, table) = Capacity(table) THEN table
  ELSE [table EXCEPT !.slots = Rehashed(t, table, Needs(t, table))]

Growing(t) == Needs(t, tables[t]) # Capacity(tables[t])

(***************************************************************************)
(* Registering a resource.                                                  *)
(***************************************************************************)
Streamed(r) == PathOf(r) # NoPath
TablesOf(r) == IF Streamed(r) THEN {"key", "identity", "path"} ELSE {"key"}

Found(r) == Find("key", tables["key"], KeyOf(r))

\* sa_insert_mapping_indexes: a stream path already there stays with its first resource.
Enters(r, reserved) ==
  [t \in Table |->
     IF t \notin TablesOf(r) \/ (t = "path" /\ Find(t, reserved[t], PathOf(r)) # Empty) THEN reserved[t]
     ELSE Entered(t, reserved[t], r)]

\* Mutant: a resource may be registered again with other data.
RegisterAnyData(r, d) ==
  /\ Found(r) \in {Empty, r}
  /\ tables' = IF Found(r) = r THEN tables
               ELSE Enters(r, [t \in Table |-> IF t \in TablesOf(r) THEN Grown(t, tables[t]) ELSE tables[t]])
  /\ dataOf' = [x \in DOMAIN dataOf \cup {r} |-> IF x = r THEN d ELSE dataOf[x]]
  /\ UNCHANGED sourceOf

\* sa_register_resource_mapping of a resource whose key is free.
Register(r, d) ==
  /\ Found(r) = Empty
  /\ tables' = Enters(r, [t \in Table |-> IF t \in TablesOf(r) THEN Grown(t, tables[t]) ELSE tables[t]])
  /\ dataOf' = [x \in DOMAIN dataOf \cup {r} |-> IF x = r THEN d ELSE dataOf[x]]
  /\ UNCHANGED sourceOf

\* No memory for one of the tables: those before it have grown.
Order == [key |-> 1, identity |-> 2, path |-> 3]
ReserveFails(r, failing) ==
  /\ Found(r) = Empty
  /\ failing \in TablesOf(r)
  /\ Growing(failing)
  /\ tables' = [t \in Table |-> IF t \in TablesOf(r) /\ Order[t] < Order[failing] THEN Grown(t, tables[t]) ELSE tables[t]]
  /\ UNCHANGED <<dataOf, sourceOf>>

\* No memory for the mapping itself: every table has grown.
CreateFails(r) ==
  /\ Found(r) = Empty
  /\ tables' = [t \in Table |-> IF t \in TablesOf(r) THEN Grown(t, tables[t]) ELSE tables[t]]
  /\ UNCHANGED <<dataOf, sourceOf>>

(***************************************************************************)
(* Replacing a resource (sa_replace_resource, after its checks).            *)
(***************************************************************************)
Replacement(k) == Find("replacement", tables["replacement"], k)

ReplaceAgain(target, source) ==
  /\ Replacement(KeyOf(target)) = target
  /\ sourceOf' = [sourceOf EXCEPT ![target] = KeyOf(source)]
  /\ UNCHANGED <<tables, dataOf>>

ReplaceNew(target, source) ==
  /\ Replacement(KeyOf(target)) = Empty
  /\ tables' = [tables EXCEPT !["replacement"] = Entered("replacement", Grown("replacement", @), target)]
  /\ sourceOf' = [x \in DOMAIN sourceOf \cup {target} |-> IF x = target THEN KeyOf(source) ELSE sourceOf[x]]
  /\ UNCHANGED dataOf

\* No memory for the table, or for the identity once the table has grown.
ReplaceFails(target) ==
  /\ Replacement(KeyOf(target)) = Empty
  /\ tables' = [tables EXCEPT !["replacement"] = Grown("replacement", @)]
  /\ UNCHANGED <<dataOf, sourceOf>>

IndexNext ==
  \/ \E r \in Resource, d \in Data : Register(r, d)
  \/ \E r \in Resource, t \in {"key", "identity", "path"} : ReserveFails(r, t)
  \/ \E r \in Resource : CreateFails(r)
  \/ \E target, source \in Resource : ReplaceAgain(target, source) \/ ReplaceNew(target, source)
  \/ \E target \in Resource : ReplaceFails(target)

IndexSpec == IndexInit /\ [][IndexNext]_indexVars

(***************************************************************************)
(* Properties.                                                              *)
(***************************************************************************)
\* Every search ends: no table is ever full, however it grew and whichever allocation failed, so a
\* lookup of a name nobody registered stops at an empty slot instead of running round under the lock.
SearchesEnd ==
  /\ \A t \in Table, r \in Resource : (t # "path" \/ Streamed(r)) => Ends(t, tables[t], SearchKey(t, r))
  /\ \A t \in Table : Capacity(tables[t]) > 0 => Empty \in {tables[t].slots[i] : i \in DOMAIN tables[t].slots}

\* What was registered is found again through every table, after any growth: by its key, by its
\* stream identity, and its stream path leads to a resource with that path.
RegisteredIsFound ==
  \A r \in DOMAIN dataOf : \A t \in TablesOf(r) :
    LET found == Find(t, tables[t], SearchKey(t, r)) IN
    IF t = "path" THEN found \in DOMAIN dataOf /\ PathOf(found) = PathOf(r) ELSE found = r

\* The tables implement a map of resources and a map of replacements, whatever collides in them:
\* a resource is mapped when the table finds it, with the data it was created with.
Abstract == INSTANCE ResourceMap WITH
  mapped <- [r \in {x \in Resource : Found(x) = x} |-> dataOf[r]],
  replaced <- [r \in {x \in Resource : Replacement(KeyOf(x)) = x} |-> sourceOf[r]]

ImplementsMap == Abstract!MapSpec

\* The tables can be searched: every search ends, and finds what was registered.
TablesAreSearchable == SearchesEnd /\ RegisteredIsFound
=============================================================================
