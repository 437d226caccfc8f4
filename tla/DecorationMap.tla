---------------------------- MODULE DecorationMap ----------------------------
(***************************************************************************)
(* The decorations of one syntax tree: crates/stiles-types/src/            *)
(* decoration_map.rs and decoration_lookup.rs.                             *)
(*                                                                         *)
(* The entries stand in insertion order.  The first lookup seals a list of *)
(* positions sorted by node, and an insertion or a merge drops the seal.   *)
(* A lookup searches the sealed list.                                      *)
(***************************************************************************)
EXTENDS Naturals, Sequences, FiniteSets

CONSTANTS Node,        \* node ids
          Key,         \* the keys of decorations
          Layout,      \* the types their values really have
          MaxEntries,  \* a bound on the entries of the map
          MaxMerged    \* a bound on the entries of a map merged into it

ASSUME NodeAssumption == Node \subseteq Nat
ASSUME BoundAssumption == MaxEntries \in Nat /\ MaxMerged \in Nat

VARIABLES entries,  \* what was inserted, in order
          sealed    \* {}, or {the positions of the entries sorted by node}

mapVars == <<entries, sealed>>

\* A value is known by its type: stabby checks it before a read casts.
Entry == [node : Node, key : Key, layout : Layout]

-----------------------------------------------------------------------------
\* Mistake: a sort that is not stable, which puts later positions first.
OrderUnstable(es) ==
    LET Place(p) ==
            Cardinality({q \in DOMAIN es : \/ es[q].node < es[p].node
                                           \/ es[q].node = es[p].node /\ q >= p})
    IN  [i \in DOMAIN es |-> CHOOSE p \in DOMAIN es : Place(p) = i]

\* `sort_by_key` is stable: the place of position p is after the positions of
\* smaller nodes and after the earlier positions of its own node.
Order(es) ==
    LET Place(p) ==
            Cardinality({q \in DOMAIN es : \/ es[q].node < es[p].node
                                           \/ es[q].node = es[p].node /\ q <= p})
    IN  [i \in DOMAIN es |-> CHOOSE p \in DOMAIN es : Place(p) = i]

MapInit == entries = <<>> /\ sealed = {}

\* Mistake: an insertion leaves the seal in place.
InsertsUnderSeal(e) ==
    /\ Len(entries) < MaxEntries
    /\ entries' = Append(entries, e)
    /\ UNCHANGED sealed

Insert(e) ==
    /\ Len(entries) < MaxEntries
    /\ entries' = Append(entries, e)
    /\ sealed' = {}

\* Mistake: the merged entries go in front.
MergesInFront(other) ==
    /\ Len(entries) + Len(other) <= MaxEntries
    /\ entries' = other \o entries
    /\ sealed' = {}

\* Mistake: a merge leaves the seal in place.
MergesUnderSeal(other) ==
    /\ Len(entries) + Len(other) <= MaxEntries
    /\ entries' = entries \o other
    /\ UNCHANGED sealed

Merge(other) ==
    /\ Len(entries) + Len(other) <= MaxEntries
    /\ entries' = entries \o other
    /\ sealed' = {}

\* `get_or_init`: the order is computed only when there is none.
SealedOrder == IF sealed = {} THEN Order(entries) ELSE CHOOSE order \in sealed : TRUE

Lookup ==
    /\ sealed' = {SealedOrder}
    /\ UNCHANGED entries

MapNext ==
    \/ \E e \in Entry : Insert(e)
    \/ \E n \in 0..MaxMerged : \E other \in [1..n -> Entry] : Merge(other)
    \/ Lookup

MapSpec == MapInit /\ [][MapNext]_mapVars

-----------------------------------------------------------------------------
(* The search of a lookup.  `partition_point` halves the list until one    *)
(* place is left; `below` holds the entries the predicate is true of.      *)
PartitionPoint(order, below) ==
    LET Search[w \in (0..Len(order)) \X (0..Len(order))] ==
            LET lo == w[1]
                hi == w[2]
                mid == (lo + hi) \div 2
            IN  IF lo >= hi THEN lo
                ELSE IF order[mid + 1] \in below THEN Search[<<mid + 1, hi>>]
                ELSE Search[<<lo, mid>>]
    IN  Search[<<0, Len(order)>>]

On(n) ==
    LET order == SealedOrder
        start == PartitionPoint(order, {p \in DOMAIN entries : entries[p].node < n})
        end == PartitionPoint(order, {p \in DOMAIN entries : entries[p].node <= n})
    IN  SubSeq([i \in DOMAIN order |-> entries[order[i]]], start + 1, end)

\* The entry that `first` finds for a key, as a set of at most one.
Found(n, k) ==
    LET on == On(n)
    IN  {on[i] : i \in {j \in DOMAIN on : /\ on[j].key = k
                                          /\ \A l \in 1..(j - 1) : on[l].key # k}}

\* `first`: the entry found is read as the type asked for, and no other is tried.
First(n, k, t) == {e \in Found(n, k) : e.layout = t}

-----------------------------------------------------------------------------
(* The seal is never stale: a lookup reads the order of the entries that   *)
(* are there, though an earlier one computed it (`lookup`, whose           *)
(* `get_or_init` keeps whatever `insert` and `merge` left).                *)
SealIsFresh == sealed = {} \/ sealed = {Order(entries)}

\* The numbers of a finite set, in order.
Ascending(S) ==
    [r \in 1..Cardinality(S) |-> CHOOSE i \in S : Cardinality({j \in S : j <= i}) = r]

\* The entries that sit on a node, in insertion order.
Sitting(es, n) ==
    LET places == Ascending({p \in DOMAIN es : es[p].node = n})
    IN  [i \in DOMAIN places |-> es[places[i]]]

(* A lookup yields exactly the entries that sit on the node, "in           *)
(* insertion order": the two binary searches of `on` over the sealed order *)
(* miss none, take no neighbour's and keep the order of insertion.         *)
LookupIsExact ==
    \A n \in Node : On(n) = Sitting(entries, n)

(* "Entries already present win": once something sits on a node under a    *)
(* key, no later insertion and no later provider's map changes what `get`  *)
(* answers there.                                                          *)
FirstWins ==
    [][\A n \in Node, k \in Key :
           Found(n, k) # {} => \A t \in Layout : First(n, k, t)' = First(n, k, t)]_mapVars

=============================================================================
