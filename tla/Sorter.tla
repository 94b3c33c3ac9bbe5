------------------------------- MODULE Sorter -------------------------------
(***************************************************************************)
(* bowerbird::SlidingWindowSorter: entries are buffered, sorted in batches *)
(* and merged into a window, whose least entries go to the consumer when   *)
(* the window is full.  An entry is its key and its number of arrival.     *)
(*                                                                         *)
(* The two ways to merge give the same window and are one operator.  A     *)
(* consumer that throws has its entries already, so the window is the same *)
(* as if it returned.  The statistics and the reserved capacities are left *)
(* out.                                                                    *)
(***************************************************************************)
EXTENDS Integers, Sequences, FiniteSets, SequencesExt

CONSTANTS
    SortKeys,       \* what the comparator sees of an entry
    Settings,       \* window_size, batch_size, enable_sorting, merge_threshold
    MaxAdd,         \* bound on the entries of one call
    MaxEntries      \* bound on the entries between two flushes

VARIABLES
    config,
    window,         \* sorted_window_
    fresh,          \* new_entries_
    entered,        \* history: the entries since the last flush
    emitted,        \* history: what the consumer got since the last flush
    ruled,          \* history: the configuration they are processed under
    flushed         \* history: the flush has happened

sorterVars == <<config, window, fresh, entered, emitted, ruled, flushed>>

SorterInit ==
    /\ config \in Settings
    /\ window = <<>>
    /\ fresh = <<>>
    /\ entered = <<>>
    /\ emitted = <<>>
    /\ ruled = config
    /\ flushed = FALSE

InOrder(s) == \A i, j \in DOMAIN s : i < j => s[i].key <= s[j].key

(* At the upper bound of its key: a step of insertion_sort and of a merge. *)
Insert(s, e) ==
    LET before == Len(SelectSeq(s, LAMBDA x : x.key <= e.key))
    IN  SubSeq(s, 1, before) \o <<e>> \o SubSeq(s, before + 1, Len(s))

(* std::sort may swap equal keys.                                          *)
Sortings(s) ==
    IF Len(s) <= config.merge_threshold
    THEN {FoldLeft(Insert, <<>>, s)}
    ELSE {t \in SetToSeqs(ToSet(s)) : InOrder(t)}

SortAndMerge(s) == {FoldLeft(Insert, window, t) : t \in Sortings(s)}

LargerOf(m, n) == IF m > n THEN m ELSE n
SmallerOf(m, n) == IF m < n THEN m ELSE n

\* Bug: a batch is always enough.
CalculateOutputCountBatch(w) ==
    IF Len(w) < config.window_size THEN 0 ELSE config.batch_size

CalculateOutputCount(w) ==
    IF Len(w) < config.window_size THEN 0
    ELSE LargerOf(Len(w) - config.window_size, config.batch_size)

\* maintain_window_size() drops what is still too much.
Output(w, wanted, past) ==
    LET count == SmallerOf(wanted, Len(w))
        rest == SubSeq(w, count + 1, Len(w))
        excess == LargerOf(Len(rest) - config.window_size, 0)
    IN  /\ emitted' = past \o SubSeq(w, 1, count)
        /\ window' = SubSeq(rest, excess + 1, Len(rest))

ProcessBatch(s, forceAll, past) ==
    /\ fresh' = <<>>
    /\ \E w \in IF config.enable_sorting THEN SortAndMerge(s) ELSE {window \o s} :
        Output(w, IF forceAll THEN Len(w) ELSE CalculateOutputCount(w), past)

\* add_entry() is the call with one key.  A flush, or a configuration met with
\* nothing pending, starts a new history.
AddEntries(keys) ==
    LET anew == flushed \/ ruled # config
        before == IF anew THEN <<>> ELSE entered
        past == IF anew THEN <<>> ELSE emitted
        added == [i \in DOMAIN keys |-> [key |-> keys[i], no |-> Len(before) + i]]
    IN  /\ Len(before) + Len(keys) <= MaxEntries
        /\ entered' = before \o added
        /\ ruled' = config
        /\ flushed' = FALSE
        /\ \/ /\ Len(fresh \o added) >= config.batch_size
              /\ ProcessBatch(fresh \o added, FALSE, past)
           \/ /\ Len(fresh \o added) < config.batch_size
              /\ fresh' = fresh \o added
              /\ emitted' = past
              /\ UNCHANGED window
        /\ UNCHANGED config

\* With nothing to process the call returns at once.
Flush ==
    \/ /\ fresh # <<>> \/ window # <<>>
       /\ ProcessBatch(fresh, TRUE, emitted)
       /\ flushed' = TRUE
       /\ UNCHANGED <<entered, ruled>>
    \/ fresh = <<>> /\ window = <<>> /\ UNCHANGED <<window, fresh, entered, emitted, ruled, flushed>>

FlushCall == Flush /\ UNCHANGED config

\* The flush is under the old configuration.
Reconfigure(c) ==
    /\ Flush
    /\ config' = c

SorterNext ==
    \/ \E n \in 1 .. MaxAdd : \E keys \in [1 .. n -> SortKeys] : AddEntries(keys)
    \/ FlushCall
    \/ \E c \in Settings : Reconfigure(c)

SorterSpec == SorterInit /\ [][SorterNext]_sorterVars

-----------------------------------------------------------------------------
(* How many greater entries arrived before entry i, how many the window    *)
(* always keeps back, and how many may be sorted at once.                  *)
Lateness(i) == Cardinality({j \in 1 .. i - 1 : entered[j].key > entered[i].key})
KeptBack == LargerOf(ruled.window_size - ruled.batch_size, 0)
LargestBatch == LargerOf(ruled.batch_size - 1, 0) + MaxAdd

(* Nothing is lost or duplicated between add_entries() and the consumer,   *)
(* although the window is cut to its size after each pass.  Unsorted       *)
(* entries come out as they went in.  Sorted, the whole output is in order *)
(* over all passes, and not just within each, as long as no entry is       *)
(* overtaken by more greater ones than the window keeps back; and equal    *)
(* keys stay in order when no batch can exceed merge_threshold, one of     *)
(* just that many entries included.                                        *)
SorterSound ==
    LET all == emitted \o window \o fresh
    IN  /\ Len(all) = Len(entered) /\ ToSet(all) = ToSet(entered)
        /\ Len(window) <= config.window_size
        /\ ~ruled.enable_sorting => all = entered
        /\ ruled.enable_sorting /\ (\A i \in DOMAIN entered : Lateness(i) <= KeptBack) =>
            /\ InOrder(emitted)
            /\ ruled.merge_threshold >= LargestBatch =>
                \A i, j \in DOMAIN emitted :
                    i < j /\ emitted[i].key = emitted[j].key => emitted[i].no < emitted[j].no
=============================================================================
