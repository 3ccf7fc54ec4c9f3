------------------------------ MODULE Latencies -------------------------------
(***************************************************************************)
(* The page of the RAM latencies (RamLatenciesSubmenuGui, misc_gui.cpp).   *)
(* For reads and for writes there are four ceilings, one for each latency: *)
(* the highest RAM clock that gets it.  0 stands for a latency not used,   *)
(* and 0xFFFFFFFF for the highest clock the user allows, which is set on   *)
(* the page before this one and may change between two visits.  The page   *)
(* draws the latency of every clock; the loader has the last word          *)
(* (HandleLatency).                                                        *)
(***************************************************************************)
EXTENDS Integers, FiniteSets, SequencesExt

CONSTANTS LatencyClocks,  \* the clocks of kFreqOptions that are looked at
          MaxClocks       \* and of the highest RAM clock

Loader == INSTANCE MtcMariko

Series == {"read", "write"}
Tiers  == 0..3

\* kFreqOptions of a Mariko.
kFreqOptions ==
    Loader!Steps(1633000, 3233000, 100000) \cup Loader!Steps(1666000, 3266000, 100000)
      \cup Loader!Steps(1700000, 3300000, 100000) \cup {1996800}

\* 0xFFFFFFFF, as the largest integer there is here.
AlwaysMax == 2147483647

ASSUME LatenciesAssumption ==
    /\ LatencyClocks \subseteq kFreqOptions /\ LatencyClocks # {}
    /\ MaxClocks \subseteq kFreqOptions \cup {1600000} /\ MaxClocks # {}

VARIABLES maxClock,  \* marikoEmcMaxClock
          saved,     \* the ceilings, of the sysmodule and of the page
          lowered    \* history: the highest clock was lowered after the last
                     \* time the ceilings of a series were put in order

latencies == <<maxClock, saved, lowered>>

resolveVal(v, max) == IF v = AlwaysMax THEN max ELSE v

HighestOf(S) == CHOOSE x \in S \cup {0} : \A y \in S : y <= x
LowestOf(S)  == IF S = {} THEN 0 ELSE CHOOSE x \in S : \A y \in S : x <= y
Cut(v, limit) == IF limit # 0 /\ v > limit THEN limit ELSE v

-------------------------------------------------------------------------------
(* normalizeLatencies: from the last ceiling to the first, each is brought *)
(* down to the lowest of those after it; then from the first to the last,  *)
(* each is brought up to the one before it and down to the highest clock.  *)

BringDown(vals) ==
    [i \in Tiers |-> Cut(vals[i], LowestOf({vals[j] : j \in i..3} \ {0}))]

BringUp(vals, max) ==
    [i \in Tiers |-> IF vals[i] = 0 THEN 0
                     ELSE Cut(HighestOf({vals[j] : j \in 0..i}), max)]

normalizeLatencies(vals, max) ==
    BringUp(BringDown([i \in Tiers |-> resolveVal(vals[i], max)]), max)

-------------------------------------------------------------------------------
(* The values a row offers: for the last latency only the highest clock,   *)
(* if none of the others has it; for another one the clocks between the    *)
(* ceilings before it and those after it.  buildNamedValues, which the     *)
(* base class would show, has no bounds and is never opened.               *)

maxOccupied(vals, max) == \E i \in 0..2 : resolveVal(vals[i], max) = max

lowerBound(vals, i, max) == HighestOf({resolveVal(vals[j], max) : j \in 0..(i - 1)})
upperBound(vals, i, max) ==
    LowestOf({IF j = 3 /\ vals[3] # 0 THEN max ELSE resolveVal(vals[j], max) : j \in (i + 1)..3}
               \ {0})

OptionsUpToTheNext(vals, i, max) ==
    {0} \cup {f \in LatencyClocks : lowerBound(vals, i, max) <= f /\ f <= max}
Options(vals, i, max) ==
    {0} \cup
    IF i = 3 THEN (IF maxOccupied(vals, max) THEN {} ELSE {max})
    ELSE {f \in LatencyClocks :
             /\ lowerBound(vals, i, max) < f /\ f <= max
             /\ upperBound(vals, i, max) # 0 => f < upperBound(vals, i, max)}

\* The listener of a choice: only the first three latencies put the ceilings
\* in order.
ChosenAsIs(vals, i, v, max) == [vals EXCEPT ![i] = v]
Chosen(vals, i, v, max) ==
    LET new == [vals EXCEPT ![i] = v]
    IN  IF i = 3 THEN new ELSE normalizeLatencies(new, max)

-------------------------------------------------------------------------------
(* The graph, over a ruler from 1600 to 3300 MHz.                          *)

kRMin == 1600000
kRMax == 3300000

\* buildSegs: the stretch of clocks each latency is for.
buildSegs(vals) ==
    LET used == SelectSeq(<<0, 1, 2, 3>>, LAMBDA i : vals[i] # 0)
        n    == Len(used)
        prev(k) == IF k = 1 THEN kRMin ELSE vals[used[k - 1]]
        seg(k) == [tier |-> used[k], start |-> prev(k), end |-> vals[used[k]]]
        last == [tier |-> used[n], start |-> vals[used[n]], end |-> kRMax]
    IN  IF n = 0 THEN <<>>
        ELSE SelectSeq([k \in 1..n |-> seg(k)] \o <<last>>, LAMBDA g : g.start < g.end)

Piece(tier, start, end, merged) ==
    [tier |-> tier, start |-> start, end |-> end, merged |-> merged]

\* The stretches a segment has in common with the other series, in order.
ovlp(seg, other) ==
    LET common(o) == [start |-> HighestOf({seg.start, o.start}),
                      end   |-> LowestOf({seg.end, o.end})]
        same == {common(other[k]) : k \in {j \in DOMAIN other : other[j].tier = seg.tier}}
    IN  SetToSortSeq({c \in same : c.start < c.end}, LAMBDA a, b : a.start < b.start)

\* drawSeriesSegs: the lines of a series, in its own colour where it is alone
\* and in that of both where the other one has the same latency.
drawSegNoGaps(seg, other) ==
    LET o == ovlp(seg, other)
    IN  {Piece(seg.tier, o[k].start, o[k].end, TRUE) : k \in DOMAIN o}
drawSeg(seg, other) ==
    LET o      == ovlp(seg, other)
        cur(k) == IF k = 1 THEN seg.start ELSE o[k - 1].end
        own    == {Piece(seg.tier, cur(k), o[k].start, FALSE) : k \in DOMAIN o}
                    \cup {Piece(seg.tier, cur(Len(o) + 1), seg.end, FALSE)}
    IN  {p \in own : p.start < p.end}
          \cup {Piece(seg.tier, o[k].start, o[k].end, TRUE) : k \in DOMAIN o}
drawSeriesSegs(segs, other) == UNION {drawSeg(segs[k], other) : k \in DOMAIN segs}

\* The vertical lines between two latencies.
Transitions(segs, other) ==
    {[at |-> segs[k].end, from |-> segs[k].tier, to |-> segs[k + 1].tier,
      merged |-> \E j \in 1..(Len(other) - 1) :
                    other[j].end = segs[k].end /\ other[j + 1].start = segs[k].end] :
        k \in {j \in 1..(Len(segs) - 1) :
                  segs[j].end = segs[j + 1].start /\ segs[j].tier # segs[j + 1].tier}}

Resolved(s) == [i \in Tiers |-> resolveVal(saved[s][i], maxClock)]
Drawn(s, o) == drawSeriesSegs(buildSegs(Resolved(s)), buildSegs(Resolved(o)))
Jumps(s, o) == Transitions(buildSegs(Resolved(s)), buildSegs(Resolved(o)))

-------------------------------------------------------------------------------

LatenciesInit ==
    /\ maxClock = HighestOf(MaxClocks)
    /\ saved \in [Series -> {[i \in Tiers |-> 0], [i \in Tiers |-> IF i = 3 THEN AlwaysMax ELSE 0]}]
    /\ lowered = [s \in Series |-> FALSE]

\* A row is opened and a value picked.  When SetConfigValues fails the ceilings
\* stay as they were, and the page reads them again.
ChooseLatency(s, i, v) ==
    /\ v \in Options(saved[s], i, maxClock)
    /\ saved' = [saved EXCEPT ![s] = Chosen(@, i, v, maxClock)]
    /\ lowered' = [lowered EXCEPT ![s] = @ /\ i = 3]
    /\ UNCHANGED maxClock

\* On the page before this one; this page is read when it is opened again.
ChangeMaxClock ==
    /\ \E m \in MaxClocks \ {maxClock} :
        /\ maxClock' = m
        /\ lowered' = [s \in Series |-> lowered[s] \/ m < maxClock]
    /\ UNCHANGED saved

LatenciesNext ==
    \/ \E s \in Series, i \in Tiers, v \in LatencyClocks \cup {0, maxClock} : ChooseLatency(s, i, v)
    \/ ChangeMaxClock

LatenciesTypeOK ==
    /\ maxClock \in MaxClocks
    /\ saved \in [Series -> [Tiers -> LatencyClocks \cup MaxClocks \cup {0, AlwaysMax}]]
    /\ lowered \in [Series -> BOOLEAN]

Used(s) == {i \in Tiers : saved[s][i] # 0}

\* The graph shows the latency the loader will give to each clock up to the
\* highest one, and no other, in the colour of both series just where both have
\* it, as long as the highest clock was not lowered since the ceilings were put
\* in order (misc_gui.cpp:1496-1528 against calculate_timings.cpp:56-65). After
\* that a ceiling of the last latency can be below one of the others.
GraphIsWhatLoads ==
    \A s, o \in Series :
        (s # o /\ Used(s) # {} /\ \A x \in Series : ~lowered[x]) =>
            \A f \in {x \in LatencyClocks \cup {maxClock} : x \in (kRMin + 1)..maxClock} :
                LET here == {p \in Drawn(s, o) : p.start < f /\ f <= p.end}
                    tier == Loader!HandleLatency(f, saved[s])
                    next == Loader!HandleLatency(f + 200, saved[s])
                IN  /\ {p.tier : p \in here} = {tier}
                    /\ \A p \in here :
                          p.merged <=> Used(o) # {} /\ Loader!HandleLatency(f, saved[o]) = tier
                    /\ {[from |-> t.from, to |-> t.to] : t \in {x \in Jumps(s, o) : x.at = f}}
                         = (IF next = tier \/ f = kRMax THEN {} ELSE {[from |-> tier, to |-> next]})

\* With the ceilings in order and the last one at the highest clock, a choice
\* changes the row it was made in and no other one. (After the highest clock is
\* raised the rows offer clocks above the old ceiling of the last latency, and
\* what the user picks there is cut to it.)
ChoiceKept ==
    [][\A s \in Series :
         (saved'[s] # saved[s] /\ ~lowered[s] /\ saved[s][3] \in {0, maxClock, AlwaysMax}) =>
             \A i \in Tiers : \A v \in Options(saved[s], i, maxClock) :
                 saved'[s] = Chosen(saved[s], i, v, maxClock) =>
                     \A j \in Tiers : resolveVal(saved'[s][j], maxClock)
                                        = (IF j = i THEN v ELSE Resolved(s)[j])]_latencies
===============================================================================
