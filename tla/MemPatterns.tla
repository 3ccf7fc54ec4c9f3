----------------------------- MODULE MemPatterns -----------------------------
(***************************************************************************)
(* The tests of MemTesterNX (MemTesterNX/source/tests.c) on a region of    *)
(* memory that may be faulty. A word is the set of its bits that are one,  *)
(* so the masks of the code are sets of bits and its loops keep their      *)
(* length (UL_LEN = 64). A region is two halves of Count words; a cell is  *)
(* <<half, index>>, half 1 being bufa and half 2 bufb.                     *)
(*                                                                         *)
(* The memory itself is external: a fault is a bit that sticks, an address *)
(* that reaches another cell, or a bit that another cell's write disturbs. *)
(***************************************************************************)
EXTENDS Integers, Sequences, FiniteSets

CONSTANTS Count,     \* words in each half of a region
          Samples,   \* the values rand_ul may give
          Faults     \* the faults a region may have

\* for (j = 0; j < n; j++) s = body[j][s]
Loop(body, s, n) ==
    LET after[j \in 0..n] == IF j = 0 THEN s ELSE body[j - 1][after[j - 1]]
    IN  after[n]

UL_LEN == 64
BitIndex == 0..(UL_LEN - 1)
Words == SUBSET BitIndex
UL_ONEBITS == BitIndex
Flip(w) == BitIndex \ w
CHECKERBOARD1 == {b \in BitIndex : b % 2 = 0}
CHECKERBOARD2 == Flip(CHECKERBOARD1)

\* ONE << n, which the processor takes modulo the width, and the bits of a number.
Shl(n) == {n % UL_LEN}
BitsOf(n) == {b \in 0..30 : (n \div 2^b) % 2 = 1}

\* UL_BYTE(x): the byte x in each byte of the word.
UL_BYTE(w) == {b \in BitIndex : b % 8 \in w}

Xor(v, w) == (v \ w) \cup (w \ v)

\* Unsigned 64-bit addition: a carry comes from a bit below that is one in both,
\* through bits that are one in either.
Carries(v, w) ==
    {b \in BitIndex : \E k \in (v \cap w) \cap 0..(b - 1) : (k + 1)..(b - 1) \subseteq v \cup w}
Add(v, w) == Xor(Xor(v, w), Carries(v, w))

-----------------------------------------------------------------------------
Index == 0..(Count - 1)
Cells == {1, 2} \X Index
Region == [Cells -> Words]

ASSUME PatternsAssumption == Count \in Nat \ {0} /\ Samples \subseteq Words

\* (ul) p1, for the words of the region in the order of their addresses.
Place(c) == (c[1] - 1) * Count + c[2]
Cell(n) == <<1 + (n \div Count), n % Count>>
Address(c) == {12, 36} \cup BitsOf(8 * Place(c))

NoFault == [kind |-> "none", cell |-> <<1, 0>>, by |-> <<1, 0>>, bit |-> 0, val |-> 0]

Forced(w, b, v) == IF v = 1 THEN w \cup {b} ELSE w \ {b}
Phys(f, c) == IF f.kind = "alias" /\ c = f.cell THEN f.by ELSE c

Load(f, mem, c) == mem[Phys(f, c)]

Store(f, mem, c, w) ==
    LET a == Phys(f, c)
        kept == IF f.kind = "stuck" /\ a = f.cell THEN Forced(w, f.bit, f.val) ELSE w
    IN  IF f.kind = "coupled" /\ a = f.by /\ f.bit \in w \ mem[a]
        THEN [mem EXCEPT ![a] = kept, ![f.cell] = Forced(@, f.bit, f.val)]
        ELSE [mem EXCEPT ![a] = kept]

\* A region as the allocator hands it over.
Fresh(f) == [c \in Cells |-> IF f.kind = "stuck" /\ c = f.cell THEN Forced({}, f.bit, f.val)
                             ELSE {}]

-----------------------------------------------------------------------------
compare_regions(f, mem) == \E i \in Index : Load(f, mem, <<1, i>>) # Load(f, mem, <<2, i>>)

\* *p1++ = *p2++ = value: the second half is written first, word by word.
Fill(f, mem, pattern) ==
    LET write(s, i, h) == Store(f, s, <<h, i>>, pattern[i])
    IN  Loop([i \in Index |-> [s \in Region |-> write(write(s, i, 2), i, 1)]], mem, Count)

\* *p1++ op= q; *p2++ op= q, where g says what op and q make of a word.
Update(f, mem, g) ==
    LET change(s, c) == Store(f, s, c, g[Load(f, s, c)])
    IN  Loop([i \in Index |-> [s \in Region |-> change(change(s, <<1, i>>), <<2, i>>)]],
             mem, Count)

\* What a test leaves in the region, and what it returns.
Tested == [mem : Region, rc : {-1, 0}]
Verdict(f, mem) ==
    [s \in Region |-> [mem |-> s, rc |-> IF compare_regions(f, s) THEN -1 ELSE 0]][mem]

\* for (j = 0; j < rounds; j++) { fill; if (compare_regions(...)) return -1; }
Rounds(f, mem, rounds, patterns) ==
    Loop([j \in 0..(rounds - 1) |->
             [t \in Tested |-> IF t.rc # 0 THEN t ELSE Verdict(f, Fill(f, t.mem, patterns[j]))]],
         [mem |-> mem, rc |-> 0], rounds)

\* (i % 2) == 0 ? q : ~q
Alternate(q) == [i \in Index |-> IF i % 2 = 0 THEN q ELSE Flip(q)]
Same(q) == [i \in Index |-> q]

\* Mutant: every round writes the same.
AddressPatternFixed(j, c) == IF Place(c) % 2 = 0 THEN Address(c) ELSE Flip(Address(c))

\* The pattern of test_stuck_address in round j.
AddressPattern(j, c) == IF (j + Place(c)) % 2 = 0 THEN Address(c) ELSE Flip(Address(c))

\* One round: the words are written, then read back.
Addressed(f, mem, j) ==
    Loop([n \in 0..(2 * Count - 1) |->
             [s \in Region |-> Store(f, s, Cell(n), AddressPattern(j, Cell(n)))]],
         mem, 2 * Count)
Misread(f, mem, j) == \E c \in Cells : Load(f, mem, c) # AddressPattern(j, c)
AddressRound(f, mem, j) ==
    [s \in Region |-> [mem |-> s, rc |-> IF Misread(f, s, j) THEN -1 ELSE 0]][Addressed(f, mem, j)]

\* Round after round, until one finds a difference.
test_stuck_address(f, mem, dividend) ==
    Loop([j \in 0..15 |->
             [t \in Tested |-> IF t.rc # 0 THEN t ELSE AddressRound(f, t.mem, j)]],
         [mem |-> mem, rc |-> 0], 16 \div dividend)

-----------------------------------------------------------------------------
\* The tests that draw random values: r gives the value drawn for each word,
\* q is the one value of the tests that draw only one. What a difference, a
\* product or a quotient with a random value is does not matter, only that it is
\* a function g of the word: g is any function from the words there are.
test_random_value(f, mem, r) == Verdict(f, Fill(f, mem, r))
test_xor_comparison(f, mem, q) == Verdict(f, Update(f, mem, [w \in Words |-> Xor(w, q)]))
test_sub_comparison(f, mem, g) == Verdict(f, Update(f, mem, g))
test_mul_comparison(f, mem, g) == Verdict(f, Update(f, mem, g))
test_div_comparison(f, mem, g) == Verdict(f, Update(f, mem, g))
test_or_comparison(f, mem, q) == Verdict(f, Update(f, mem, [w \in Words |-> w \cup q]))
test_and_comparison(f, mem, q) == Verdict(f, Update(f, mem, [w \in Words |-> w \cap q]))
test_seqinc_comparison(f, mem, q) ==
    Verdict(f, Fill(f, mem, [i \in Index |-> Add(BitsOf(i), q)]))

\* The tests of fixed patterns. A dividend of 4 keeps a sixteenth of the rounds.
Sixteenth(rounds, dividend) == (rounds \div dividend) \div dividend

test_solidbits_comparison(f, mem, dividend) ==
    Rounds(f, mem, Sixteenth(64, dividend),
           [j \in 0..63 |-> Alternate(IF j % 2 = 0 THEN UL_ONEBITS ELSE {})])
test_checkerboard_comparison(f, mem, dividend) ==
    Rounds(f, mem, Sixteenth(64, dividend),
           [j \in 0..63 |-> Alternate(IF j % 2 = 0 THEN CHECKERBOARD1 ELSE CHECKERBOARD2)])
test_blockseq_comparison(f, mem, dividend) ==
    Rounds(f, mem, Sixteenth(64, dividend), [j \in 0..63 |-> Same(UL_BYTE(BitsOf(j)))])

\* The walked bit goes up and comes back down.
Walk(j) == IF j < UL_LEN THEN j ELSE UL_LEN * 2 - j - 1

test_walkbits0_comparison(f, mem, dividend) ==
    Rounds(f, mem, Sixteenth(UL_LEN * 2, dividend), [j \in 0..127 |-> Same(Shl(Walk(j)))])
test_walkbits1_comparison(f, mem, dividend) ==
    Rounds(f, mem, Sixteenth(UL_LEN * 2, dividend),
           [j \in 0..127 |-> Same(Xor(UL_ONEBITS, Shl(Walk(j))))])
test_bitspread_comparison(f, mem, dividend) ==
    Rounds(f, mem, Sixteenth(UL_LEN * 2, dividend),
           [j \in 0..127 |-> Alternate(Shl(Walk(j)) \cup Shl(Walk(j) + 2))])

\* Each bit eight times, each time the complement of the one before.
test_bitflip_comparison(f, mem, dividend) ==
    Rounds(f, mem, 8 * Sixteenth(UL_LEN, dividend),
           [n \in 0..511 |-> Alternate(IF n % 2 = 0 THEN Flip(Shl(n \div 8)) ELSE Shl(n \div 8))])

-----------------------------------------------------------------------------
\* memset and memcpy of a whole half; memset repeats the low byte of q.
Memset(f, mem, h, q) ==
    Loop([i \in Index |-> [s \in Region |-> Store(f, s, <<h, i>>, UL_BYTE(q))]], mem, Count)
Memcpy(f, mem) ==
    Loop([i \in Index |-> [s \in Region |-> Store(f, s, <<1, i>>, Load(f, s, <<2, i>>))]],
         mem, Count)
BothSet(f, mem, q) == Memset(f, Memset(f, mem, 1, q), 2, q)

\* 128 copies: every copy after the second leaves what it finds.
test_stress_memcpy(f, mem, q) == Verdict(f, Memcpy(f, Memcpy(f, BothSet(f, mem, q))))

\* 128 random bytes in turn: of a first and a last one.
test_stress_memset(f, mem, q, last) == Verdict(f, BothSet(f, BothSet(f, mem, q), last))

\* The first words get a random value each, and the halves are compared after
\* each (32 words; a region of the model has fewer).
test_stress_memcmp(f, mem, q, r) ==
    Loop([i \in Index |->
             [t \in Tested |->
                 IF t.rc # 0 THEN t
                 ELSE Verdict(f, Store(f, Store(f, t.mem, <<2, i>>, r[i]), <<1, i>>, r[i]))]],
         [mem |-> BothSet(f, mem, q), rc |-> 0], Count)

\* Mutant: the table begins with a test that writes no value of its own.
TestsXorFirst == <<"xor_comparison", "random_value", "sub_comparison", "mul_comparison",
                   "div_comparison", "or_comparison", "and_comparison", "seqinc_comparison",
                   "solidbits_comparison", "blockseq_comparison", "checkerboard_comparison",
                   "bitspread_comparison", "bitflip_comparison", "walkbits1_comparison",
                   "walkbits0_comparison">>

\* The tables tests[] and stress_tests[]: a test is named by its function.
tests == <<"random_value", "xor_comparison", "sub_comparison", "mul_comparison",
           "div_comparison", "or_comparison", "and_comparison", "seqinc_comparison",
           "solidbits_comparison", "blockseq_comparison", "checkerboard_comparison",
           "bitspread_comparison", "bitflip_comparison", "walkbits1_comparison",
           "walkbits0_comparison">>
stress_tests == <<"stress_memcpy", "stress_memset", "stress_memcmp">>

Held(f, mem) == {Load(f, mem, c) : c \in Cells}
Results(f, mem) == [Held(f, mem) -> Samples]

Outcomes(name, f, mem, dividend) ==
    CASE name = "random_value" -> {test_random_value(f, mem, r) : r \in [Index -> Samples]}
      [] name = "xor_comparison" -> {test_xor_comparison(f, mem, q) : q \in Samples}
      [] name = "sub_comparison" -> {test_sub_comparison(f, mem, g) : g \in Results(f, mem)}
      [] name = "mul_comparison" -> {test_mul_comparison(f, mem, g) : g \in Results(f, mem)}
      [] name = "div_comparison" -> {test_div_comparison(f, mem, g) : g \in Results(f, mem)}
      [] name = "or_comparison" -> {test_or_comparison(f, mem, q) : q \in Samples}
      [] name = "and_comparison" -> {test_and_comparison(f, mem, q) : q \in Samples}
      [] name = "seqinc_comparison" -> {test_seqinc_comparison(f, mem, q) : q \in Samples}
      [] name = "solidbits_comparison" -> {test_solidbits_comparison(f, mem, dividend)}
      [] name = "blockseq_comparison" -> {test_blockseq_comparison(f, mem, dividend)}
      [] name = "checkerboard_comparison" -> {test_checkerboard_comparison(f, mem, dividend)}
      [] name = "bitspread_comparison" -> {test_bitspread_comparison(f, mem, dividend)}
      [] name = "bitflip_comparison" -> {test_bitflip_comparison(f, mem, dividend)}
      [] name = "walkbits1_comparison" -> {test_walkbits1_comparison(f, mem, dividend)}
      [] name = "walkbits0_comparison" -> {test_walkbits0_comparison(f, mem, dividend)}
      [] name = "stress_memcpy" -> {test_stress_memcpy(f, mem, q) : q \in Samples}
      [] name = "stress_memset" ->
            {test_stress_memset(f, mem, q[1], q[2]) : q \in Samples \X Samples}
      [] name = "stress_memcmp" ->
            {test_stress_memcmp(f, mem, r[1], r[2]) : r \in Samples \X [Index -> Samples]}
=============================================================================
