------------------------------- MODULE Bitset -------------------------------
(***************************************************************************)
(* The bit set of kern/ds/bitset.c: an array of 32-bit words addressed by  *)
(* a word index and a bit offset.  A word is the set of the offsets whose  *)
(* bit is 1, so that |= and &= are union and difference.  The operators    *)
(* take the bit set as an argument and return its new value.               *)
(***************************************************************************)
EXTENDS Integers

WordBits == 32

Offsets == 0 .. WordBits - 1

\* struct bitset: the number of words, and the words.
BitSetsOf(n) == [sz : {n}, bits : [0 .. n - 1 -> SUBSET Offsets]]

bs_get_size(bs) == bs.sz * WordBits

\* Number of words bs_init allocates for sz bits.  A multiple of 32 still
\* gets a whole extra word.
bs_words(sz) == (sz + (WordBits - (sz % WordBits))) \div WordBits

\* bs_init does not clear the words that kmalloc returns: ram[w] is what
\* word w of that memory held before.
bs_init(sz, ram) ==
    [sz   |-> bs_words(sz),
     bits |-> [w \in 0 .. bs_words(sz) - 1 |-> ram[w]]]

bs_set(bs, idx) ==
    IF idx < bs_get_size(bs)
    THEN [bs EXCEPT !.bits[idx \div WordBits] = @ \cup {idx % WordBits}]
    ELSE bs

\* Mutant of bs_clr: the mask keeps nothing of the word.
bs_clr_WholeWord(bs, idx) ==
    IF idx < bs_get_size(bs)
    THEN [bs EXCEPT !.bits[idx \div WordBits] = {}]
    ELSE bs

bs_clr(bs, idx) ==
    IF idx < bs_get_size(bs)
    THEN [bs EXCEPT !.bits[idx \div WordBits] = @ \ {idx % WordBits}]
    ELSE bs

\* An index past the end reads as 1.
bs_tst(bs, idx) ==
    idx < bs_get_size(bs) => idx % WordBits \in bs.bits[idx \div WordBits]

\* The least clear index, or the size of the set when every bit is 1.
bs_first_clr(bs) ==
    LET clear == {i \in 0 .. bs_get_size(bs) - 1 : ~ bs_tst(bs, i)}
    IN  IF clear = {}
        THEN bs_get_size(bs)
        ELSE CHOOSE i \in clear : \A j \in clear : i <= j

\* BAD_RETURN of kern/inc/bitset.h.
BAD_RETURN(bs, idx) == idx = bs_get_size(bs)

\* The indices whose bit is 1: the set the structure stands for.
Members(bs) == {i \in 0 .. bs_get_size(bs) - 1 : bs_tst(bs, i)}
=============================================================================
