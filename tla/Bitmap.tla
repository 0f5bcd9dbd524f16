-------------------------------- MODULE Bitmap --------------------------------
(***************************************************************************)
(* ngx_http_headers_control_bitmap_t: a set of rule ids, kept in words of  *)
(* W bits.  A word is the set of its bits that are 1.  The functions of    *)
(* util.c check the bit against the size; the two loops that run the rules *)
(* write into the words directly and check nothing.                        *)
(***************************************************************************)
EXTENDS Integers

CONSTANT W      \* NGX_INT_T_LEN

ASSUME WAssumption == W \in Nat \ {0}

Word(bit) == bit \div W
Offset(bit) == bit % W

\* As many whole words as the size fills: the last, partial one is missing.
Words_Floor(size) == size \div W

Words(size) == (size + W - 1) \div W

\* A bitmap for size bits.  null: ngx_pcalloc had no memory.
bitmap_t(size) ==
    [null : BOOLEAN, size : {size}, bits : [0 .. Words(size) - 1 -> SUBSET (0 .. W - 1)]]

bitmap_init(size, memory) ==
    [null |-> ~memory,
     size |-> IF memory THEN size ELSE 0,
     bits |-> [w \in 0 .. Words(IF memory THEN size ELSE 0) - 1 |-> {}]]

\* Does writing the word of this bit stay within the words?
InWords(bm, bit) == ~bm.null /\ Word(bit) \in DOMAIN bm.bits

\* locked.bits[bit / W] |= 1 << bit % W
SetBit(bm, bit) == [bm EXCEPT !.bits[Word(bit)] = @ \cup {Offset(bit)}]

bitmap_set(bm, bit) == IF ~bm.null /\ bit < bm.size THEN SetBit(bm, bit) ELSE bm

bitmap_isset(bm, bit) ==
    ~bm.null /\ bit < bm.size /\ Offset(bit) \in bm.bits[Word(bit)]
=============================================================================
