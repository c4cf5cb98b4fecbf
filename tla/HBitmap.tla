------------------------------ MODULE HBitmap -------------------------------
(* The hierarchical bitmap of util/hbitmap.c, which holds the dirty bits   *)
(* of a drive.  Level l is the set of its bits that are set; a word is the *)
(* BitsPerLong bits it holds, numbered from 0.  One bit of the last level  *)
(* stands for Granularity items.  The bits of a word are sets, so masks    *)
(* are intervals and ctzl is the least element.                            *)
EXTENDS Integers, FiniteSets, FiniteSetsExt

CONSTANTS
    BitsPerLong,               \* BITS_PER_LONG
    LevelCount,                \* HBITMAP_LEVELS
    Granularity,               \* 2^granularity
    Items                      \* the size given to hbitmap_alloc

Size == (Items + Granularity - 1) \div Granularity
Bottom == LevelCount - 1

(* hbitmap_alloc: level 0 is one word with a bit to spare.                 *)
ASSUME HBitmapAssumption ==
    /\ {BitsPerLong, LevelCount, Granularity, Items} \subseteq Nat \ {0}
    /\ LevelCount > 1
    /\ Size <= (BitsPerLong - 1) * BitsPerLong ^ Bottom

VARIABLES
    levels,                    \* hb->levels
    count,                     \* hb->count
    hbi,                       \* an iterator that somebody keeps
    at, owed                   \* history: what it returned, what it owes
vars == <<levels, count, hbi, at, owed>>

Above(pos) == pos \div BitsPerLong
Word(lv, i, pos) == {b \in 0 .. BitsPerLong - 1 : pos * BitsPerLong + b \in lv[i]}
Sentinel == BitsPerLong - 1

Init ==
    /\ levels = [i \in 0 .. Bottom |-> IF i = 0 THEN {Sentinel} ELSE {}]
    /\ count = 0
    /\ hbi = [pos |-> 0, cur |-> [i \in 0 .. Bottom |-> IF i = 0 THEN {Sentinel} ELSE {}]]
    /\ at = Size /\ owed = {}

-----------------------------------------------------------------------------
(* Mutant of Yet: the bit of the word that is in cur[i + 1] is kept.       *)
YetAll(i, bit, word) == {b \in word : b >= bit}

(* What hbitmap_iter_init keeps of a word: nothing before the first item,  *)
(* nor, above the last level, what the level below has begun with.         *)
Yet(i, bit, word) == {b \in word : b > bit \/ (b = bit /\ i = Bottom)}

(* hbitmap_iter_init: pos is shifted right once for each level.            *)
IterStart(lv, first) ==
    LET At(i) == first \div BitsPerLong ^ (Bottom - i)   \* pos at level i
    IN  [pos |-> Above(first),
         cur |-> [i \in 0 .. Bottom |->
                     Yet(i, At(i) % BitsPerLong, Word(lv, i, Above(At(i))))]]

(* The loop of hbitmap_iter_skip_words that goes down again from level i,  *)
(* where cur is what is left of the word; an assertion fails at {}.        *)
RECURSIVE Descend(_, _, _, _)
Descend(lv, it, i, cur) ==
    IF i = Bottom \/ cur = {} THEN [it |-> it, word |-> cur]
    ELSE LET pos == it.pos * BitsPerLong + Min(cur)
         IN  Descend(lv, [pos |-> pos, cur |-> [it.cur EXCEPT ![i] = cur \ {Min(cur)}]],
                     i + 1, Word(lv, i + 1, pos))

Nothing == [it |-> hbi, word |-> {}, ended |-> TRUE]
Found(r) == [it |-> r.it, word |-> r.word, ended |-> FALSE]

(* hbitmap_iter_skip_words: up to the first level with something left, and *)
(* to the end of the bitmap if that is the sentinel of level 0.            *)
SkipWords(lv, it) ==
    LET i == Max({j \in 0 .. Bottom - 1 : it.cur[j] # {}})
        up == [it EXCEPT !.pos = @ \div BitsPerLong ^ (Bottom - i)]
    IN  IF i = 0 /\ it.cur[0] = {Sentinel} THEN [Nothing EXCEPT !.it = it]
        ELSE Found(Descend(lv, up, i, it.cur[i]))

(* The word that hbitmap_iter_next and hbitmap_iter_next_word work on.     *)
Current(lv, it) ==
    IF it.cur[Bottom] # {} THEN Found([it |-> it, word |-> it.cur[Bottom]])
                           ELSE SkipWords(lv, it)

(* hb_count_between, from the word that the iterator it is at, end being   *)
(* last + 1.                                                               *)
RECURSIVE CountWords(_, _, _)
CountWords(lv, it, end) ==
    LET r == Current(lv, it) IN
    IF r.ended \/ r.it.pos > Above(end) THEN 0
    ELSE IF r.it.pos = Above(end)
         THEN Cardinality({b \in r.word : b < end % BitsPerLong})
         ELSE Cardinality(r.word)
              + CountWords(lv, [r.it EXCEPT !.cur[Bottom] = {}], end)

CountBetween(lv, start, last) == CountWords(lv, IterStart(lv, start), last + 1)

-----------------------------------------------------------------------------
(* Mutant of Touched: only a word that is set for the first time counts.   *)
TouchedFirst(lv, level, pos, lastpos) == Word(lv, level, pos) = {}

(* hb_set_between: has a word become non-zero?                             *)
Touched(lv, level, pos, lastpos) == \E w \in pos .. lastpos : Word(lv, level, w) = {}

RECURSIVE SetBetween(_, _, _, _)
SetBetween(lv, level, start, last) ==
    LET new == [lv EXCEPT ![level] = @ \cup (start .. last)]
    IN  IF level > 0 /\ Touched(lv, level, Above(start), Above(last))
        THEN SetBetween(new, level - 1, Above(start), Above(last))
        ELSE new

(* hb_reset_elem: the word at pos becomes zero now.                        *)
Blanked(lv, new, level, pos) == Word(lv, level, pos) # {} /\ Word(new, level, pos) = {}

(* hb_reset_between: the range of words that goes up to the next level,    *)
(* without a first or a last word that keeps bits.                         *)
FirstPos(lv, new, level, pos, lastpos) ==
    IF pos < lastpos /\ ~Blanked(lv, new, level, pos) THEN pos + 1 ELSE pos
LastPos(lv, new, level, lastpos) ==
    IF Blanked(lv, new, level, lastpos) THEN lastpos ELSE lastpos - 1

RECURSIVE ResetBetween(_, _, _, _)
ResetBetween(lv, level, start, last) ==
    LET new == [lv EXCEPT ![level] = @ \ (start .. last)]
        pos == Above(start)
        lastpos == Above(last)
    IN  IF level > 0 /\ \E w \in pos .. lastpos : Blanked(lv, new, level, w)
        THEN ResetBetween(new, level - 1, FirstPos(lv, new, level, pos, lastpos),
                          LastPos(lv, new, level, lastpos))
        ELSE new

-----------------------------------------------------------------------------
(* The bits that a range of items comes to.                                *)
Group(item) == item \div Granularity

(* hbitmap_set.                                                            *)
Set(start, n) ==
    LET first == Group(start)
        last == Group(start + n - 1)
    IN  /\ count' = count + (last - first + 1) - CountBetween(levels, first, last)
        /\ levels' = SetBetween(levels, Bottom, first, last)
        /\ UNCHANGED <<hbi, at, owed>>

(* hbitmap_reset; its caller keeps away from what the iterator has not     *)
(* reached.                                                                *)
Reset(start, n) ==
    LET first == Group(start)
        last == Group(start + n - 1)
    IN  /\ last <= at
        /\ count' = count - CountBetween(levels, first, last)
        /\ levels' = ResetBetween(levels, Bottom, first, last)
        /\ UNCHANGED <<hbi, at, owed>>

(* hbitmap_iter_init.                                                      *)
IterInit(first) ==
    /\ hbi' = IterStart(levels, Group(first))
    /\ at' = Group(first) - 1
    /\ owed' = {b \in levels[Bottom] : b >= Group(first)}
    /\ UNCHANGED <<levels, count>>

Aborted == Size + 1

(* hbitmap_iter_next.                                                      *)
IterNext ==
    /\ at < Size
    /\ LET r == Current(levels, hbi) IN
        IF r.word # {}
        THEN /\ hbi' = [r.it EXCEPT !.cur[Bottom] = r.word \ {Min(r.word)}]
             /\ at' = r.it.pos * BitsPerLong + Min(r.word)
             /\ owed' = owed \ {at'}
        ELSE /\ at' = IF r.ended THEN Size ELSE Aborted
             /\ hbi' = r.it
             /\ UNCHANGED owed
    /\ UNCHANGED <<levels, count>>

Next ==
    \/ \E start \in 0 .. Items - 1 : \E n \in 1 .. Items - start :
           Set(start, n) \/ Reset(start, n)
    \/ \E first \in 0 .. Items - 1 : IterInit(first)
    \/ IterNext

Spec == Init /\ [][Next]_vars

-----------------------------------------------------------------------------
(* In all levels except the last, bit N is set iff the N-th word of the    *)
(* next level is nonzero, after any sequence of hbitmap_set and            *)
(* hbitmap_reset, and level 0 keeps its sentinel.                          *)
LevelsAgree ==
    /\ levels[Bottom] \subseteq 0 .. Size - 1
    /\ \A i \in 0 .. Bottom - 1 :
           levels[i] = {Above(b) : b \in levels[i + 1]}
                         \cup (IF i = 0 THEN {Sentinel} ELSE {})

(* The bitmap is a set of bits with their number, whose iterator returns   *)
(* them in order and misses at most what is set after it began, as the     *)
(* comment on hbitmap_iter_init promises to whoever resets only bits that  *)
(* it has passed; none of its assertions fails.                            *)
Abstract == INSTANCE BitSet WITH bits <- levels[Bottom]
ImplementsBitSet == Abstract!Spec

=============================================================================
