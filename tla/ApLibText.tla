----------------------------- MODULE ApLibText ------------------------------
(***************************************************************************)
(* What it means that bytes are the compressed form of a text, as a        *)
(* relation between the two: the text is a first byte and what a sequence  *)
(* of tokens adds to it; the tokens are written as items, which are single *)
(* bits and whole bytes; and the bits are gathered into tag bytes that     *)
(* stand where the first of their bits is needed.                          *)
(*                                                                         *)
(* Nothing here is computed.  What lies between text and bytes is given    *)
(* with them, in a record e of                                             *)
(*     plain    the text,                                                  *)
(*     tokens   with the place of each in the text and among the items,    *)
(*     items    bits and bytes in the order they are needed,               *)
(*     marks    marks[k]: where in code a reader of k items stands,        *)
(*     code     the bytes,                                                 *)
(* and an entry is only compared with its neighbours and with the last, so *)
(* that the relation can be reasoned about without induction.              *)
(***************************************************************************)
EXTENDS Integers, Sequences

CONSTANTS
    Byte,           \* 256.
    ByteBits,       \* 8: bits of a byte, and so of a tag.
    SingleBits,     \* 4: bits of the offset of a single byte.
    Near,           \* 128: below it a match is two bytes longer,
    Middle,         \* 1280: from here on one byte longer,
    Distant         \* 32000: from here on two bytes.

ASSUME Sizes ==
    /\ {Byte, ByteBits, SingleBits} \subseteq Nat \ {0}
    /\ {Near, Middle, Distant} \subseteq Nat

Data == 0 .. Byte - 1

-----------------------------------------------------------------------------
(* Tokens.                                                                 *)

Kinds == {"literal", "match", "again", "short", "single", "end"}

(* A token puts length bytes behind the first place bytes of the text: the *)
(* byte itself if its offset is 0.  The last match before it had offset    *)
(* last, and after tells whether that was the token before.  Before it     *)
(* stand item items; high and low are the numbers it is written with, each *)
(* as its values by ever more of its digits.                               *)
TokenTyped(t) ==
    /\ t.kind \in Kinds
    /\ t.offset \in Nat /\ t.length \in Nat /\ t.byte \in Data
    /\ t.place \in Nat \ {0} /\ t.item \in Nat \ {0}
    /\ t.last \in Nat /\ t.after \in BOOLEAN
    /\ t.high \in Seq(Nat) /\ t.low \in Seq(Nat)

IsMatch(t) == t.kind \in {"match", "again", "short"}

(* The shortest match that a match token can say. *)
Shortest(o) ==
    2 + (IF o >= Distant THEN 1 ELSE 0) + (IF o >= Middle THEN 1 ELSE 0)
      + (IF o < Near THEN 2 ELSE 0)

(* What tokens there are. *)
Sayable(t) ==
    /\ t.kind = "literal" => t.offset = 0 /\ t.length = 1
    /\ t.kind = "single"  => t.length = 1 /\ (t.offset = 0 => t.byte = 0)
    /\ IsMatch(t)         => t.offset >= 1
    /\ t.kind = "match"   => t.length >= Shortest(t.offset)
    /\ t.kind = "again"   => t.length >= 2 /\ t.offset = t.last /\ ~ t.after
    /\ t.kind = "short"   => t.length \in {2, 3}

(* The bytes t adds repeat those that stand its offset before them. *)
AddedBy(plain, t) ==
    /\ t.offset <= t.place
    /\ t.place + t.length <= Len(plain)
    /\ \A j \in t.place + 1 .. t.place + t.length :
           plain[j] = IF t.offset = 0 THEN t.byte ELSE plain[j - t.offset]

-----------------------------------------------------------------------------
(* Items.                                                                  *)

AsBit(b) == [bit |-> TRUE, v |-> b]
AsByte(v) == [bit |-> FALSE, v |-> v]

ItemTyped(x) == \/ \E b \in {0, 1} : x = AsBit(b)
                \/ \E v \in Data : x = AsByte(v)

(* p[j], and before the first digit of p its start. *)
Reached(start, p, j) == IF j = 0 THEN start ELSE p[j]

(* x is the bit that is the j-th digit of p. *)
IsDigit(x, start, p, j) ==
    x.bit /\ p[j] = 2 * Reached(start, p, j - 1) + x.v

(* The items behind the first f spell the number v: its digits below the   *)
(* first, each followed by a bit that says whether another follows.        *)
Spelt(items, f, p, v) ==
    /\ p # <<>> /\ v = p[Len(p)]
    /\ \A j \in DOMAIN p :
           /\ IsDigit(items[f + 2 * j - 1], 1, p, j)
           /\ items[f + 2 * j] = AsBit(IF j = Len(p) THEN 0 ELSE 1)
           /\ p[j] <= v

Width(t) ==
    CASE t.kind = "literal" -> 2
      [] t.kind = "match"   -> 3 + 2 * Len(t.high) + 2 * Len(t.low)
      [] t.kind = "again"   -> 2 + 2 * Len(t.high) + 2 * Len(t.low)
      [] t.kind = "single"  -> 3 + SingleBits
      [] OTHER              -> 4

Tagged(items, f, bits) == \A j \in DOMAIN bits : items[f + j] = AsBit(bits[j])

(* t stands among the items where it says. *)
WrittenIn(items, t) ==
    LET f == t.item
        g == f + 2 + 2 * Len(t.high)
    IN  /\ f + Width(t) <= Len(items)
        /\ CASE t.kind = "literal" ->
                  Tagged(items, f, <<0>>) /\ items[f + 2] = AsByte(t.byte)
             [] t.kind = "match" ->
                  /\ Tagged(items, f, <<1, 0>>)
                  /\ Spelt(items, f + 2, t.high,
                           (t.offset \div Byte) + (IF t.after THEN 2 ELSE 3))
                  /\ items[g + 1] = AsByte(t.offset % Byte)
                  /\ Spelt(items, g + 1, t.low, (t.length - Shortest(t.offset)) + 2)
             [] t.kind = "again" ->
                  /\ Tagged(items, f, <<1, 0>>)
                  /\ Spelt(items, f + 2, t.high, 2)
                  /\ Spelt(items, g, t.low, t.length)
             [] t.kind = "short" ->
                  /\ Tagged(items, f, <<1, 1, 0>>)
                  /\ items[f + 4] = AsByte(2 * t.offset + (t.length - 2))
             [] t.kind = "single" ->
                  /\ Tagged(items, f, <<1, 1, 1>>)
                  /\ Len(t.high) = SingleBits /\ t.high[SingleBits] = t.offset
                  /\ \A j \in 1 .. SingleBits : IsDigit(items[f + 3 + j], 0, t.high, j)
             [] t.kind = "end" ->
                  Tagged(items, f, <<1, 1, 0>>) /\ items[f + 4] = AsByte(0)

-----------------------------------------------------------------------------
(* Bytes.                                                                  *)

(* From item to item: a byte is the next one of the code; a bit is the     *)
(* next lower one of the tag byte, or the highest of a new one.            *)
Advances(code, x, from, to) ==
    IF x.bit
    THEN /\ to = IF from.left = 0
                 THEN [used |-> from.used + 1, tag |-> from.used + 1, left |-> ByteBits - 1]
                 ELSE [used |-> from.used, tag |-> from.tag, left |-> from.left - 1]
         /\ (code[to.tag] \div 2 ^ to.left) % 2 = x.v
    ELSE /\ to = [used |-> from.used + 1, tag |-> from.tag, left |-> from.left]
         /\ code[to.used] = x.v

MarkTyped(m, code) ==
    /\ m.used \in 0 .. Len(code) /\ m.tag \in 0 .. m.used /\ m.left \in 0 .. ByteBits - 1
    /\ m.left > 0 => m.tag > 0

-----------------------------------------------------------------------------
Sequence(s) == s \in Seq({s[i] : i \in DOMAIN s})

TextSays(e) ==
    /\ e.plain \in Seq(Data)
    /\ Sequence(e.tokens) /\ e.tokens # <<>>
    /\ \A i \in DOMAIN e.tokens : TokenTyped(e.tokens[i]) /\ Sayable(e.tokens[i])
    /\ e.tokens[1].place = 1 /\ e.tokens[1].last = 0 /\ ~ e.tokens[1].after
    /\ \A i \in DOMAIN e.tokens :
           LET t == e.tokens[i]
               next == e.tokens[i + 1]
           IN  IF i = Len(e.tokens)
               THEN t.kind = "end" /\ t.place = Len(e.plain)
               ELSE /\ t.kind # "end"
                    /\ AddedBy(e.plain, t)
                    /\ next.place = t.place + t.length
                    /\ next.last = IF IsMatch(t) THEN t.offset ELSE t.last
                    /\ next.after = IsMatch(t)

TokensWritten(e) ==
    /\ Sequence(e.items) /\ \A k \in DOMAIN e.items : ItemTyped(e.items[k])
    /\ e.items[1] = AsByte(e.plain[1])
    /\ e.tokens[1].item = 1
    /\ \A i \in DOMAIN e.tokens :
           LET t == e.tokens[i]
           IN  /\ WrittenIn(e.items, t)
               /\ IF i = Len(e.tokens)
                  THEN t.item + Width(t) = Len(e.items)
                  ELSE e.tokens[i + 1].item = t.item + Width(t)

ItemsWritten(e) ==
    /\ e.code \in Seq(Data)
    /\ \A k \in 0 .. Len(e.items) : MarkTyped(e.marks[k], e.code)
    /\ e.marks[0] = [used |-> 0, tag |-> 0, left |-> 0]
    /\ \A k \in DOMAIN e.items :
           Advances(e.code, e.items[k], e.marks[k - 1], e.marks[k])
    /\ e.marks[Len(e.items)].used = Len(e.code)

(* e.code is the compressed form of e.plain. *)
Says(e) == TextSays(e) /\ TokensWritten(e) /\ ItemsWritten(e)
=============================================================================
