---------------------------- MODULE ApLibFormat -----------------------------
(***************************************************************************)
(* What an aPLib stream says, independently of how it is read: a text is   *)
(* a first byte and a sequence of tokens, each of which puts bytes behind  *)
(* the text so far; a stream is the tokens' tag bits and bytes, the bits   *)
(* gathered into bytes that stand where the first of them is needed.       *)
(*                                                                         *)
(* This computes streams: plain text by periodic repetition instead of     *)
(* byte by byte, numbers and bits written instead of read.  What they say  *)
(* is what ApLibText requires, and ApLib is compared with that.            *)
(***************************************************************************)
EXTENDS ApLibText, SequencesExt

(* Tokens.  All have the bytes they add (length) and the offset they come  *)
(* from; that of a literal is 0, and so is a single zero byte's.           *)
Literal(v)      == [kind |-> "literal", offset |-> 0, length |-> 1, byte |-> v]
Match(o, n)     == [kind |-> "match", offset |-> o, length |-> n, byte |-> 0]
Again(o, n)     == [kind |-> "again", offset |-> o, length |-> n, byte |-> 0]
Short(o, n)     == [kind |-> "short", offset |-> o, length |-> n, byte |-> 0]
Single(o)       == [kind |-> "single", offset |-> o, length |-> 1, byte |-> 0]

(* The text after a token: its offset is the period of what it adds. *)
Adds(text, t) ==
    text \o [i \in 1 .. t.length |->
        IF t.offset = 0 THEN t.byte
        ELSE text[Len(text) - t.offset + 1 + ((i - 1) % t.offset)]]

Plain(first, tokens) == FoldLeft(Adds, <<first>>, tokens)

(* The offset of the last match among tokens, which "again" repeats. *)
LastOffset(tokens) ==
    FoldLeft(LAMBDA o, t : IF IsMatch(t) THEN t.offset ELSE o, 0, tokens)

(* t may follow tokens, after a text of n bytes. *)
MayFollow(t, tokens, n) ==
    /\ t.offset <= n
    /\ t.kind = "match" => t.length >= Shortest(t.offset)
    /\ t.kind = "again" =>
          t.offset # 0 /\ t.offset = LastOffset(tokens) /\ ~ IsMatch(Last(tokens))

-----------------------------------------------------------------------------
(* Items of a stream: bits, and whole bytes.                               *)

Bits(s) == [i \in 1 .. Len(s) |-> AsBit(s[i])]
Whole(v) == <<AsByte(v)>>

(* The n lowest binary digits of v. *)
Binary(v, n) == [i \in 1 .. n |-> (v \div 2 ^ (n - i)) % 2]

Digits(v) == CHOOSE k \in 1 .. v : 2 ^ k <= v /\ v < 2 ^ (k + 1)

(* A number of 2 or more: its digits below the first, each but the last    *)
(* followed by a 1 and the last by a 0.                                    *)
Number(v) ==
    LET n == Digits(v)
        digits == Binary(v, n)
    IN Bits([i \in 1 .. 2 * n |->
           IF i % 2 = 1 THEN digits[(i + 1) \div 2] ELSE IF i = 2 * n THEN 0 ELSE 1])

(* The numbers of a match. *)
High(t, afterMatch) ==
    IF t.kind = "again" THEN 2 ELSE t.offset \div Byte + IF afterMatch THEN 2 ELSE 3
Low(t) == IF t.kind = "again" THEN t.length ELSE t.length - Shortest(t.offset) + 2

ItemsOf(t, afterMatch) ==
    CASE t.kind = "literal" -> Bits(<<0>>) \o Whole(t.byte)
      [] t.kind = "match"   ->
            Bits(<<1, 0>>) \o Number(High(t, afterMatch))
                \o Whole(t.offset % Byte) \o Number(Low(t))
      [] t.kind = "again"   -> Bits(<<1, 0>>) \o Number(2) \o Number(Low(t))
      [] t.kind = "short"   -> Bits(<<1, 1, 0>>) \o Whole(2 * t.offset + t.length - 2)
      [] t.kind = "single"  -> Bits(<<1, 1, 1>>) \o Bits(Binary(t.offset, SingleBits))

End == Bits(<<1, 1, 0>>) \o Whole(0)

AfterMatch(tokens, i) == i > 1 /\ IsMatch(tokens[i - 1])

(* The items of the first n tokens, and of all. *)
ItemsTo(n, first, tokens) ==
    Whole(first)
        \o FlattenSeq([i \in 1 .. n |-> ItemsOf(tokens[i], AfterMatch(tokens, i))])

Items(first, tokens) == ItemsTo(Len(tokens), first, tokens) \o End

(* A stream while it is written: the tag byte that is filled, and how many *)
(* of its bits are free.                                                   *)
Written(w, item) ==
    CASE ~ item.bit -> [w EXCEPT !.data = Append(@, item.v)]
      [] item.bit /\ w.free = 0 ->
            [data |-> Append(w.data, item.v * 2 ^ (ByteBits - 1)),
             tag |-> Len(w.data) + 1, free |-> ByteBits - 1]
      [] OTHER ->
            [w EXCEPT !.data[w.tag] = @ + item.v * 2 ^ (w.free - 1), !.free = @ - 1]

Written0 == [data |-> <<>>, tag |-> 0, free |-> 0]

(* The stream after each of its items. *)
Growth(items) ==
    FoldLeft(LAMBDA ws, x : Append(ws, Written(Last(ws), x)), <<Written0>>, items)

-----------------------------------------------------------------------------
(* All that lies between a text and its stream, see ApLibText.             *)

(* v by ever more of its n digits. *)
Growing(v, n) == [j \in 1 .. n |-> v \div 2 ^ (n - j)]

Last0 == [kind |-> "end", offset |-> 0, length |-> 0, byte |-> 0]

Placed(first, tokens, i) ==
    LET t      == IF i > Len(tokens) THEN Last0 ELSE tokens[i]
        before == SubSeq(tokens, 1, i - 1)
        after  == AfterMatch(tokens, i)
        number(v) == Growing(v, Digits(v))
    IN  t @@ [place |-> Len(Plain(first, before)), item |-> Len(ItemsTo(i - 1, first, tokens)),
              last |-> LastOffset(before), after |-> after,
              high |-> CASE t.kind \in {"match", "again"} -> number(High(t, after))
                         [] t.kind = "single" -> Growing(t.offset, SingleBits)
                         [] OTHER -> <<>>,
              low  |-> IF t.kind \in {"match", "again"} THEN number(Low(t)) ELSE <<>>]

Said(first, tokens) ==
    LET items  == Items(first, tokens)
        growth == Growth(items)
    IN  [plain  |-> Plain(first, tokens),
         tokens |-> [i \in 1 .. Len(tokens) + 1 |-> Placed(first, tokens, i)],
         items  |-> items,
         marks  |-> [k \in 0 .. Len(items) |->
                        LET w == growth[k + 1]
                        IN  [used |-> Len(w.data), tag |-> w.tag, left |-> w.free]],
         code   |-> Last(growth).data]
=============================================================================
