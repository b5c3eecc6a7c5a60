----------------------------- MODULE ApLibProofs ----------------------------
(***************************************************************************)
(* aplib_decompress stays within its limit and its result, for any bytes,  *)
(* limit and sizes; and what is the compressed form of a text, in the      *)
(* sense of ApLibText, unpacks to that text and to nothing else.           *)
(*                                                                         *)
(* The second needs to know at every step where the decoder stands in the  *)
(* tokens and items of the text: Faithful says so.  Its lemmas go from     *)
(* what the reader is given (an item), over numbers, to the steps within a *)
(* token and those that end one, and last to what is refused.              *)
(***************************************************************************)
EXTENDS ApLib, TLAPS

(* The result is of bytes, numbers are numbers, and a copy that has begun  *)
(* still has a byte to write: without the last part one more would be.     *)
Inv ==
    /\ Stream(stream)
    /\ position \in Nat
    /\ output \in Seq(Data)
    /\ pc = "first" => output = <<>>
    /\ pc \in {"digit", "more"} => value >= 1
    /\ value \in Nat /\ offset \in Nat /\ remaining \in Nat /\ previous \in Nat
    /\ WithinLimit
    /\ pc = "copy" => remaining >= 1

-----------------------------------------------------------------------------
LEMMA StreamFacts ==
    ASSUME Stream(stream)
    PROVE  /\ Byte \in Nat \ {0}
           /\ stream.limit \in Nat \ {0}
           /\ stream.data \in Seq(Data)
           /\ 0 \in Data
BY Sizes DEF Stream, Data

(* What the reader gives, and what is left of it. *)
LEMMA TakenByte ==
    ASSUME Stream(stream), position \in Nat, TakeByte
    PROVE  NextByte \in Data /\ NextByte \in Nat /\ position' \in Nat
BY StreamFacts DEF TakeByte, HasByte, NextByte, Data

LEMMA TakenBit ==
    ASSUME position \in Nat, TakeBit
    PROVE  position' \in Nat /\ Bit \in {0, 1}
BY DEF TakeBit, Bit

LEMMA CopyBegun ==
    ASSUME NEW o \in Nat, NEW n \in Nat \ {0}, CopyMatch(o, n), output' = output,
           stream' = stream, output \in Seq(Data), Stream(stream),
           Len(output) <= stream.limit
    PROVE  /\ WithinLimit' /\ pc' = "copy"
           /\ offset' \in Nat /\ remaining' \in Nat /\ remaining' >= 1
BY StreamFacts DEF CopyMatch, Fits, Reaches, Room, WithinLimit

LEMMA Appended ==
    ASSUME NEW v \in Data, AppendByte(v), stream' = stream,
           output \in Seq(Data), Stream(stream)
    PROVE  output' \in Seq(Data) /\ WithinLimit' /\ pc' = "token"
<1>1. output' \in Seq(Data) /\ Len(output') = Len(output) + 1
  BY DEF AppendByte
<1> QED
  BY <1>1, StreamFacts DEF AppendByte, Fits, Room, WithinLimit

-----------------------------------------------------------------------------
LEMMA Initially == Init => Inv
<1> SUFFICES ASSUME Init PROVE Inv
  OBVIOUS
<1>1. Stream(stream)
  BY StreamsTyped DEF Init
<1> QED
  BY <1>1, StreamFacts DEF Init, Inv, WithinLimit

LEMMA Preserved == Inv /\ [Next]_vars => Inv'
<1> SUFFICES ASSUME Inv, [Next]_vars PROVE Inv'
  OBVIOUS
<1> USE DEF At
<1>i. /\ Stream(stream) /\ position \in Nat /\ output \in Seq(Data)
      /\ value \in Nat /\ offset \in Nat /\ remaining \in Nat /\ previous \in Nat
      /\ Len(output) <= stream.limit
      /\ Len(output) \in Nat /\ stream.limit \in Nat \ {0} /\ Byte \in Nat \ {0}
  BY StreamFacts DEF Inv, WithinLimit
<1>s. ASSUME stream' = stream PROVE Stream(stream)'
  BY <1>i, <1>s DEF Stream
<1>1. CASE First
  <2>1. NextByte \in Data /\ position' \in Nat
    BY <1>1, <1>i, TakenByte DEF First
  <2>2. output' \in Seq(Data) /\ Len(output') = 1
    BY <1>1, <2>1 DEF First
  <2> QED
    BY <1>1, <1>i, <1>s, <2>1, <2>2 DEF First, Inv, WithinLimit, Room
<1>2. CASE Token
  BY <1>2, <1>i, <1>s, TakenBit DEF Token, Inv, WithinLimit
<1>3. CASE Second
  BY <1>3, <1>i, <1>s, TakenBit DEF Second, ReadNumber, Inv, WithinLimit
<1>4. CASE Third
  BY <1>4, <1>i, <1>s, TakenBit, Sizes DEF Third, Inv, WithinLimit
<1>5. CASE Literal
  <2>1. NextByte \in Data /\ position' \in Nat
    BY <1>5, <1>i, TakenByte DEF Literal
  <2>2. output' \in Seq(Data) /\ WithinLimit' /\ pc' = "token"
    BY <1>5, <1>i, <2>1, Appended DEF Literal
  <2> QED
    BY <1>5, <1>i, <1>s, <2>1, <2>2 DEF Literal, Inv
<1>6. CASE Digit
  <2>1. position' \in Nat /\ Bit \in {0, 1}
    BY <1>6, <1>i, TakenBit DEF Digit
  <2>2. value >= 1
    BY <1>6 DEF Digit, Inv
  <2> QED
    BY <1>6, <1>i, <1>s, <2>1, <2>2 DEF Digit, Inv, WithinLimit
<1>7. CASE More
  BY <1>7, <1>i, <1>s, TakenBit DEF More, Inv, WithinLimit
<1>8. CASE MatchAgain
  <2>0. TakeBit
    BY <1>8 DEF MatchAgain, NumberOf
  <2>1. position' \in Nat
    BY <2>0, <1>i, TakenBit
  <2> QED
    BY <1>8, <1>i, <1>s, <2>1 DEF MatchAgain, NumberOf, ReadNumber, Inv, WithinLimit
<1>9. CASE HighPart
  <2>1. Bias \in {2, 3}
    BY DEF Bias
  <2> QED
    BY <1>9, <1>i, <1>s, <2>1, TakenBit DEF HighPart, NumberOf, Inv, WithinLimit
<1>10. CASE LowPart
  <2>1. NextByte \in Nat /\ position' \in Nat
    BY <1>10, <1>i, TakenByte DEF LowPart
  <2>2. offset * Byte \in Nat
    BY <1>i
  <2> QED
    BY <1>10, <1>i, <1>s, <2>1, <2>2 DEF LowPart, ReadNumber, Inv, WithinLimit
<1>11. CASE Match
  <2>1. position' \in Nat /\ value >= 1
    BY <1>11, <1>i, TakenBit DEF Match, NumberOf, Inv
  <2>2. Extra(offset) \in Nat
    BY DEF Extra
  <2>3. value + Extra(offset) \in Nat \ {0}
    BY <1>i, <2>1, <2>2
  <2>4. /\ WithinLimit' /\ pc' = "copy"
        /\ offset' \in Nat /\ remaining' \in Nat /\ remaining' >= 1
    BY <1>11, <1>i, <2>3, CopyBegun DEF Match, NumberOf
  <2> QED
    BY <1>11, <1>i, <1>s, <2>1, <2>4 DEF Match, NumberOf, MatchedFrom, Inv
<1>12. CASE MatchOfAgain
  <2>0. TakeBit
    BY <1>12 DEF MatchOfAgain, NumberOf
  <2>1. position' \in Nat
    BY <2>0, <1>i, TakenBit
  <2>2. value \in Nat \ {0}
    BY <1>12, <1>i DEF MatchOfAgain, NumberOf, Inv
  <2>4. /\ WithinLimit' /\ pc' = "copy"
        /\ offset' \in Nat /\ remaining' \in Nat /\ remaining' >= 1
    BY <1>12, <1>i, <2>2, CopyBegun DEF MatchOfAgain, NumberOf
  <2> QED
    BY <1>12, <1>i, <1>s, <2>1, <2>4 DEF MatchOfAgain, NumberOf, MatchedFrom, Inv
<1>13. CASE ShortMatch
  <2>1. NextByte \in Nat /\ position' \in Nat
    BY <1>13, <1>i, TakenByte DEF ShortMatch
  <2>2. NextByte \div 2 \in Nat /\ 2 + (NextByte % 2) \in Nat \ {0}
    BY <2>1
  <2>4. /\ WithinLimit' /\ pc' = "copy"
        /\ offset' \in Nat /\ remaining' \in Nat /\ remaining' >= 1
    BY <1>13, <1>i, <2>2, CopyBegun DEF ShortMatch
  <2> QED
    BY <1>13, <1>i, <1>s, <2>1, <2>2, <2>4 DEF ShortMatch, MatchedFrom, Inv
<1>14. CASE End
  BY <1>14, <1>i, <1>s, TakenByte DEF End, Inv, WithinLimit
<1>15. CASE SingleBit
  BY <1>15, <1>i, <1>s, TakenBit DEF SingleBit, Inv, WithinLimit
<1>16. CASE Single
  <2>0. position' \in Nat /\ Bit \in {0, 1}
    BY <1>16, <1>i, TakenBit DEF Single
  <2>1. position' \in Nat /\ 2 * value + Bit \in Nat
    BY <1>i, <2>0
  <2>2. CASE 2 * value + Bit = 0
    <3>1. output' \in Seq(Data) /\ WithinLimit' /\ pc' = "token"
      BY <1>16, <1>i, <2>2, Appended, StreamFacts DEF Single
    <3> QED
      BY <1>16, <1>i, <1>s, <2>1, <2>2, <3>1 DEF Single, Inv
  <2>3. CASE 2 * value + Bit # 0
    <3>1. /\ WithinLimit' /\ pc' = "copy"
          /\ offset' \in Nat /\ remaining' \in Nat /\ remaining' >= 1
      BY <1>16, <1>i, <2>1, <2>3, CopyBegun DEF Single
    <3> QED
      BY <1>16, <1>i, <1>s, <2>1, <2>3, <3>1 DEF Single, Inv
  <2> QED
    BY <2>2, <2>3
<1>17. CASE CopyByte
  <2>1. /\ remaining >= 1 /\ remaining <= stream.limit - Len(output)
        /\ 1 <= offset /\ offset <= Len(output)
    BY <1>17 DEF CopyByte, Inv, WithinLimit, Room, Reaches
  <2>2. output[Len(output) - offset + 1] \in Data
    BY <1>i, <2>1
  <2>3. output' \in Seq(Data) /\ Len(output') = Len(output) + 1
    BY <1>17, <1>i, <2>2 DEF CopyByte
  <2>4. remaining' \in Nat /\ (pc' = "copy" => remaining' >= 1) /\ pc' \in {"token", "copy"}
    BY <1>17, <1>i, <2>1 DEF CopyByte
  <2>5. WithinLimit'
    BY <1>17, <1>i, <2>1, <2>3 DEF CopyByte, WithinLimit, Room, Reaches
  <2> QED
    BY <1>17, <1>i, <1>s, <2>3, <2>4, <2>5 DEF CopyByte, reader, Inv
<1>18. CASE Raise
  BY <1>18, <1>i, <1>s DEF Raise, reader, Inv, WithinLimit
<1>19. CASE Returned \/ UNCHANGED vars
  BY <1>19, <1>i, <1>s DEF Returned, vars, reader, Inv, WithinLimit, Room, Reaches
<1> QED
  BY <1>1, <1>2, <1>3, <1>4, <1>5, <1>6, <1>7, <1>8, <1>9, <1>10, <1>11, <1>12,
     <1>13, <1>14, <1>15, <1>16, <1>17, <1>18, <1>19 DEF Next

(* The result never outgrows its limit and no copy starts before it. *)
THEOREM DecompressionWithinLimit == Spec => []WithinLimit
<1>1. Inv => WithinLimit
  BY DEF Inv
<1> QED
  BY Initially, Preserved, <1>1, PTL DEF Spec

-----------------------------------------------------------------------------
(* k items have been read. *)
Reader(e, k) ==
    /\ k \in 0 .. Len(e.items)
    /\ position = e.marks[k].used /\ bitsLeft = e.marks[k].left
    /\ bitsLeft > 0 => tag = e.code[e.marks[k].tag]
    /\ position <= Len(stream.data)

(* The result is the first n bytes of the text. *)
Shows(e, n) ==
    /\ Len(output) = n /\ n <= Len(e.plain)
    /\ \A j \in 1 .. n : output[j] = e.plain[j]

(* The number that begins behind f items is read as far as a digit or the  *)
(* bit behind one.                                                         *)
InNumber(e, f, p) ==
    \/ pc = "digit" /\ \E j \in 0 .. Len(p) - 1 :
          Reader(e, f + 2 * j) /\ value = Reached(1, p, j)
    \/ pc = "more" /\ \E j \in 1 .. Len(p) :
          Reader(e, f + 2 * j - 1) /\ value = p[j]

(* The decoder is in the midst of t. *)
Within(e, t) ==
    LET f == t.item
        g == f + 2 + 2 * Len(t.high)
    IN  \/ pc = "token" /\ Reader(e, f)
        \/ pc = "literal" /\ t.kind = "literal" /\ Reader(e, f + 1)
        \/ pc = "second" /\ t.kind # "literal" /\ Reader(e, f + 1)
        \/ pc = "third" /\ t.kind \in {"short", "single", "end"} /\ Reader(e, f + 2)
        \/ pc = "short" /\ t.kind \in {"short", "end"} /\ Reader(e, f + 3)
        \/ pc = "single" /\ t.kind = "single" /\ \E j \in 0 .. SingleBits - 1 :
              Reader(e, f + 3 + j) /\ value = Reached(0, t.high, j) /\ remaining = SingleBits - j
        \/ use = "offset" /\ t.kind \in {"match", "again"} /\ InNumber(e, f + 2, t.high)
        \/ pc = "low" /\ t.kind = "match" /\ Reader(e, g) /\ offset = t.offset \div Byte
        \/ use = "length" /\ t.kind = "match" /\ InNumber(e, g + 1, t.low)
              /\ offset = t.offset
        \/ use = "again" /\ t.kind = "again" /\ InNumber(e, g, t.low)
              /\ offset = t.offset

(* It has what stands before t, and is in the midst of t. *)
Reading(e, t) ==
    /\ Shows(e, t.place) /\ lastMatch = t.after /\ previous = t.last
    /\ Within(e, t)

(* It has read t and copies what t adds. *)
Copying(e, t) ==
    /\ pc = "copy" /\ t.kind \in {"match", "again", "short", "single"}
    /\ offset = t.offset /\ offset >= 1 /\ remaining \in 1 .. t.length
    /\ Shows(e, t.place + t.length - remaining)
    /\ Reader(e, t.item + Width(t))
    /\ lastMatch = IsMatch(t) /\ previous = IF IsMatch(t) THEN offset ELSE t.last

Decodes(e) ==
    \/ pc = "first" /\ Reader(e, 0) /\ previous = 0 /\ lastMatch = FALSE
    \/ \E i \in DOMAIN e.tokens : Reading(e, e.tokens[i]) \/ Copying(e, e.tokens[i])
    \/ pc = "done" /\ Reader(e, Len(e.items)) /\ Shows(e, Len(e.plain))
    \/ pc = "error" /\ (Len(stream.data) >= Len(e.code) => Len(e.plain) > stream.limit)

(* What has been read and written is the beginning of what the stream says. *)
Faithful == stream.kind # "arbitrary" => Decodes(stream.said)

-----------------------------------------------------------------------------
(* The reader over what was written.                                       *)

LEMMA Agreement ==
    ASSUME Stream(stream), stream.kind # "arbitrary"
    PROVE  /\ Says(stream.said)
           /\ \A k \in 1 .. Len(stream.data) :
                 k <= Len(stream.said.code) => stream.data[k] = stream.said.code[k]
           /\ stream.kind = "genuine" <=> Len(stream.data) >= Len(stream.said.code)
           /\ Len(stream.data) \in Nat /\ Len(stream.said.code) \in Nat
<1>1. Says(stream.said) /\ stream.data \in Seq(Data) /\ stream.said.code \in Seq(Data)
  BY DEF Stream, Says, ItemsWritten
<1> QED
  BY <1>1 DEF Stream

(* Where the reader stands before and after an item. *)
LEMMA Marks ==
    ASSUME NEW e, Says(e), NEW k \in Nat, k < Len(e.items)
    PROVE  /\ Len(e.items) \in Nat /\ Len(e.code) \in Nat
           /\ ItemTyped(e.items[k + 1])
           /\ MarkTyped(e.marks[k], e.code) /\ MarkTyped(e.marks[k + 1], e.code)
           /\ Advances(e.code, e.items[k + 1], e.marks[k], e.marks[k + 1])
<1>1. Sequence(e.items) /\ e.code \in Seq(Data)
  BY DEF Says, TokensWritten, ItemsWritten
<1>2. Len(e.items) \in Nat /\ DOMAIN e.items = 1 .. Len(e.items) /\ Len(e.code) \in Nat
  BY <1>1 DEF Sequence
<1>3. k + 1 \in DOMAIN e.items /\ (k + 1) - 1 = k /\ k \in 0 .. Len(e.items)
      /\ k + 1 \in 0 .. Len(e.items)
  BY <1>2
<1> QED
  BY <1>2, <1>3 DEF Says, TokensWritten, ItemsWritten

LEMMA Which ==
    /\ \A b : AsBit(b).bit /\ AsBit(b).v = b
    /\ \A v : ~ AsByte(v).bit /\ AsByte(v).v = v
BY DEF AsBit, AsByte

LEMMA ABit ==
    ASSUME NEW x, ItemTyped(x), x.bit
    PROVE  x.v \in {0, 1}
<1>1. ASSUME NEW b \in {0, 1}, x = AsBit(b) PROVE x.v \in {0, 1}
  BY <1>1 DEF AsBit
<1>2. ASSUME NEW v \in Data, x = AsByte(v) PROVE FALSE
  BY <1>2 DEF AsByte
<1> QED
  BY <1>1, <1>2 DEF ItemTyped

(* What one item adds to what was read. *)
LEMMA BitAdvances ==
    ASSUME NEW code, NEW x, NEW from, NEW to, x.bit, Advances(code, x, from, to)
    PROVE  /\ to.used = IF from.left = 0 THEN from.used + 1 ELSE from.used
           /\ to.tag = IF from.left = 0 THEN from.used + 1 ELSE from.tag
           /\ to.left = IF from.left = 0 THEN ByteBits - 1 ELSE from.left - 1
           /\ (code[to.tag] \div 2 ^ to.left) % 2 = x.v
<1>1. /\ to = IF from.left = 0
               THEN [used |-> from.used + 1, tag |-> from.used + 1, left |-> ByteBits - 1]
               ELSE [used |-> from.used, tag |-> from.tag, left |-> from.left - 1]
      /\ (code[to.tag] \div 2 ^ to.left) % 2 = x.v
  BY Zenon DEF Advances
<1>2. CASE from.left = 0
  <2>1. to = [used |-> from.used + 1, tag |-> from.used + 1, left |-> ByteBits - 1]
    BY <1>1, <1>2, Zenon
  <2>2. to.used = from.used + 1 /\ to.tag = from.used + 1 /\ to.left = ByteBits - 1
    BY <2>1
  <2> QED
    BY <1>1, <1>2, <2>2, Zenon
<1>3. CASE from.left # 0
  <2>1. to = [used |-> from.used, tag |-> from.tag, left |-> from.left - 1]
    BY <1>1, <1>3, Zenon
  <2>2. to.used = from.used /\ to.tag = from.tag /\ to.left = from.left - 1
    BY <2>1
  <2> QED
    BY <1>1, <1>3, <2>2, Zenon
<1> QED
  BY <1>2, <1>3

LEMMA ByteAdvances ==
    ASSUME NEW code, NEW x, NEW from, NEW to, ~ x.bit, Advances(code, x, from, to)
    PROVE  /\ to.used = from.used + 1 /\ to.tag = from.tag /\ to.left = from.left
           /\ code[to.used] = x.v
<1>1. /\ to = [used |-> from.used + 1, tag |-> from.tag, left |-> from.left]
      /\ code[to.used] = x.v
  BY Zenon DEF Advances
<1> QED
  BY <1>1

(* There is room for one more below c, so below what is no less than c. *)
LEMMA RoomForOne ==
    ASSUME NEW p \in Nat, NEW c \in Nat, NEW d \in Nat, NEW u, u = p + 1, u <= c, d >= c
    PROVE  p < d
OBVIOUS

(* What it is given next is the next item. *)
LEMMA BitSeen ==
    ASSUME Stream(stream), stream.kind # "arbitrary", NEW e, e = stream.said,
           NEW k \in Nat, k < Len(e.items), e.items[k + 1].bit,
           Reader(e, k), HasBit
    PROVE  /\ Bit = e.items[k + 1].v /\ Bit \in {0, 1}
           /\ Tag = e.code[e.marks[k + 1].tag] /\ BitsLeft = e.marks[k + 1].left
           /\ e.marks[k + 1].used = IF bitsLeft = 0 THEN position + 1 ELSE position
           /\ e.marks[k + 1].used <= Len(stream.data)
<1> DEFINE m == e.marks[k]
           n == e.marks[k + 1]
<1>1. /\ Says(e) /\ Len(stream.data) \in Nat
      /\ \A j \in 1 .. Len(stream.data) : j <= Len(e.code) => stream.data[j] = e.code[j]
  BY Agreement
<1>2. /\ Len(e.items) \in Nat /\ Len(e.code) \in Nat /\ ItemTyped(e.items[k + 1])
      /\ MarkTyped(m, e.code) /\ MarkTyped(n, e.code)
      /\ Advances(e.code, e.items[k + 1], m, n)
  BY <1>1, Marks
<1>3. /\ position = m.used /\ bitsLeft = m.left /\ position <= Len(stream.data)
      /\ bitsLeft > 0 => tag = e.code[m.tag]
  BY DEF Reader
<1>4. e.items[k + 1].v \in {0, 1}
  BY <1>2, ABit
<1>5. /\ m.used \in Nat /\ m.left \in 0 .. ByteBits - 1 /\ n.used <= Len(e.code)
      /\ ByteBits \in Nat \ {0}
  BY <1>2, Sizes DEF MarkTyped
<1>6. /\ n.used = IF m.left = 0 THEN m.used + 1 ELSE m.used
      /\ n.tag = IF m.left = 0 THEN m.used + 1 ELSE m.tag
      /\ n.left = IF m.left = 0 THEN ByteBits - 1 ELSE m.left - 1
      /\ (e.code[n.tag] \div 2 ^ n.left) % 2 = e.items[k + 1].v
  <2>1. Advances(e.code, e.items[k + 1], m, n)
    BY <1>2, Zenon
  <2> QED
    BY <2>1, BitAdvances
<1>7. Tag = e.code[n.tag] /\ n.used <= Len(stream.data)
  <2>1. CASE m.left = 0
    <3>0. bitsLeft = 0 /\ ~ (bitsLeft > 0)
      BY <1>3, <2>1
    <3>1. position < Len(stream.data) /\ Tag = stream.data[position + 1]
      BY <3>0 DEF HasBit, HasByte, Tag, NextByte
    <3>2. position + 1 = n.used /\ position \in Nat /\ position + 1 = n.tag
      BY <1>3, <1>5, <1>6, <2>1
    <3>3. position + 1 <= Len(e.code)
      BY <1>5, <3>2
    <3>4. position + 1 \in 1 .. Len(stream.data)
      BY <1>1, <3>1, <3>2
    <3>5. stream.data[position + 1] = e.code[position + 1]
      BY <1>1, <3>3, <3>4
    <3> QED
      BY <3>1, <3>2, <3>4, <3>5
  <2>2. CASE m.left # 0
    <3>1. bitsLeft # 0 /\ bitsLeft > 0
      BY <1>3, <1>5, <2>2
    <3>2. Tag = tag /\ tag = e.code[m.tag]
      BY <1>3, <3>1, Zenon DEF Tag
    <3>3. n.tag = m.tag /\ n.used = m.used
      BY <1>6, <2>2, Zenon
    <3>4. n.used <= Len(stream.data)
      BY <1>3, <3>3, Zenon
    <3> QED
      BY <3>2, <3>3, <3>4, Zenon
  <2> QED
    BY <2>1, <2>2
<1>8. BitsLeft = n.left
  BY <1>3, <1>5, <1>6 DEF BitsLeft
<1>9. Bit = e.items[k + 1].v
  BY <1>4, <1>6, <1>7, <1>8 DEF Bit
<1>10. n.used = IF bitsLeft = 0 THEN position + 1 ELSE position
  BY <1>3, <1>6
<1> QED
  BY <1>4, <1>7, <1>8, <1>9, <1>10

LEMMA ByteSeen ==
    ASSUME Stream(stream), stream.kind # "arbitrary", NEW e, e = stream.said,
           NEW k \in Nat, k < Len(e.items), ~ e.items[k + 1].bit,
           Reader(e, k), HasByte
    PROVE  /\ NextByte = e.items[k + 1].v
           /\ e.marks[k + 1].used = position + 1
           /\ e.marks[k + 1].tag = e.marks[k].tag
           /\ e.marks[k + 1].left = bitsLeft
<1> DEFINE m == e.marks[k]
           n == e.marks[k + 1]
<1>1. /\ Says(e) /\ Len(stream.data) \in Nat
      /\ \A j \in 1 .. Len(stream.data) : j <= Len(e.code) => stream.data[j] = e.code[j]
  BY Agreement
<1>2. /\ Len(e.items) \in Nat /\ Len(e.code) \in Nat
      /\ MarkTyped(m, e.code) /\ MarkTyped(n, e.code)
      /\ Advances(e.code, e.items[k + 1], m, n)
  BY <1>1, Marks
<1>3. position = m.used /\ bitsLeft = m.left
  BY DEF Reader
<1>4. /\ m.used \in Nat /\ n.used <= Len(e.code)
      /\ n.used = m.used + 1 /\ n.tag = m.tag /\ n.left = m.left
      /\ e.code[n.used] = e.items[k + 1].v
  <2>1. m.used \in Nat /\ n.used <= Len(e.code)
    BY <1>2 DEF MarkTyped
  <2>2. Advances(e.code, e.items[k + 1], m, n)
    BY <1>2, Zenon
  <2>3. /\ n.used = m.used + 1 /\ n.tag = m.tag /\ n.left = m.left
        /\ e.code[n.used] = e.items[k + 1].v
    BY <2>2, ByteAdvances
  <2> QED
    BY <2>1, <2>3, Zenon
<1>5. position + 1 = n.used /\ position \in Nat
  BY <1>3, <1>4
<1>6. position + 1 <= Len(e.code)
  BY <1>4, <1>5
<1>7. position + 1 \in 1 .. Len(stream.data)
  BY <1>1, <1>5 DEF HasByte
<1>8. NextByte = e.code[position + 1]
  BY <1>1, <1>6, <1>7 DEF NextByte
<1> QED
  BY <1>3, <1>4, <1>5, <1>8

LEMMA BitRead ==
    ASSUME Stream(stream), stream.kind # "arbitrary", NEW e, e = stream.said,
           NEW k \in Nat, k < Len(e.items), e.items[k + 1].bit,
           Reader(e, k), stream' = stream, TakeBit
    PROVE  Reader(e, k + 1)' /\ Bit = e.items[k + 1].v /\ Bit \in {0, 1}
<1>1. /\ Bit = e.items[k + 1].v /\ Bit \in {0, 1}
      /\ Tag = e.code[e.marks[k + 1].tag] /\ BitsLeft = e.marks[k + 1].left
      /\ e.marks[k + 1].used = IF bitsLeft = 0 THEN position + 1 ELSE position
      /\ e.marks[k + 1].used <= Len(stream.data)
  BY BitSeen DEF TakeBit
<1>2. k + 1 \in 0 .. Len(e.items)
  BY DEF Reader
<1> QED
  BY <1>1, <1>2 DEF Reader, TakeBit

LEMMA ByteRead ==
    ASSUME Stream(stream), stream.kind # "arbitrary", NEW e, e = stream.said,
           NEW k \in Nat, k < Len(e.items), ~ e.items[k + 1].bit,
           Reader(e, k), stream' = stream, TakeByte
    PROVE  Reader(e, k + 1)' /\ NextByte = e.items[k + 1].v
<1>1. /\ NextByte = e.items[k + 1].v
      /\ e.marks[k + 1].used = position + 1
      /\ e.marks[k + 1].tag = e.marks[k].tag
      /\ e.marks[k + 1].left = bitsLeft
  BY ByteSeen DEF TakeByte
<1>2. k + 1 \in 0 .. Len(e.items)
  BY DEF Reader
<1>3. position \in Nat /\ position < Len(stream.data) /\ Len(stream.data) \in Nat
  <2>1. Says(e)
    BY Agreement
  <2>2. e.marks[k].used \in Nat
    BY <2>1, Marks DEF MarkTyped
  <2> QED
    BY <2>2, Agreement DEF Reader, TakeByte, HasByte
<1>4. position' = position + 1 /\ tag' = tag /\ bitsLeft' = bitsLeft
  BY DEF TakeByte
<1>5. position' <= Len(stream'.data)
  BY <1>3, <1>4
<1> QED
  BY <1>1, <1>2, <1>4, <1>5 DEF Reader

(* A whole stream has what is needed next. *)
LEMMA Ready ==
    ASSUME Stream(stream), stream.kind = "genuine", NEW e, e = stream.said,
           NEW k \in Nat, k < Len(e.items), Reader(e, k)
    PROVE  IF e.items[k + 1].bit THEN HasBit ELSE HasByte
<1> DEFINE m == e.marks[k]
           n == e.marks[k + 1]
<1>1. Says(e) /\ Len(stream.data) \in Nat /\ Len(stream.data) >= Len(e.code)
  BY Agreement
<1>2. /\ Len(e.items) \in Nat /\ Len(e.code) \in Nat
      /\ MarkTyped(m, e.code) /\ MarkTyped(n, e.code)
      /\ Advances(e.code, e.items[k + 1], m, n)
  BY <1>1, Marks
<1>3. position = m.used /\ bitsLeft = m.left
  BY DEF Reader
<1>4. m.used \in Nat /\ m.left \in Nat /\ n.used \in Nat /\ n.used <= Len(e.code)
  BY <1>2 DEF MarkTyped
<1>5. CASE e.items[k + 1].bit /\ m.left = 0
  <2>1. n.used = m.used + 1
    BY <1>2, <1>5, BitAdvances
  <2>2. position < Len(stream.data)
    BY <1>1, <1>2, <1>3, <1>4, <2>1, RoomForOne, Zenon
  <2> QED
    BY <1>5, <2>2 DEF HasBit, HasByte
<1>6. CASE e.items[k + 1].bit /\ m.left # 0
  BY <1>3, <1>4, <1>6 DEF HasBit
<1>7. CASE ~ e.items[k + 1].bit
  <2>1. n.used = m.used + 1
    BY <1>2, <1>7, ByteAdvances
  <2>2. position < Len(stream.data)
    BY <1>1, <1>2, <1>3, <1>4, <2>1, RoomForOne, Zenon
  <2> QED
    BY <1>7, <2>2 DEF HasByte
<1> QED
  BY <1>5, <1>6, <1>7

-----------------------------------------------------------------------------
(* Numbers.                                                                *)

LEMMA ItemsCounted ==
    ASSUME NEW e, Says(e)
    PROVE  Len(e.items) \in Nat /\ Len(e.tokens) \in Nat /\ Len(e.plain) \in Nat
           /\ DOMAIN e.tokens = 1 .. Len(e.tokens)
BY DEF Says, TextSays, TokensWritten, Sequence

LEMMA DigitRead ==
    ASSUME Stream(stream), stream.kind # "arbitrary", NEW e, e = stream.said,
           NEW f \in Nat, NEW p \in Seq(Nat), NEW v, Spelt(e.items, f, p, v),
           f + 2 * Len(p) <= Len(e.items),
           InNumber(e, f, p), pc = "digit", HasBit
    PROVE  /\ 2 * value + Bit <= v
           /\ stream' = stream /\ Digit => InNumber(e, f, p)'
<1>1. PICK j \in 0 .. Len(p) - 1 : Reader(e, f + 2 * j) /\ value = Reached(1, p, j)
  BY DEF InNumber
<1>2. Len(e.items) \in Nat
  BY Agreement, ItemsCounted
<1>3. /\ f + 2 * j \in Nat /\ f + 2 * j < Len(e.items) /\ j + 1 \in 1 .. Len(p)
      /\ f + 2 * (j + 1) - 1 = (f + 2 * j) + 1 /\ (j + 1) - 1 = j
  BY <1>2
<1>4. IsDigit(e.items[(f + 2 * j) + 1], 1, p, j + 1) /\ p[j + 1] <= v
  <2>1. j + 1 \in DOMAIN p
    BY <1>3
  <2>2. IsDigit(e.items[f + 2 * (j + 1) - 1], 1, p, j + 1) /\ p[j + 1] <= v
    BY <2>1, Zenon DEF Spelt
  <2> QED
    BY <1>3, <2>2, Zenon
<1>5. Bit = e.items[(f + 2 * j) + 1].v
  BY <1>1, <1>3, <1>4, BitSeen DEF IsDigit
<1>6. p[j + 1] = 2 * value + Bit
  BY <1>1, <1>3, <1>4, <1>5 DEF IsDigit
<1>7. ASSUME stream' = stream, Digit PROVE InNumber(e, f, p)'
  <2>1. Reader(e, (f + 2 * j) + 1)'
    BY <1>1, <1>3, <1>4, <1>7, BitRead DEF IsDigit, Digit
  <2>2. pc' = "more" /\ value' = p[j + 1]
    BY <1>6, <1>7 DEF Digit
  <2> QED
    BY <1>3, <2>1, <2>2 DEF InNumber
<1> QED
  BY <1>4, <1>6, <1>7

LEMMA MoreRead ==
    ASSUME Stream(stream), stream.kind # "arbitrary", NEW e, e = stream.said,
           NEW f \in Nat, NEW p \in Seq(Nat), NEW v, Spelt(e.items, f, p, v),
           f + 2 * Len(p) <= Len(e.items),
           InNumber(e, f, p), pc = "more", HasBit
    PROVE  /\ Bit = 0 => value = v
           /\ stream' = stream /\ More => InNumber(e, f, p)'
           /\ stream' = stream /\ TakeBit /\ Bit = 0 => Reader(e, f + 2 * Len(p))'
<1>1. PICK j \in 1 .. Len(p) : Reader(e, f + 2 * j - 1) /\ value = p[j]
  BY DEF InNumber
<1>2. Len(e.items) \in Nat
  BY Agreement, ItemsCounted
<1> DEFINE k == f + 2 * j - 1
<1>3. k \in Nat /\ k < Len(e.items) /\ k + 1 = f + 2 * j
  BY <1>2
<1>4. e.items[k + 1] = AsBit(IF j = Len(p) THEN 0 ELSE 1) /\ v = p[Len(p)]
  <2>1. j \in DOMAIN p
    OBVIOUS
  <2>2. e.items[f + 2 * j] = AsBit(IF j = Len(p) THEN 0 ELSE 1) /\ v = p[Len(p)]
    BY <2>1, Zenon DEF Spelt
  <2> QED
    BY <1>3, <2>2, Zenon
<1>5. e.items[k + 1].bit /\ e.items[k + 1].v = IF j = Len(p) THEN 0 ELSE 1
  BY <1>4 DEF AsBit
<1>6. Bit = e.items[k + 1].v
  BY <1>1, <1>3, <1>5, BitSeen
<1>7. ASSUME stream' = stream, TakeBit PROVE Reader(e, f + 2 * j)'
  BY <1>1, <1>3, <1>5, <1>7, BitRead
<1>8. ASSUME stream' = stream, More PROVE InNumber(e, f, p)'
  <2>1. j # Len(p) /\ j \in 0 .. Len(p) - 1 /\ value = Reached(1, p, j)
    BY <1>1, <1>5, <1>6, <1>8 DEF More, Reached
  <2>2. pc' = "digit" /\ value' = value /\ Reader(e, f + 2 * j)'
    BY <1>7, <1>8 DEF More
  <2> QED
    BY <2>1, <2>2 DEF InNumber
<1>9. Bit = 0 => j = Len(p)
  <2>1. Bit = IF j = Len(p) THEN 0 ELSE 1
    BY <1>5, <1>6, Zenon
  <2> QED
    BY <2>1
<1>10. Bit = 0 => value = v
  BY <1>1, <1>4, <1>9, Zenon
<1>11. stream' = stream /\ TakeBit /\ Bit = 0 => Reader(e, f + 2 * Len(p))'
  BY <1>7, <1>9, Zenon
<1> QED
  BY <1>8, <1>10, <1>11, Zenon

(* A number that has just begun. *)
LEMMA NumberBegun ==
    ASSUME NEW e, NEW f \in Nat, NEW p \in Seq(Nat), p # <<>>,
           pc' = "digit", value' = 1, Reader(e, f)'
    PROVE  InNumber(e, f, p)'
<1>1. 0 \in 0 .. Len(p) - 1 /\ f + 2 * 0 = f /\ Reached(1, p, 0) = 1
  BY DEF Reached
<1> QED
  BY <1>1 DEF InNumber

-----------------------------------------------------------------------------
(* Tokens.                                                                 *)

(* An offset in two parts. *)
LEMMA HighAndLow ==
    ASSUME NEW o \in Nat
    PROVE  /\ o \div Byte \in Nat /\ o \div Byte <= o /\ o % Byte \in Data
           /\ (o \div Byte) * Byte + (o % Byte) = o
<1>1. PICK b, q, r : b = Byte /\ q = o \div Byte /\ r = o % Byte
  OBVIOUS
<1>2. b \in Nat \ {0}
  BY <1>1, Sizes
<1>3. q \in Int /\ r \in 0 .. b - 1 /\ o = b * q + r
  BY <1>1, <1>2
<1>4. b * q = q * b /\ b * q \in Int
  BY <1>2, <1>3
<1>5. ~ q < 0
  <2> SUFFICES ASSUME q < 0 PROVE FALSE
    OBVIOUS
  <2>1. PICK w \in Nat : q = - 1 - w
    <3>1. - 1 - q \in Nat /\ q = - 1 - (- 1 - q)
      BY <1>3
    <3> QED
      BY <3>1
  <2>2. b * w \in Nat /\ b * q = - b - b * w
    BY <1>2, <2>1
  <2> QED
    BY <1>2, <1>3, <2>2
<1>6. q <= o
  <2>1. PICK c \in Nat : b = c + 1
    <3>1. b - 1 \in Nat /\ b = (b - 1) + 1
      BY <1>2
    <3> QED
      BY <3>1
  <2>2. q \in Nat
    BY <1>3, <1>5
  <2>3. b * q = c * q + q /\ c * q \in Nat
    BY <2>1, <2>2
  <2> QED
    BY <1>2, <1>3, <2>2, <2>3
<1>7. q \in Nat /\ q <= o /\ r \in 0 .. b - 1 /\ q * b + r = o
  BY <1>3, <1>4, <1>5, <1>6
<1> QED
  BY <1>1, <1>7, Zenon DEF Data

LEMMA TokenFacts ==
    ASSUME NEW e, Says(e), NEW i \in DOMAIN e.tokens, NEW t, t = e.tokens[i]
    PROVE  /\ TokenTyped(t) /\ Sayable(t) /\ WrittenIn(e.items, t)
           /\ t.place <= Len(e.plain) /\ t.item + Width(t) <= Len(e.items)
           /\ t.kind = "end" =>
                 t.place = Len(e.plain) /\ t.item + Width(t) = Len(e.items)
           /\ t.kind # "end" => AddedBy(e.plain, t)
<1>1. /\ DOMAIN e.tokens = 1 .. Len(e.tokens)
      /\ Len(e.plain) \in Nat
  BY ItemsCounted
<1>2. TokenTyped(t) /\ Sayable(t)
  BY DEF Says, TextSays
<1>3. /\ WrittenIn(e.items, t)
      /\ i = Len(e.tokens) => t.item + Width(t) = Len(e.items)
  BY DEF Says, TokensWritten
<1>4. IF i = Len(e.tokens)
      THEN t.kind = "end" /\ t.place = Len(e.plain)
      ELSE t.kind # "end" /\ AddedBy(e.plain, t)
  BY DEF Says, TextSays
<1>5. t.item + Width(t) <= Len(e.items)
  BY <1>3 DEF WrittenIn
<1>6. t.place \in Nat /\ t.length \in Nat
  BY <1>2 DEF TokenTyped
<1>7. t.place <= Len(e.plain)
  BY <1>1, <1>4, <1>6 DEF AddedBy
<1> QED
  BY <1>2, <1>3, <1>4, <1>5, <1>7

LEMMA NextToken ==
    ASSUME NEW e, Says(e), NEW i \in DOMAIN e.tokens, NEW t, t = e.tokens[i],
           t.kind # "end"
    PROVE  \E k \in DOMAIN e.tokens :
              /\ e.tokens[k].place = t.place + t.length
              /\ e.tokens[k].item = t.item + Width(t)
              /\ e.tokens[k].last = IF IsMatch(t) THEN t.offset ELSE t.last
              /\ e.tokens[k].after = IsMatch(t)
<1>1. DOMAIN e.tokens = 1 .. Len(e.tokens) /\ Len(e.tokens) \in Nat
  BY ItemsCounted
<1>2. /\ i # Len(e.tokens)
      /\ e.tokens[i + 1].place = t.place + t.length
      /\ e.tokens[i + 1].last = IF IsMatch(t) THEN t.offset ELSE t.last
      /\ e.tokens[i + 1].after = IsMatch(t)
  BY DEF Says, TextSays
<1>3. e.tokens[i + 1].item = t.item + Width(t)
  BY <1>2 DEF Says, TokensWritten
<1>4. i + 1 \in DOMAIN e.tokens
  BY <1>1, <1>2
<1> QED
  BY <1>2, <1>3, <1>4

(* The bits by which tokens differ, and the bytes of those that are done   *)
(* with one.                                                               *)
(* Whoever is three or more wide has its first three items. *)
LEMMA ThreeFit ==
    ASSUME NEW i \in Nat, NEW w \in Nat, w >= 3, NEW n \in Nat, i + w <= n
    PROVE  i < n /\ i + 1 < n /\ i + 2 < n
OBVIOUS

LEMMA TagBits ==
    ASSUME NEW items, NEW t, TokenTyped(t), WrittenIn(items, t), Len(items) \in Nat
    PROVE  LET f == t.item IN
           /\ f < Len(items) /\ items[f + 1] = AsBit(IF t.kind = "literal" THEN 0 ELSE 1)
           /\ t.kind # "literal" => f + 1 < Len(items) /\
                 items[f + 2] = AsBit(IF t.kind \in {"match", "again"} THEN 0 ELSE 1)
           /\ t.kind \in {"short", "single", "end"} => f + 2 < Len(items) /\
                 items[f + 3] = AsBit(IF t.kind = "single" THEN 1 ELSE 0)
<1> DEFINE f == t.item
<1>1. f \in Nat /\ t.kind \in Kinds /\ Len(t.high) \in Nat /\ Len(t.low) \in Nat
  BY DEF TokenTyped
<1>2. f + Width(t) <= Len(items) /\ SingleBits \in Nat
  BY Sizes DEF WrittenIn
<1>3. CASE t.kind = "literal"
  <2>1. Tagged(items, f, <<0>>) /\ Width(t) = 2
    BY <1>3 DEF WrittenIn, Width
  <2>2. items[f + 1] = AsBit(0)
    BY <2>1 DEF Tagged
  <2> QED
    BY <1>1, <1>2, <1>3, <2>1, <2>2
<1>4. CASE t.kind \in {"match", "again"}
  <2>1. Tagged(items, f, <<1, 0>>)
    BY <1>4 DEF WrittenIn
  <2>2. Width(t) >= 2 /\ Width(t) \in Nat
    <3>1. \/ Width(t) = 3 + 2 * Len(t.high) + 2 * Len(t.low)
          \/ Width(t) = 2 + 2 * Len(t.high) + 2 * Len(t.low)
      BY <1>4 DEF Width
    <3>2. PICK h, l : h = Len(t.high) /\ l = Len(t.low)
      OBVIOUS
    <3>3. h \in Nat /\ l \in Nat
      BY <1>1, <3>2
    <3>4. Width(t) = 3 + 2 * h + 2 * l \/ Width(t) = 2 + 2 * h + 2 * l
      BY <3>1, <3>2
    <3> QED
      BY <3>3, <3>4
  <2>3. items[f + 1] = AsBit(1) /\ items[f + 2] = AsBit(0)
    BY <2>1 DEF Tagged
  <2> QED
    BY <1>1, <1>2, <1>4, <2>2, <2>3
<1>5. CASE t.kind \in {"short", "end"}
  <2>1. Tagged(items, f, <<1, 1, 0>>) /\ Width(t) = 4
    BY <1>5 DEF WrittenIn, Width
  <2>2. items[f + 1] = AsBit(1) /\ items[f + 2] = AsBit(1) /\ items[f + 3] = AsBit(0)
    BY <2>1 DEF Tagged
  <2>3. f < Len(items) /\ f + 1 < Len(items) /\ f + 2 < Len(items)
    <3>1. 4 \in Nat /\ 4 >= 3
      OBVIOUS
    <3> QED
      BY <1>1, <1>2, <2>1, <3>1, ThreeFit, Zenon
  <2> QED
    BY <1>5, <2>2, <2>3
<1>6. CASE t.kind = "single"
  <2>1. Tagged(items, f, <<1, 1, 1>>) /\ Width(t) = 3 + SingleBits
    BY <1>6 DEF WrittenIn, Width
  <2>2. items[f + 1] = AsBit(1) /\ items[f + 2] = AsBit(1) /\ items[f + 3] = AsBit(1)
    BY <2>1 DEF Tagged
  <2>3. f < Len(items) /\ f + 1 < Len(items) /\ f + 2 < Len(items)
    <3>1. 3 + SingleBits \in Nat /\ 3 + SingleBits >= 3
      BY <1>2
    <3> QED
      BY <1>1, <1>2, <2>1, <3>1, ThreeFit, Zenon
  <2> QED
    BY <1>6, <2>2, <2>3
<1> QED
  BY <1>1, <1>3, <1>4, <1>5, <1>6 DEF Kinds

LEMMA MatchItems ==
    ASSUME NEW items, NEW t, TokenTyped(t), WrittenIn(items, t), Len(items) \in Nat
    PROVE  LET f == t.item
               g == f + 2 + 2 * Len(t.high)
           IN
           /\ t.kind \in {"match", "again"} =>
                 /\ Spelt(items, f + 2, t.high,
                          IF t.kind = "again" THEN 2
                          ELSE (t.offset \div Byte) + (IF t.after THEN 2 ELSE 3))
                 /\ g <= Len(items)
           /\ t.kind = "match" =>
                 /\ g < Len(items) /\ items[g + 1] = AsByte(t.offset % Byte)
                 /\ Spelt(items, g + 1, t.low, (t.length - Shortest(t.offset)) + 2)
                 /\ (g + 1) + 2 * Len(t.low) = f + Width(t)
           /\ t.kind = "again" =>
                 /\ Spelt(items, g, t.low, t.length)
                 /\ g + 2 * Len(t.low) = f + Width(t)
<1> DEFINE f == t.item
           g == f + 2 + 2 * Len(t.high)
<1>1. f \in Nat /\ t.kind \in Kinds /\ Len(t.high) \in Nat /\ Len(t.low) \in Nat
  BY DEF TokenTyped
<1>2. f + Width(t) <= Len(items)
  BY DEF WrittenIn
<1>3. CASE t.kind = "match"
  <2>1. /\ Spelt(items, f + 2, t.high, (t.offset \div Byte) + (IF t.after THEN 2 ELSE 3))
        /\ items[g + 1] = AsByte(t.offset % Byte)
        /\ Spelt(items, g + 1, t.low, (t.length - Shortest(t.offset)) + 2)
    BY <1>3 DEF WrittenIn
  <2>2. Width(t) = 3 + 2 * Len(t.high) + 2 * Len(t.low)
    BY <1>3 DEF Width
  <2>3. (g + 1) + 2 * Len(t.low) = f + Width(t) /\ g < Len(items) /\ g <= Len(items)
    <3>1. PICK a, h, l : a = f /\ h = Len(t.high) /\ l = Len(t.low)
      OBVIOUS
    <3>2. a \in Nat /\ h \in Nat /\ l \in Nat /\ a + (3 + 2 * h + 2 * l) <= Len(items)
      BY <1>1, <1>2, <2>2, <3>1
    <3>3. /\ ((a + 2 + 2 * h) + 1) + 2 * l = a + (3 + 2 * h + 2 * l)
          /\ a + 2 + 2 * h < Len(items) /\ a + 2 + 2 * h <= Len(items)
      BY <3>2
    <3> QED
      BY <2>2, <3>1, <3>3
  <2> QED
    BY <1>3, <2>1, <2>3
<1>4. CASE t.kind = "again"
  <2>1. /\ Spelt(items, f + 2, t.high, 2)
        /\ Spelt(items, g, t.low, t.length)
    BY <1>4 DEF WrittenIn
  <2>2. Width(t) = 2 + 2 * Len(t.high) + 2 * Len(t.low)
    BY <1>4 DEF Width
  <2>3. g + 2 * Len(t.low) = f + Width(t) /\ g <= Len(items)
    <3>1. PICK a, h, l : a = f /\ h = Len(t.high) /\ l = Len(t.low)
      OBVIOUS
    <3>2. a \in Nat /\ h \in Nat /\ l \in Nat /\ a + (2 + 2 * h + 2 * l) <= Len(items)
      BY <1>1, <1>2, <2>2, <3>1
    <3>3. /\ (a + 2 + 2 * h) + 2 * l = a + (2 + 2 * h + 2 * l)
          /\ a + 2 + 2 * h <= Len(items)
      BY <3>2
    <3> QED
      BY <2>2, <3>1, <3>3
  <2> QED
    BY <1>4, <2>1, <2>3
<1> QED
  BY <1>3, <1>4

-----------------------------------------------------------------------------
(* Steps of the decoder within a token.                                    *)

(* t is one of the tokens of what the stream says. *)
Of(e, t) ==
    /\ Stream(stream) /\ stream.kind # "arbitrary" /\ e = stream.said
    /\ \E i \in DOMAIN e.tokens : t = e.tokens[i]

LEMMA OfFacts ==
    ASSUME NEW e, NEW t, Of(e, t)
    PROVE  /\ Stream(stream) /\ stream.kind # "arbitrary" /\ e = stream.said
           /\ Says(e) /\ Len(e.items) \in Nat /\ Len(e.plain) \in Nat
           /\ TokenTyped(t) /\ Sayable(t) /\ WrittenIn(e.items, t)
           /\ t.item \in Nat /\ t.place \in Nat \ {0} /\ t.length \in Nat /\ t.offset \in Nat
           /\ t.high \in Seq(Nat) /\ t.low \in Seq(Nat) /\ t.after \in BOOLEAN
           /\ t.place <= Len(e.plain)
           /\ t.item + Width(t) <= Len(e.items)
           /\ t.kind = "end" =>
                 t.place = Len(e.plain) /\ t.item + Width(t) = Len(e.items)
           /\ t.kind # "end" => AddedBy(e.plain, t)
<1>1. /\ Stream(stream) /\ stream.kind # "arbitrary" /\ e = stream.said /\ Says(e)
  BY Agreement DEF Of
<1>2. PICK i \in DOMAIN e.tokens : t = e.tokens[i]
  BY DEF Of
<1>3. Len(e.items) \in Nat /\ Len(e.plain) \in Nat
  BY <1>1, ItemsCounted
<1>4. /\ TokenTyped(t) /\ Sayable(t) /\ WrittenIn(e.items, t)
      /\ t.place <= Len(e.plain) /\ t.item + Width(t) <= Len(e.items)
      /\ t.kind = "end" =>
            t.place = Len(e.plain) /\ t.item + Width(t) = Len(e.items)
      /\ t.kind # "end" => AddedBy(e.plain, t)
  BY <1>1, <1>2, TokenFacts
<1>5. /\ t.item \in Nat /\ t.place \in Nat \ {0} /\ t.length \in Nat /\ t.offset \in Nat
      /\ t.high \in Seq(Nat) /\ t.low \in Seq(Nat) /\ t.after \in BOOLEAN
  BY <1>4 DEF TokenTyped
<1> QED
  BY <1>1, <1>3, <1>4, <1>5

LEMMA TokenStep ==
    ASSUME NEW e, NEW t, Of(e, t), Reading(e, t), Token
    PROVE  Reading(e, t)'
<1> DEFINE f == t.item
<1>1. Reader(e, f)
  BY DEF Reading, Within, InNumber, Token, At
<1>2. /\ f \in Nat /\ f < Len(e.items)
      /\ e.items[f + 1] = AsBit(IF t.kind = "literal" THEN 0 ELSE 1)
  BY OfFacts, TagBits
<1>3. e.items[f + 1].bit /\ e.items[f + 1].v = IF t.kind = "literal" THEN 0 ELSE 1
  BY <1>2 DEF AsBit
<1>4. Reader(e, f + 1)' /\ Bit = IF t.kind = "literal" THEN 0 ELSE 1
  BY <1>1, <1>2, <1>3, BitRead, OfFacts DEF Token, At
<1>5. pc' = IF t.kind = "literal" THEN "literal" ELSE "second"
  BY <1>4 DEF Token
<1>6. Within(e, t)'
  BY <1>4, <1>5 DEF Within
<1> QED
  BY <1>6 DEF Reading, Shows, Token

LEMMA SecondStep ==
    ASSUME NEW e, NEW t, Of(e, t), Reading(e, t), Second
    PROVE  Reading(e, t)'
<1> DEFINE f == t.item
<1>1. Reader(e, f + 1) /\ t.kind # "literal"
  BY DEF Reading, Within, InNumber, Second, At
<1>2. /\ f \in Nat /\ f + 1 \in Nat /\ (f + 1) + 1 = f + 2 /\ f + 1 < Len(e.items)
      /\ e.items[f + 2] = AsBit(IF t.kind \in {"match", "again"} THEN 0 ELSE 1)
  BY <1>1, OfFacts, TagBits
<1>3. e.items[f + 2].bit /\ e.items[f + 2].v = IF t.kind \in {"match", "again"} THEN 0 ELSE 1
  BY <1>2 DEF AsBit
<1>4. Reader(e, f + 2)' /\ Bit = IF t.kind \in {"match", "again"} THEN 0 ELSE 1
  <2>1. PICK k \in Nat : k = f + 1
    BY <1>2
  <2>2. /\ k < Len(e.items) /\ e.items[k + 1].bit /\ Reader(e, k)
        /\ k + 1 = f + 2 /\ e.items[k + 1] = e.items[f + 2]
    BY <1>1, <1>2, <1>3, <2>1
  <2>3. stream' = stream /\ TakeBit
    BY DEF Second, At
  <2>4. Reader(e, k + 1)' /\ Bit = e.items[k + 1].v
    BY <2>2, <2>3, BitRead, OfFacts, Zenon
  <2> QED
    BY <1>3, <2>2, <2>4
<1>5. Within(e, t)'
  <2>1. CASE t.kind \in {"match", "again"}
    <3>1. pc' = "digit" /\ use' = "offset" /\ value' = 1
      BY <1>4, <2>1 DEF Second, ReadNumber
    <3>2. t.high \in Seq(Nat) /\ t.high # <<>> /\ f + 2 \in Nat
      BY <1>2, <2>1, OfFacts, MatchItems DEF Spelt
    <3>3. InNumber(e, f + 2, t.high)'
      BY <1>4, <3>1, <3>2, NumberBegun
    <3> QED
      BY <2>1, <3>1, <3>3 DEF Within
  <2>2. CASE t.kind \notin {"match", "again"}
    <3>1. pc' = "third" /\ t.kind \in {"short", "single", "end"}
      BY <1>1, <1>4, <2>2, OfFacts DEF Second, TokenTyped, Kinds
    <3> QED
      BY <1>4, <3>1 DEF Within
  <2> QED
    BY <2>1, <2>2
<1> QED
  BY <1>5 DEF Reading, Shows, Second

LEMMA ThirdStep ==
    ASSUME NEW e, NEW t, Of(e, t), Reading(e, t), Third
    PROVE  Reading(e, t)'
<1> DEFINE f == t.item
<1>1. Reader(e, f + 2) /\ t.kind \in {"short", "single", "end"}
  BY DEF Reading, Within, InNumber, Third, At
<1>2. /\ f \in Nat /\ f + 2 \in Nat /\ (f + 2) + 1 = f + 3 /\ f + 2 < Len(e.items)
      /\ e.items[f + 3] = AsBit(IF t.kind = "single" THEN 1 ELSE 0)
  BY <1>1, OfFacts, TagBits
<1>3. e.items[f + 3].bit /\ e.items[f + 3].v = IF t.kind = "single" THEN 1 ELSE 0
  BY <1>2 DEF AsBit
<1>4. Reader(e, f + 3)' /\ Bit = IF t.kind = "single" THEN 1 ELSE 0
  BY <1>1, <1>2, <1>3, BitRead, OfFacts DEF Third, At
<1>5. Within(e, t)'
  <2>1. CASE t.kind = "single"
    <3>1. pc' = "single" /\ value' = 0 /\ remaining' = SingleBits
      BY <1>4, <2>1 DEF Third
    <3>2. 0 \in 0 .. SingleBits - 1 /\ (f + 3) + 0 = f + 3 /\ SingleBits - 0 = SingleBits
      <4>1. PICK b \in Nat \ {0}, a \in Nat : b = SingleBits /\ a = f + 3
        BY <1>2, Sizes
      <4>2. 0 \in 0 .. b - 1 /\ a + 0 = a /\ b - 0 = b
        OBVIOUS
      <4> QED
        BY <4>1, <4>2, Zenon
    <3>3. \E j \in 0 .. SingleBits - 1 :
             Reader(e, (f + 3) + j)' /\ value' = Reached(0, t.high, j)
             /\ remaining' = SingleBits - j
      BY <1>4, <3>1, <3>2 DEF Reached
    <3> QED
      BY <2>1, <3>1, <3>3 DEF Within
  <2>2. CASE t.kind # "single"
    <3>1. pc' = "short" /\ t.kind \in {"short", "end"}
      BY <1>1, <1>4, <2>2 DEF Third
    <3> QED
      BY <1>4, <3>1 DEF Within
  <2> QED
    BY <2>1, <2>2
<1> QED
  BY <1>5 DEF Reading, Shows, Third

(* The number that is read for u stands behind f items and is v. *)
Number(t, u, o, f, p, v) ==
    LET g == t.item + 2 + 2 * Len(t.high)
    IN  \/ /\ u = "offset" /\ t.kind \in {"match", "again"}
           /\ f = t.item + 2 /\ p = t.high
           /\ v = IF t.kind = "again" THEN 2
                  ELSE (t.offset \div Byte) + (IF t.after THEN 2 ELSE 3)
        \/ /\ u = "length" /\ t.kind = "match" /\ o = t.offset
           /\ f = g + 1 /\ p = t.low
           /\ v = (t.length - Shortest(t.offset)) + 2
        \/ /\ u = "again" /\ t.kind = "again" /\ o = t.offset
           /\ f = g /\ p = t.low
           /\ v = t.length

LEMMA NumberOfToken ==
    ASSUME NEW e, NEW t, Reading(e, t), pc \in {"digit", "more"}
    PROVE  \E f, p, v : Number(t, use, offset, f, p, v) /\ InNumber(e, f, p)
<1> DEFINE f == t.item
           g == f + 2 + 2 * Len(t.high)
<1>1. \/ use = "offset" /\ t.kind \in {"match", "again"} /\ InNumber(e, f + 2, t.high)
      \/ use = "length" /\ t.kind = "match" /\ InNumber(e, g + 1, t.low) /\ offset = t.offset
      \/ use = "again" /\ t.kind = "again" /\ InNumber(e, g, t.low) /\ offset = t.offset
  BY DEF Reading, Within
<1>2. CASE use = "offset" /\ t.kind \in {"match", "again"} /\ InNumber(e, f + 2, t.high)
  BY <1>2 DEF Number
<1>3. CASE use = "length" /\ t.kind = "match" /\ InNumber(e, g + 1, t.low) /\ offset = t.offset
  BY <1>3 DEF Number
<1>4. CASE use = "again" /\ t.kind = "again" /\ InNumber(e, g, t.low) /\ offset = t.offset
  BY <1>4 DEF Number
<1> QED
  BY <1>1, <1>2, <1>3, <1>4

LEMMA NumberWithin ==
    ASSUME NEW e, NEW t, NEW f, NEW p, NEW v,
           Number(t, use', offset', f, p, v), InNumber(e, f, p)'
    PROVE  Within(e, t)'
<1>1. CASE use' = "offset"
  BY <1>1 DEF Number, Within
<1>2. CASE use' = "length"
  BY <1>2 DEF Number, Within
<1>3. CASE use' = "again"
  BY <1>3 DEF Number, Within
<1> QED
  BY <1>1, <1>2, <1>3 DEF Number

(* Where the fields of a token may begin. *)
LEMMA FieldPlaces ==
    ASSUME NEW i \in Nat, NEW h \in Nat
    PROVE  (i + 2) + 2 * h \in Nat /\ ((i + 2) + 2 * h) + 1 \in Nat /\ i + 2 \in Nat
OBVIOUS

(* An offset's high part is one less byte's worth of the text. *)
LEMMA HighBounded ==
    ASSUME NEW q \in Nat, NEW o \in Nat, q <= o, NEW a \in Nat, o <= a,
           NEW l \in Nat, NEW n \in Nat, a + l <= n, NEW x \in {2, 3}
    PROVE  q + x \in Nat /\ q + x <= n + 3 /\ 2 \in Nat /\ 2 <= n + 3
OBVIOUS

LEMMA ShortestBounds ==
    ASSUME NEW o
    PROVE  Shortest(o) \in Nat /\ Shortest(o) >= 2
<1>1. PICK a \in {0, 1}, b \in {0, 1}, c \in {0, 2} :
         /\ a = IF o >= Distant THEN 1 ELSE 0
         /\ b = IF o >= Middle THEN 1 ELSE 0
         /\ c = IF o < Near THEN 2 ELSE 0
  OBVIOUS
<1>2. Shortest(o) = ((2 + a) + b) + c
  BY <1>1, Zenon DEF Shortest
<1>3. ((2 + a) + b) + c \in Nat /\ ((2 + a) + b) + c >= 2
  OBVIOUS
<1> QED
  BY <1>2, <1>3, Zenon

LEMMA NumberFacts ==
    ASSUME NEW e, NEW t, Of(e, t), NEW u, NEW o, NEW f, NEW p, NEW v,
           Number(t, u, o, f, p, v)
    PROVE  /\ f \in Nat /\ p \in Seq(Nat) /\ Spelt(e.items, f, p, v)
           /\ f + 2 * Len(p) <= Len(e.items)
           /\ v \in Nat /\ v <= Len(e.plain) + 3
<1> DEFINE g == t.item + 2 + 2 * Len(t.high)
<1>1. /\ TokenTyped(t) /\ Sayable(t) /\ WrittenIn(e.items, t) /\ Len(e.items) \in Nat
      /\ t.item \in Nat /\ t.place \in Nat \ {0} /\ t.length \in Nat /\ t.offset \in Nat
      /\ t.high \in Seq(Nat) /\ t.low \in Seq(Nat) /\ t.after \in BOOLEAN
      /\ t.item + Width(t) <= Len(e.items) /\ Len(e.plain) \in Nat
  BY OfFacts
<1>2. t.kind # "end"
  BY DEF Number
<1>3. t.offset <= t.place /\ t.place + t.length <= Len(e.plain)
  BY <1>2, OfFacts DEF AddedBy
<1>7. g \in Nat /\ g + 1 \in Nat
  <2>1. Len(t.high) \in Nat
    BY <1>1
  <2> QED
    BY <1>1, <2>1, FieldPlaces, Zenon
<1>4. CASE u = "offset"
  <2>1. /\ t.kind \in {"match", "again"} /\ f = t.item + 2 /\ p = t.high
        /\ v = IF t.kind = "again" THEN 2
               ELSE (t.offset \div Byte) + (IF t.after THEN 2 ELSE 3)
    BY <1>4 DEF Number
  <2>2. Spelt(e.items, f, p, v) /\ g <= Len(e.items)
    BY <1>1, <2>1, MatchItems
  <2>3. t.offset \div Byte \in Nat /\ t.offset \div Byte <= t.offset
    BY <1>1, HighAndLow
  <2>4. v \in Nat /\ v <= Len(e.plain) + 3
    <3>1. PICK x \in {2, 3} : x = IF t.after THEN 2 ELSE 3
      OBVIOUS
    <3>2. v = IF t.kind = "again" THEN 2 ELSE (t.offset \div Byte) + x
      BY <2>1, <3>1, Zenon
    <3>3. /\ (t.offset \div Byte) + x \in Nat
          /\ (t.offset \div Byte) + x <= Len(e.plain) + 3
          /\ 2 \in Nat /\ 2 <= Len(e.plain) + 3
      <4>1. t.place \in Nat
        BY <1>1
      <4> QED
        BY <1>1, <1>3, <2>3, <4>1, HighBounded, Zenon
    <3> QED
      BY <3>2, <3>3, Zenon
  <2>5. f \in Nat
    BY <1>1, <2>1, FieldPlaces, Zenon
  <2>6. f + 2 * Len(p) <= Len(e.items)
    BY <2>1, <2>2, Zenon
  <2> QED
    BY <1>1, <2>1, <2>2, <2>4, <2>5, <2>6, Zenon
<1>5. CASE u = "length"
  <2>1. /\ t.kind = "match" /\ f = g + 1 /\ p = t.low
        /\ v = (t.length - Shortest(t.offset)) + 2
    BY <1>5 DEF Number
  <2>2. Spelt(e.items, f, p, v) /\ (g + 1) + 2 * Len(p) = t.item + Width(t)
    BY <1>1, <2>1, MatchItems
  <2>3. Shortest(t.offset) \in Nat /\ Shortest(t.offset) >= 2 /\ t.length >= Shortest(t.offset)
    BY <1>1, <2>1, ShortestBounds, Zenon DEF Sayable
  <2>4. v \in Nat /\ v <= Len(e.plain) + 3
    <3>1. PICK l, s, n, a : /\ l = t.length /\ s = Shortest(t.offset) /\ n = Len(e.plain)
                            /\ a = t.place
      OBVIOUS
    <3>2. l \in Nat /\ s \in Nat /\ s >= 2 /\ l >= s /\ n \in Nat /\ a \in Nat /\ a + l <= n
          /\ v = (l - s) + 2
      BY <1>1, <1>3, <2>1, <2>3, <3>1
    <3>3. v \in Nat /\ v <= n + 3
      BY <3>2
    <3> QED
      BY <3>1, <3>3
  <2>5. f \in Nat
    BY <1>1, <1>7, <2>1, Zenon
  <2> QED
    BY <1>1, <2>1, <2>2, <2>4, <2>5
<1>6. CASE u = "again"
  <2>1. t.kind = "again" /\ f = g /\ p = t.low /\ v = t.length
    BY <1>6 DEF Number
  <2>2. Spelt(e.items, f, p, v) /\ g + 2 * Len(p) = t.item + Width(t)
    BY <1>1, <2>1, MatchItems
  <2>4. v \in Nat /\ v <= Len(e.plain) + 3
    <3>1. PICK l \in Nat, a \in Nat, n \in Nat :
             l = t.length /\ a = t.place /\ n = Len(e.plain)
      BY <1>1
    <3>2. a + l <= n
      BY <1>3, <3>1, Zenon
    <3>3. l <= n + 3
      BY <3>2
    <3> QED
      BY <2>1, <3>1, <3>3, Zenon
  <2>5. f \in Nat
    BY <1>7, <2>1, Zenon
  <2> QED
    BY <1>1, <2>1, <2>2, <2>4, <2>5
<1> QED
  BY <1>4, <1>5, <1>6 DEF Number

LEMMA DigitStep ==
    ASSUME NEW e, NEW t, Of(e, t), Reading(e, t), Digit
    PROVE  Reading(e, t)'
<1>1. PICK f, p, v : Number(t, use, offset, f, p, v) /\ InNumber(e, f, p)
  BY NumberOfToken DEF Digit, At
<1>2. InNumber(e, f, p)'
  BY <1>1, NumberFacts, DigitRead, OfFacts DEF Digit, At, TakeBit
<1>3. use' = use /\ offset' = offset
  BY DEF Digit
<1>4. Within(e, t)'
  BY <1>1, <1>2, <1>3, NumberWithin
<1> QED
  BY <1>4 DEF Reading, Shows, Digit

LEMMA MoreStep ==
    ASSUME NEW e, NEW t, Of(e, t), Reading(e, t), More
    PROVE  Reading(e, t)'
<1>1. PICK f, p, v : Number(t, use, offset, f, p, v) /\ InNumber(e, f, p)
  BY NumberOfToken DEF More, At
<1>2. InNumber(e, f, p)'
  BY <1>1, NumberFacts, MoreRead, OfFacts DEF More, At, TakeBit
<1>3. use' = use /\ offset' = offset
  BY DEF More
<1>4. Within(e, t)'
  BY <1>1, <1>2, <1>3, NumberWithin
<1> QED
  BY <1>4 DEF Reading, Shows, More

(* A number that is over. *)
LEMMA NumberOver ==
    ASSUME NEW e, NEW t, Of(e, t), Reading(e, t), NEW u, NumberOf(u)
    PROVE  \E f, p, v : /\ Number(t, use, offset, f, p, v) /\ value = v
                        /\ Reader(e, f + 2 * Len(p))'
<1>1. PICK f, p, v : Number(t, use, offset, f, p, v) /\ InNumber(e, f, p)
  BY NumberOfToken DEF NumberOf, At
<1>2. value = v /\ Reader(e, f + 2 * Len(p))'
  BY <1>1, NumberFacts, MoreRead, OfFacts DEF NumberOf, At, TakeBit
<1> QED
  BY <1>1, <1>2

LEMMA MatchAgainStep ==
    ASSUME NEW e, NEW t, Of(e, t), Reading(e, t), MatchAgain
    PROVE  Reading(e, t)'
<1>1. PICK f, p, v : /\ Number(t, use, offset, f, p, v) /\ value = v
                     /\ Reader(e, f + 2 * Len(p))'
  BY NumberOver DEF MatchAgain
<1>2. /\ t.kind \in {"match", "again"} /\ f = t.item + 2 /\ p = t.high
      /\ t.kind = "match" => value = (t.offset \div Byte) + (IF t.after THEN 2 ELSE 3)
  BY <1>1 DEF Number, MatchAgain, NumberOf
<1>3. lastMatch = t.after /\ previous = t.last /\ ~ lastMatch /\ value = 2
  BY DEF Reading, MatchAgain, Again
<1>4. t.kind = "again"
  <2>1. t.offset \div Byte \in Nat
    BY OfFacts, HighAndLow
  <2> QED
    BY <1>2, <1>3, <2>1
<1>5. t.offset = previous
  BY <1>3, <1>4, OfFacts DEF Sayable
<1> DEFINE g == t.item + 2 + 2 * Len(t.high)
<1>6. Number(t, "again", t.offset, g, t.low, t.length)
  BY <1>4 DEF Number
<1>7. g \in Nat /\ t.low \in Seq(Nat) /\ t.low # <<>>
  BY <1>6, NumberFacts DEF Spelt
<1>8. pc' = "digit" /\ value' = 1 /\ use' = "again" /\ offset' = t.offset
  BY <1>5 DEF MatchAgain, ReadNumber
<1>9. InNumber(e, g, t.low)'
  BY <1>1, <1>2, <1>7, <1>8, NumberBegun
<1>10. Within(e, t)'
  BY <1>6, <1>8, <1>9, NumberWithin
<1> QED
  BY <1>10 DEF Reading, Shows, MatchAgain

LEMMA HighPartStep ==
    ASSUME NEW e, NEW t, Of(e, t), Reading(e, t), HighPart
    PROVE  Reading(e, t)'
<1>1. PICK f, p, v : /\ Number(t, use, offset, f, p, v) /\ value = v
                     /\ Reader(e, f + 2 * Len(p))'
  BY NumberOver DEF HighPart
<1>2. /\ t.kind \in {"match", "again"} /\ f = t.item + 2 /\ p = t.high
      /\ t.kind = "again" => value = 2
      /\ t.kind = "match" => value = (t.offset \div Byte) + (IF t.after THEN 2 ELSE 3)
  BY <1>1 DEF Number, HighPart, NumberOf
<1>3. lastMatch = t.after /\ ~ Again
  BY DEF Reading, HighPart
<1>4. t.kind = "match"
  BY <1>2, <1>3, OfFacts DEF Again, Sayable
<1>5. Bias = IF t.after THEN 2 ELSE 3
  BY <1>3 DEF Bias
<1>6. offset' = t.offset \div Byte
  <2>1. t.offset \div Byte \in Nat
    BY OfFacts, HighAndLow
  <2> QED
    BY <1>2, <1>4, <1>5, <2>1 DEF HighPart
<1>7. pc' = "low"
  BY DEF HighPart
<1>8. Within(e, t)'
  BY <1>1, <1>2, <1>4, <1>6, <1>7 DEF Within
<1> QED
  BY <1>8 DEF Reading, Shows, HighPart

LEMMA LowPartStep ==
    ASSUME NEW e, NEW t, Of(e, t), Reading(e, t), LowPart
    PROVE  Reading(e, t)'
<1> DEFINE g == t.item + 2 + 2 * Len(t.high)
<1>1. t.kind = "match" /\ Reader(e, g) /\ offset = t.offset \div Byte
  BY DEF Reading, Within, InNumber, LowPart, At
<1>2. /\ g < Len(e.items) /\ e.items[g + 1] = AsByte(t.offset % Byte)
  BY <1>1, OfFacts, MatchItems
<1>3. ~ e.items[g + 1].bit /\ e.items[g + 1].v = t.offset % Byte
  BY <1>2 DEF AsByte
<1>4. Number(t, "length", t.offset, g + 1, t.low, (t.length - Shortest(t.offset)) + 2)
  BY <1>1 DEF Number
<1>5. g \in Nat
  BY <1>1, OfFacts DEF Reader
<1>6. g + 1 \in Nat /\ t.low \in Seq(Nat) /\ t.low # <<>>
  BY <1>4, NumberFacts DEF Spelt
<1>7. Reader(e, g + 1)' /\ NextByte = t.offset % Byte
  BY <1>1, <1>2, <1>3, <1>5, ByteRead, OfFacts DEF LowPart, At
<1>8. offset' = t.offset
  <2>1. t.offset \in Nat
    BY OfFacts
  <2>2. offset' = (t.offset \div Byte) * Byte + (t.offset % Byte)
    BY <1>1, <1>7 DEF LowPart
  <2> QED
    BY <2>1, <2>2, HighAndLow, Zenon
<1>9. pc' = "digit" /\ value' = 1 /\ use' = "length"
  BY DEF LowPart, ReadNumber
<1>10. InNumber(e, g + 1, t.low)'
  BY <1>6, <1>7, <1>9, NumberBegun
<1>11. Within(e, t)'
  BY <1>4, <1>8, <1>9, <1>10, NumberWithin
<1> QED
  BY <1>11 DEF Reading, Shows, LowPart

LEMMA SingleBitStep ==
    ASSUME NEW e, NEW t, Of(e, t), Reading(e, t), SingleBit
    PROVE  Reading(e, t)'
<1> DEFINE f == t.item
<1>1. PICK j \in 0 .. SingleBits - 1 :
         /\ Reader(e, f + 3 + j) /\ value = Reached(0, t.high, j) /\ remaining = SingleBits - j
  BY DEF Reading, Within, InNumber, SingleBit, At
<1>2. t.kind = "single" /\ SingleBits \in Nat \ {0}
  BY Sizes DEF Reading, Within, InNumber, SingleBit, At
<1>3. f \in Nat /\ f + (3 + SingleBits) <= Len(e.items) /\ Len(e.items) \in Nat
  BY <1>2, OfFacts DEF Width
<1>4. /\ f + 3 + j \in Nat /\ f + 3 + j < Len(e.items) /\ (f + 3 + j) + 1 = f + 3 + (j + 1)
      /\ j + 1 \in 1 .. SingleBits /\ (j + 1) - 1 = j
      /\ remaining - 1 = SingleBits - (j + 1)
  <2>1. SingleBits \in Nat
    BY <1>2
  <2>2. PICK i \in Nat, b \in Nat, l \in Nat : i = f /\ b = SingleBits /\ l = Len(e.items)
    BY <1>3, <2>1
  <2>3. j \in 0 .. b - 1 /\ i + (3 + b) <= l
    BY <1>3, <2>2, Zenon
  <2>4. /\ i + 3 + j \in Nat /\ i + 3 + j < l /\ (i + 3 + j) + 1 = i + 3 + (j + 1)
        /\ j + 1 \in 1 .. b /\ (j + 1) - 1 = j /\ (b - j) - 1 = b - (j + 1)
    BY <2>3
  <2> QED
    BY <1>1, <2>2, <2>4, Zenon
<1>5. IsDigit(e.items[(f + 3 + j) + 1], 0, t.high, j + 1)
  <2>1. \A h \in 1 .. SingleBits : IsDigit(e.items[f + 3 + h], 0, t.high, h)
    BY <1>2, OfFacts DEF WrittenIn
  <2>2. IsDigit(e.items[f + 3 + (j + 1)], 0, t.high, j + 1)
    BY <1>4, <2>1
  <2> QED
    BY <1>4, <2>2
<1>6. Reader(e, (f + 3 + j) + 1)' /\ Bit = e.items[(f + 3 + j) + 1].v
  BY <1>1, <1>4, <1>5, BitRead, OfFacts DEF IsDigit, SingleBit, At
<1>7. t.high[j + 1] = 2 * value + Bit
  BY <1>1, <1>4, <1>5, <1>6 DEF IsDigit
<1>8. /\ value' = Reached(0, t.high, j + 1) /\ remaining' = SingleBits - (j + 1)
      /\ pc' = "single"
  BY <1>4, <1>7 DEF SingleBit, Reached, At
<1>9. j + 1 \in 0 .. SingleBits - 1
  BY <1>1, <1>2 DEF SingleBit
<1>10. Reader(e, f + 3 + (j + 1))'
  BY <1>4, <1>6
<1>11. Within(e, t)'
  BY <1>2, <1>8, <1>9, <1>10 DEF Within
<1> QED
  BY <1>11 DEF Reading, Shows, SingleBit

-----------------------------------------------------------------------------
(* Steps by which a token is over.                                         *)

(* The copy of a match, or of a single byte, begins. *)
LEMMA CopyingBegun ==
    ASSUME NEW e, NEW t, Of(e, t), Reading(e, t),
           t.kind \in {"match", "again", "short", "single"},
           NEW o, o = t.offset, NEW n, n = t.length, CopyMatch(o, n), output' = output,
           Reader(e, t.item + Width(t))',
           lastMatch' = IsMatch(t), previous' = IF IsMatch(t) THEN o ELSE t.last
    PROVE  Copying(e, t)'
<1>1. t.place \in Nat /\ t.length \in Nat /\ t.offset \in Nat /\ Sayable(t)
  BY OfFacts
<1>2. Shortest(t.offset) >= 2 /\ Shortest(t.offset) \in Nat
  BY <1>1 DEF Shortest
<1>3. t.length >= 1
  BY <1>1, <1>2 DEF Sayable
<1>4. remaining' = t.length /\ t.length \in 1 .. t.length
  BY <1>1, <1>3 DEF CopyMatch
<1>5. Shows(e, t.place + t.length - remaining)'
  <2>1. Shows(e, t.place)'
    BY DEF Reading, Shows
  <2>2. PICK a, l, r : a = t.place /\ l = t.length /\ r = remaining'
    OBVIOUS
  <2>3. a \in Nat /\ l \in Nat /\ r = l
    BY <1>1, <1>4, <2>2
  <2>4. a + l - r = a
    BY <2>3
  <2>5. t.place + t.length - remaining' = t.place
    BY <2>2, <2>4
  <2> QED
    BY <2>1, <2>5 DEF Shows
<1>6. pc' = "copy" /\ offset' = t.offset /\ offset' >= 1
  BY <1>1 DEF CopyMatch, Reaches
<1> QED
  BY <1>4, <1>5, <1>6 DEF Copying

LEMMA MatchStep ==
    ASSUME NEW e, NEW t, Of(e, t), Reading(e, t), Match
    PROVE  Copying(e, t)'
<1>1. PICK f, p, v : /\ Number(t, use, offset, f, p, v) /\ value = v
                     /\ Reader(e, f + 2 * Len(p))'
  BY NumberOver DEF Match
<1>2. /\ t.kind = "match" /\ offset = t.offset
      /\ f = (t.item + 2 + 2 * Len(t.high)) + 1 /\ p = t.low
      /\ value = (t.length - Shortest(t.offset)) + 2
  BY <1>1 DEF Number, Match, NumberOf
<1>3. Reader(e, t.item + Width(t))'
  <2>1. f + 2 * Len(p) = t.item + Width(t)
    BY <1>2, OfFacts, MatchItems
  <2> QED
    BY <1>1, <2>1
<1>4. value + Extra(offset) = t.length
  <2>1. t.offset \in Nat /\ t.length \in Nat
    BY OfFacts
  <2>2. Shortest(t.offset) = 2 + Extra(t.offset) /\ Extra(t.offset) \in Nat
    BY <2>1 DEF Shortest, Extra
  <2> QED
    BY <1>2, <2>1, <2>2
<1>5. /\ CopyMatch(t.offset, t.length) /\ output' = output /\ IsMatch(t)
      /\ lastMatch' = TRUE /\ previous' = t.offset
  BY <1>2, <1>4 DEF Match, MatchedFrom, IsMatch
<1> QED
  BY <1>2, <1>3, <1>5, CopyingBegun

LEMMA MatchOfAgainStep ==
    ASSUME NEW e, NEW t, Of(e, t), Reading(e, t), MatchOfAgain
    PROVE  Copying(e, t)'
<1>1. PICK f, p, v : /\ Number(t, use, offset, f, p, v) /\ value = v
                     /\ Reader(e, f + 2 * Len(p))'
  BY NumberOver DEF MatchOfAgain
<1>2. /\ t.kind = "again" /\ offset = t.offset
      /\ f = t.item + 2 + 2 * Len(t.high) /\ p = t.low
      /\ value = t.length
  BY <1>1 DEF Number, MatchOfAgain, NumberOf
<1>3. Reader(e, t.item + Width(t))'
  <2>1. f + 2 * Len(p) = t.item + Width(t)
    BY <1>2, OfFacts, MatchItems
  <2> QED
    BY <1>1, <2>1
<1>5. /\ CopyMatch(t.offset, t.length) /\ output' = output /\ IsMatch(t)
      /\ lastMatch' = TRUE /\ previous' = t.offset
  BY <1>2 DEF MatchOfAgain, MatchedFrom, IsMatch
<1> QED
  BY <1>2, <1>3, <1>5, CopyingBegun

(* The byte of a short match, or of the end. *)
LEMMA ShortByte ==
    ASSUME NEW e, NEW t, Of(e, t), Reading(e, t), pc = "short", HasByte
    PROVE  /\ t.kind \in {"short", "end"}
           /\ IF t.kind = "end" THEN NextByte \div 2 = 0
              ELSE NextByte \div 2 = t.offset /\ 2 + (NextByte % 2) = t.length
           /\ stream' = stream /\ TakeByte => Reader(e, t.item + Width(t))'
<1> DEFINE f == t.item
<1>1. t.kind \in {"short", "end"} /\ Reader(e, f + 3)
  BY DEF Reading, Within, InNumber
<1>2. f \in Nat /\ f + 3 \in Nat /\ (f + 3) + 1 = f + 4 /\ Width(t) = 4 /\ f + 3 < Len(e.items)
  <2>1. Width(t) = 4
    BY <1>1 DEF Width
  <2>2. f \in Nat /\ f + Width(t) <= Len(e.items) /\ Len(e.items) \in Nat
    BY OfFacts
  <2> QED
    BY <2>1, <2>2
<1>3. e.items[f + 4] = AsByte(IF t.kind = "end" THEN 0 ELSE 2 * t.offset + (t.length - 2))
  BY <1>1, OfFacts DEF WrittenIn
<1>4. /\ ~ e.items[f + 4].bit
      /\ e.items[f + 4].v = IF t.kind = "end" THEN 0 ELSE 2 * t.offset + (t.length - 2)
  BY <1>3 DEF AsByte
<1>5. NextByte = e.items[f + 4].v
  BY <1>1, <1>2, <1>4, ByteSeen, OfFacts
<1>6. ASSUME stream' = stream, TakeByte PROVE Reader(e, f + Width(t))'
  BY <1>1, <1>2, <1>4, <1>6, ByteRead, OfFacts
<1>7. CASE t.kind = "end"
  BY <1>1, <1>4, <1>5, <1>6, <1>7
<1>8. CASE t.kind = "short"
  <2>1. t.length \in {2, 3} /\ t.offset \in Nat
    BY <1>8, OfFacts DEF Sayable
  <2>2. NextByte = 2 * t.offset + (t.length - 2)
    BY <1>4, <1>5, <1>8
  <2>3. NextByte \div 2 = t.offset /\ 2 + (NextByte % 2) = t.length
    BY <2>1, <2>2
  <2> QED
    BY <1>1, <1>6, <1>8, <2>3
<1> QED
  BY <1>1, <1>7, <1>8

LEMMA ShortMatchStep ==
    ASSUME NEW e, NEW t, Of(e, t), Reading(e, t), ShortMatch
    PROVE  Copying(e, t)'
<1>1. /\ t.kind = "short"
      /\ NextByte \div 2 = t.offset /\ 2 + (NextByte % 2) = t.length
      /\ Reader(e, t.item + Width(t))'
  BY ShortByte DEF ShortMatch, At, TakeByte
<1>2. /\ CopyMatch(t.offset, t.length) /\ output' = output /\ IsMatch(t)
      /\ lastMatch' = TRUE /\ previous' = t.offset
  BY <1>1 DEF ShortMatch, MatchedFrom, IsMatch
<1> QED
  BY <1>1, <1>2, CopyingBegun

LEMMA EndStep ==
    ASSUME NEW e, NEW t, Of(e, t), Reading(e, t), End
    PROVE  Decodes(e)'
<1>1. t.kind = "end" /\ Reader(e, t.item + Width(t))'
  <2>1. t.kind \in {"short", "end"} /\ (t.kind = "short" => NextByte \div 2 = t.offset)
        /\ Reader(e, t.item + Width(t))'
    BY ShortByte DEF End, At, TakeByte
  <2>2. t.kind = "short" => t.offset >= 1
    BY OfFacts DEF Sayable, IsMatch
  <2> QED
    BY <2>1, <2>2 DEF End
<1>2. t.place = Len(e.plain) /\ t.item + Width(t) = Len(e.items)
  BY <1>1, OfFacts
<1>3. pc' = "done" /\ Shows(e, t.place)'
  BY DEF End, Reading, Shows
<1> QED
  BY <1>1, <1>2, <1>3 DEF Decodes

LEMMA OneMore ==
    ASSUME NEW e, NEW n \in Nat, Shows(e, n), output \in Seq(Data), Len(e.plain) \in Nat,
           NEW b, output' = Append(output, b), n + 1 <= Len(e.plain), b = e.plain[n + 1]
    PROVE  Shows(e, n + 1)'
<1>1. Len(output') = n + 1 /\ output'[n + 1] = b
  BY DEF Shows
<1>2. ASSUME NEW j \in 1 .. n PROVE output'[j] = e.plain[j]
  BY DEF Shows
<1>3. \A j \in 1 .. n + 1 : j = n + 1 \/ j \in 1 .. n
  OBVIOUS
<1>4. \A j \in 1 .. n + 1 : output'[j] = e.plain[j]
  BY <1>1, <1>2, <1>3
<1> QED
  BY <1>1, <1>4 DEF Shows

(* The next token is begun. *)
LEMMA TokenOver ==
    ASSUME NEW e, NEW t, Of(e, t), t.kind # "end",
           pc' = "token", Shows(e, t.place + t.length)', Reader(e, t.item + Width(t))',
           lastMatch' = IsMatch(t), previous' = IF IsMatch(t) THEN t.offset ELSE t.last
    PROVE  Decodes(e)'
<1>1. PICK i \in DOMAIN e.tokens : t = e.tokens[i]
  BY DEF Of
<1>2. PICK k \in DOMAIN e.tokens :
         /\ e.tokens[k].place = t.place + t.length
         /\ e.tokens[k].item = t.item + Width(t)
         /\ e.tokens[k].last = IF IsMatch(t) THEN t.offset ELSE t.last
         /\ e.tokens[k].after = IsMatch(t)
  <2>1. Says(e)
    BY OfFacts, Zenon
  <2> QED
    BY <1>1, <2>1, NextToken
<1>3. PICK s : s = e.tokens[k]
  OBVIOUS
<1>4. Shows(e, s.place)' /\ Reader(e, s.item)'
  BY <1>2, <1>3
<1>5. Within(e, s)'
  BY <1>4 DEF Within
<1>6. Reading(e, s)'
  BY <1>2, <1>3, <1>4, <1>5 DEF Reading
<1> QED
  BY <1>3, <1>6 DEF Decodes

(* A byte of its own: a literal, or a single zero. *)
LEMMA ByteOver ==
    ASSUME NEW e, NEW t, Of(e, t), Reading(e, t), output \in Seq(Data),
           t.kind \in {"literal", "single"}, t.offset = 0,
           AppendByte(t.byte), Reader(e, t.item + Width(t))', previous' = previous
    PROVE  Decodes(e)'
<1>1. AddedBy(e.plain, t) /\ t.place \in Nat /\ Len(e.plain) \in Nat /\ t.length = 1
  BY OfFacts DEF Sayable
<1>2. t.place + 1 \in t.place + 1 .. t.place + t.length /\ t.place + 1 <= Len(e.plain)
  BY <1>1 DEF AddedBy
<1>3. e.plain[t.place + 1] = t.byte
  BY <1>1, <1>2 DEF AddedBy
<1>4. output' = Append(output, t.byte) /\ lastMatch' = FALSE /\ pc' = "token"
  BY DEF AppendByte
<1>5. Shows(e, t.place + 1)'
  BY <1>1, <1>2, <1>3, <1>4, OneMore DEF Reading
<1>6. IsMatch(t) = FALSE /\ previous' = t.last
  BY DEF IsMatch, Reading
<1>7. Shows(e, t.place + t.length)'
  BY <1>1, <1>5
<1>8. lastMatch' = IsMatch(t) /\ previous' = (IF IsMatch(t) THEN t.offset ELSE t.last)
      /\ t.kind # "end"
  BY <1>4, <1>6
<1> QED
  BY <1>4, <1>7, <1>8, TokenOver

LEMMA LiteralStep ==
    ASSUME NEW e, NEW t, Of(e, t), Reading(e, t), output \in Seq(Data), Literal
    PROVE  Decodes(e)'
<1> DEFINE f == t.item
<1>1. t.kind = "literal" /\ Reader(e, f + 1)
  BY DEF Reading, Within, InNumber, Literal, At
<1>2. Width(t) = 2
  BY <1>1 DEF Width
<1>3. f \in Nat /\ f + Width(t) <= Len(e.items) /\ Len(e.items) \in Nat
  BY OfFacts
<1>4. f + 1 \in Nat /\ (f + 1) + 1 = f + 2 /\ f + 1 < Len(e.items)
  BY <1>2, <1>3
<1>5. e.items[f + 2] = AsByte(t.byte)
  BY <1>1, OfFacts DEF WrittenIn
<1>6. Reader(e, f + 2)' /\ NextByte = t.byte
  <2>1. ~ e.items[(f + 1) + 1].bit /\ e.items[(f + 1) + 1].v = t.byte
    BY <1>4, <1>5 DEF AsByte
  <2> QED
    BY <1>1, <1>4, <2>1, ByteRead, OfFacts DEF Literal, At
<1>7. t.offset = 0
  BY <1>1, OfFacts DEF Sayable
<1> QED
  BY <1>1, <1>2, <1>6, <1>7, ByteOver DEF Literal

(* The last bit of a single's offset. *)
LEMMA LastBit ==
    ASSUME NEW e, NEW t, Of(e, t), Reading(e, t), pc = "single", remaining = 1, HasBit
    PROVE  /\ t.kind = "single" /\ 2 * value + Bit = t.offset
           /\ stream' = stream /\ TakeBit => Reader(e, t.item + Width(t))'
<1> DEFINE f == t.item
<1>1. PICK j \in 0 .. SingleBits - 1 :
         /\ Reader(e, f + 3 + j) /\ value = Reached(0, t.high, j) /\ remaining = SingleBits - j
  BY DEF Reading, Within, InNumber
<1>2. t.kind = "single" /\ SingleBits \in Nat \ {0}
  BY Sizes DEF Reading, Within, InNumber
<1>3. Width(t) = 3 + SingleBits
  BY <1>2 DEF Width
<1>4. f \in Nat /\ f + Width(t) <= Len(e.items) /\ Len(e.items) \in Nat
  BY OfFacts
<1>5. j + 1 = SingleBits /\ SingleBits \in 1 .. SingleBits /\ j = SingleBits - 1
  BY <1>1, <1>2
<1>6. /\ f + 3 + j \in Nat /\ f + 3 + j < Len(e.items)
      /\ (f + 3 + j) + 1 = f + 3 + SingleBits /\ f + 3 + SingleBits = f + Width(t)
  <2>1. SingleBits \in Nat /\ f + (3 + SingleBits) <= Len(e.items)
    BY <1>2, <1>3, <1>4
  <2>2. PICK i \in Nat, b \in Nat, l \in Nat : i = f /\ b = SingleBits /\ l = Len(e.items)
    BY <1>4, <2>1
  <2>3. j + 1 = b /\ j \in 0 .. b - 1 /\ i + (3 + b) <= l
    BY <1>5, <2>1, <2>2, Zenon
  <2>4. /\ i + 3 + j \in Nat /\ i + 3 + j < l /\ (i + 3 + j) + 1 = i + 3 + b
        /\ i + 3 + b = i + (3 + b)
    BY <2>3
  <2> QED
    BY <1>3, <2>2, <2>4, Zenon
<1>7. IsDigit(e.items[f + 3 + SingleBits], 0, t.high, SingleBits)
      /\ t.high[SingleBits] = t.offset
  <2>1. /\ \A h \in 1 .. SingleBits : IsDigit(e.items[f + 3 + h], 0, t.high, h)
        /\ t.high[SingleBits] = t.offset
    BY <1>2, OfFacts DEF WrittenIn
  <2> QED
    BY <1>5, <2>1
<1> DEFINE k == f + 3 + j
<1>k. k \in Nat /\ k < Len(e.items) /\ Reader(e, k) /\ e.items[k + 1].bit
  BY <1>1, <1>6, <1>7 DEF IsDigit
<1>8. Bit = e.items[f + 3 + SingleBits].v
  BY <1>k, <1>6, BitSeen, OfFacts
<1>9. ASSUME stream' = stream, TakeBit PROVE Reader(e, f + Width(t))'
  <2>1. Reader(e, k + 1)'
    BY <1>k, <1>9, BitRead, OfFacts
  <2> QED
    BY <1>6, <2>1
<1>10. 2 * value + Bit = t.offset
  BY <1>1, <1>5, <1>7, <1>8 DEF IsDigit
<1> QED
  BY <1>2, <1>9, <1>10

LEMMA SingleStep ==
    ASSUME NEW e, NEW t, Of(e, t), Reading(e, t), output \in Seq(Data), Single
    PROVE  Decodes(e)'
<1>1. /\ t.kind = "single" /\ 2 * value + Bit = t.offset
      /\ Reader(e, t.item + Width(t))'
  BY LastBit DEF Single, At, TakeBit
<1>2. previous' = previous
  BY DEF Single
<1>3. CASE t.offset = 0
  <2>1. AppendByte(t.byte)
    BY <1>1, <1>3, OfFacts DEF Single, Sayable
  <2> QED
    BY <1>1, <1>2, <1>3, <2>1, ByteOver
<1>4. CASE t.offset # 0
  <2>1. CopyMatch(t.offset, 1) /\ lastMatch' = FALSE /\ output' = output
    BY <1>1, <1>4 DEF Single
  <2>2. t.length = 1 /\ IsMatch(t) = FALSE /\ previous' = t.last
    BY <1>1, <1>2, OfFacts DEF Sayable, IsMatch, Reading
  <2>3. Copying(e, t)'
    <3>1. CopyMatch(t.offset, t.length)
      BY <2>1, <2>2
    <3>2. lastMatch' = IsMatch(t) /\ previous' = IF IsMatch(t) THEN t.offset ELSE t.last
      BY <2>1, <2>2
    <3> QED
      BY <1>1, <2>1, <3>1, <3>2, CopyingBegun
  <2>4. stream' = stream
    BY DEF Single, At
  <2> QED
    BY <2>3 DEF Decodes, Of
<1> QED
  BY <1>3, <1>4

LEMMA CopyByteStep ==
    ASSUME NEW e, NEW t, Of(e, t), Copying(e, t), output \in Seq(Data), CopyByte
    PROVE  Copying(e, t)' \/ Decodes(e)'
<1>1. /\ t.kind \in {"match", "again", "short", "single"} /\ t.kind # "end"
      /\ offset = t.offset /\ offset >= 1 /\ remaining \in 1 .. t.length
      /\ Shows(e, t.place + t.length - remaining)
      /\ Reader(e, t.item + Width(t))
      /\ lastMatch = IsMatch(t) /\ previous = IF IsMatch(t) THEN t.offset ELSE t.last
  BY DEF Copying
<1>2. /\ AddedBy(e.plain, t) /\ t.place \in Nat \ {0} /\ Len(e.plain) \in Nat
      /\ t.length \in Nat /\ t.offset \in Nat
  BY <1>1, OfFacts
<1>3. PICK a, l, r, o, n : /\ a = t.place /\ l = t.length /\ r = remaining /\ o = t.offset
                           /\ n = t.place + t.length - remaining
  OBVIOUS
<1>4. /\ a \in Nat /\ l \in Nat /\ r \in 1 .. l /\ o \in Nat /\ o >= 1
      /\ n = a + l - r /\ o <= a /\ a + l <= Len(e.plain)
  BY <1>1, <1>2, <1>3 DEF AddedBy
<1>5. /\ n \in Nat /\ n + 1 \in a + 1 .. a + l /\ n + 1 <= Len(e.plain)
      /\ (n + 1) - o \in 1 .. n /\ n - o + 1 = (n + 1) - o
      /\ n + 1 = a + l - (r - 1)
  BY <1>2, <1>4
<1>6. Shows(e, n) /\ Len(output) = n
  BY <1>1, <1>3 DEF Shows
<1>7. e.plain[n + 1] = e.plain[(n + 1) - o]
  <2>1. n + 1 \in t.place + 1 .. t.place + t.length
    BY <1>3, <1>5
  <2>2. e.plain[n + 1] = IF t.offset = 0 THEN t.byte ELSE e.plain[(n + 1) - t.offset]
    BY <1>2, <2>1 DEF AddedBy
  <2>3. t.offset # 0
    BY <1>3, <1>4
  <2> QED
    BY <1>3, <2>2, <2>3
<1>8. output[(n + 1) - o] = e.plain[(n + 1) - o]
  BY <1>5, <1>6 DEF Shows
<1>9. output' = Append(output, e.plain[n + 1])
  BY <1>1, <1>3, <1>5, <1>6, <1>7, <1>8 DEF CopyByte
<1>10. Shows(e, n + 1)'
  BY <1>2, <1>5, <1>6, <1>9, OneMore
<1>11. /\ remaining' = r - 1 /\ offset' = offset /\ lastMatch' = lastMatch
       /\ previous' = previous /\ Reader(e, t.item + Width(t))'
  BY <1>1, <1>3 DEF CopyByte, Reader, reader, At
<1>12. CASE r = 1
  <2>1. pc' = "token"
    BY <1>3, <1>12 DEF CopyByte
  <2>2. n + 1 = t.place + t.length
    BY <1>3, <1>4, <1>12
  <2>3. Shows(e, t.place + t.length)'
    BY <1>10, <2>2
  <2> QED
    BY <1>1, <1>11, <2>1, <2>3, TokenOver
<1>13. CASE r # 1
  <2>1. pc' = "copy"
    BY <1>3, <1>13 DEF CopyByte
  <2>2. r - 1 \in 1 .. t.length
    BY <1>3, <1>4, <1>13
  <2>3. n + 1 = t.place + t.length - remaining'
    BY <1>3, <1>5, <1>11
  <2>4. Shows(e, t.place + t.length - remaining)'
    BY <1>10, <2>3 DEF Shows
  <2> QED
    BY <1>1, <1>11, <2>1, <2>2, <2>4 DEF Copying
<1> QED
  BY <1>12, <1>13

LEMMA FirstStep ==
    ASSUME Stream(stream), stream.kind # "arbitrary", NEW e, e = stream.said,
           Decodes(e), First
    PROVE  Decodes(e)'
<1>1. Reader(e, 0) /\ previous = 0 /\ lastMatch = FALSE
  BY DEF Decodes, Reading, Within, InNumber, Copying, First, At
<1>2. Says(e)
  BY Agreement
<1>3. PICK t : t = e.tokens[1]
  OBVIOUS
<1>4. DOMAIN e.tokens = 1 .. Len(e.tokens) /\ Len(e.tokens) \in Nat /\ 1 \in DOMAIN e.tokens
      /\ Len(e.items) \in Nat /\ Len(e.plain) \in Nat
  <2>1. /\ DOMAIN e.tokens = 1 .. Len(e.tokens) /\ Len(e.tokens) \in Nat
        /\ Len(e.items) \in Nat /\ Len(e.plain) \in Nat
    BY <1>2, ItemsCounted, Zenon
  <2>2. e.tokens # <<>> /\ Sequence(e.tokens)
    BY <1>2, Zenon DEF Says, TextSays
  <2>3. Len(e.tokens) # 0
    BY <2>2 DEF Sequence
  <2>4. 1 \in 1 .. Len(e.tokens)
    BY <2>1, <2>3
  <2> QED
    BY <2>1, <2>4, Zenon
<1>5. /\ t.place = 1 /\ t.last = 0 /\ ~ t.after /\ t.item = 1
      /\ e.items[1] = AsByte(e.plain[1])
  BY <1>2, <1>3 DEF Says, TextSays, TokensWritten
<1>6. TokenTyped(t) /\ t.item + Width(t) <= Len(e.items) /\ t.place <= Len(e.plain)
  BY <1>2, <1>3, <1>4, TokenFacts
<1>7. WrittenIn(e.items, t) /\ t.after = FALSE
  BY <1>2, <1>3, <1>4, <1>5, <1>6, TokenFacts DEF TokenTyped
<1>8. t.item < Len(e.items)
  BY <1>4, <1>6, <1>7, TagBits
<1>9. 0 < Len(e.items) /\ 0 \in Nat /\ 0 + 1 = 1
  BY <1>4, <1>5, <1>8
<1>10. ~ e.items[1].bit /\ e.items[1].v = e.plain[1]
  BY <1>5 DEF AsByte
<1>11. Reader(e, 1)' /\ NextByte = e.plain[1]
  BY <1>1, <1>9, <1>10, ByteRead DEF First, At
<1>12. output' = <<e.plain[1]>> /\ pc' = "token" /\ lastMatch' = FALSE /\ previous' = 0
  BY <1>1, <1>11 DEF First
<1>13. Shows(e, 1)'
  BY <1>5, <1>6, <1>12 DEF Shows
<1>14. Within(e, t)' /\ Shows(e, t.place)'
  BY <1>5, <1>11, <1>12, <1>13 DEF Within
<1>15. Reading(e, t)'
  BY <1>5, <1>7, <1>12, <1>14 DEF Reading
<1> QED
  BY <1>3, <1>4, <1>15 DEF Decodes

-----------------------------------------------------------------------------
(* What is refused.                                                        *)

(* A whole stream does not end where something is needed. *)
LEMMA NumberReady ==
    ASSUME NEW e, NEW t, Of(e, t), Reading(e, t), stream.kind = "genuine",
           pc \in {"digit", "more"}
    PROVE  HasBit
<1>1. PICK f, p, v : Number(t, use, offset, f, p, v) /\ InNumber(e, f, p)
  BY NumberOfToken
<1>2. /\ f \in Nat /\ p \in Seq(Nat) /\ Spelt(e.items, f, p, v)
      /\ f + 2 * Len(p) <= Len(e.items)
  BY <1>1, NumberFacts
<1>3. Len(e.items) \in Nat /\ Stream(stream) /\ e = stream.said
  BY OfFacts
<1>4. CASE pc = "digit"
  <2>1. PICK j \in 0 .. Len(p) - 1 : Reader(e, f + 2 * j)
    BY <1>1, <1>4 DEF InNumber
  <2>2. /\ f + 2 * j \in Nat /\ f + 2 * j < Len(e.items) /\ j + 1 \in DOMAIN p
        /\ f + 2 * (j + 1) - 1 = (f + 2 * j) + 1
    BY <1>2, <1>3
  <2>3. e.items[f + 2 * (j + 1) - 1].bit
    BY <1>2, <2>2 DEF Spelt, IsDigit
  <2>4. e.items[(f + 2 * j) + 1].bit
    BY <2>2, <2>3
  <2> QED
    BY <1>3, <2>1, <2>2, <2>4, Ready
<1>5. CASE pc = "more"
  <2>1. PICK j \in 1 .. Len(p) : Reader(e, f + 2 * j - 1)
    BY <1>1, <1>5 DEF InNumber
  <2> DEFINE k == f + 2 * j - 1
  <2>2. k \in Nat /\ k < Len(e.items) /\ k + 1 = f + 2 * j /\ j \in DOMAIN p
    BY <1>2, <1>3
  <2>3. e.items[f + 2 * j] = AsBit(IF j = Len(p) THEN 0 ELSE 1)
    BY <1>2, <2>2 DEF Spelt
  <2>4. e.items[k + 1].bit
    BY <2>2, <2>3 DEF AsBit
  <2> QED
    BY <1>3, <2>1, <2>2, <2>4, Ready
<1> QED
  BY <1>4, <1>5

LEMMA NeverShort ==
    ASSUME NEW e, NEW t, Of(e, t), Reading(e, t), stream.kind = "genuine"
    PROVE  (pc \in BytePCs => HasByte) /\ (pc \in BitPCs => HasBit)
<1> DEFINE f == t.item
           g == f + 2 + 2 * Len(t.high)
<1>1. /\ Len(e.items) \in Nat /\ Stream(stream) /\ e = stream.said
      /\ TokenTyped(t) /\ WrittenIn(e.items, t) /\ f \in Nat
      /\ f + Width(t) <= Len(e.items)
  BY OfFacts
<1>2. CASE pc = "token"
  <2>1. Reader(e, f)
    BY <1>2 DEF Reading, Within, InNumber
  <2>2. f < Len(e.items) /\ e.items[f + 1].bit
    <3>1. f < Len(e.items) /\ e.items[f + 1] = AsBit(IF t.kind = "literal" THEN 0 ELSE 1)
      BY <1>1, TagBits
    <3> QED
      BY <3>1, Which
  <2> QED
    BY <1>1, <1>2, <2>1, <2>2, Ready DEF BytePCs
<1>3. CASE pc = "second"
  <2>1. Reader(e, f + 1) /\ t.kind # "literal"
    BY <1>3 DEF Reading, Within, InNumber
  <2>2. f + 1 < Len(e.items) /\ e.items[(f + 1) + 1].bit /\ f + 1 \in Nat
    <3>1. (f + 1) + 1 = f + 2 /\ f + 1 \in Nat
      BY <1>1
    <3>2. /\ f + 1 < Len(e.items)
          /\ e.items[f + 2] = AsBit(IF t.kind \in {"match", "again"} THEN 0 ELSE 1)
      BY <1>1, <2>1, TagBits
    <3> QED
      BY <3>1, <3>2, Which
  <2> QED
    BY <1>1, <1>3, <2>1, <2>2, Ready DEF BytePCs
<1>4. CASE pc = "third"
  <2>1. Reader(e, f + 2) /\ t.kind \in {"short", "single", "end"}
    BY <1>4 DEF Reading, Within, InNumber
  <2>2. f + 2 < Len(e.items) /\ e.items[(f + 2) + 1].bit /\ f + 2 \in Nat
    <3>1. (f + 2) + 1 = f + 3 /\ f + 2 \in Nat
      BY <1>1
    <3>2. /\ f + 2 < Len(e.items)
          /\ e.items[f + 3] = AsBit(IF t.kind = "single" THEN 1 ELSE 0)
      BY <1>1, <2>1, TagBits
    <3> QED
      BY <3>1, <3>2, Which
  <2> QED
    BY <1>1, <1>4, <2>1, <2>2, Ready DEF BytePCs
<1>5. CASE pc = "literal"
  <2>1. Reader(e, f + 1) /\ t.kind = "literal"
    BY <1>5 DEF Reading, Within, InNumber
  <2>2. Width(t) = 2 /\ e.items[f + 2] = AsByte(t.byte)
    BY <1>1, <2>1 DEF Width, WrittenIn
  <2>3. (f + 1) + 1 = f + 2 /\ f + 1 < Len(e.items) /\ f + 1 \in Nat
    BY <1>1, <2>2
  <2>4. ~ e.items[(f + 1) + 1].bit
    BY <2>2, <2>3 DEF AsByte
  <2> QED
    BY <1>1, <1>5, <2>1, <2>3, <2>4, Ready DEF BitPCs
<1>6. CASE pc = "short"
  <2>1. Reader(e, f + 3) /\ t.kind \in {"short", "end"}
    BY <1>6 DEF Reading, Within, InNumber
  <2>2. Width(t) = 4 /\ ~ e.items[f + 4].bit
    <3>1. Width(t) = 4
      BY <2>1 DEF Width
    <3>2. e.items[f + 4] = AsByte(IF t.kind = "end" THEN 0 ELSE 2 * t.offset + (t.length - 2))
      BY <1>1, <2>1 DEF WrittenIn
    <3> QED
      BY <3>1, <3>2, Which
  <2>3. (f + 3) + 1 = f + 4 /\ f + 3 < Len(e.items) /\ f + 3 \in Nat
    BY <1>1, <2>2
  <2>4. ~ e.items[(f + 3) + 1].bit
    BY <2>2, <2>3
  <2> QED
    BY <1>1, <1>6, <2>1, <2>3, <2>4, Ready DEF BitPCs
<1>7. CASE pc = "low"
  <2>1. Reader(e, g) /\ t.kind = "match"
    BY <1>7 DEF Reading, Within, InNumber
  <2>2. g < Len(e.items) /\ ~ e.items[g + 1].bit
    <3>1. g < Len(e.items) /\ e.items[g + 1] = AsByte(t.offset % Byte)
      BY <1>1, <2>1, MatchItems
    <3> QED
      BY <3>1, Which
  <2>3. g \in Nat
    BY <2>1, <1>1 DEF Reader
  <2> QED
    BY <1>1, <1>7, <2>1, <2>2, <2>3, Ready DEF BitPCs
<1>8. CASE pc = "single"
  <2>1. PICK j \in 0 .. SingleBits - 1 : Reader(e, f + 3 + j)
    BY <1>8 DEF Reading, Within, InNumber
  <2>2. t.kind = "single" /\ SingleBits \in Nat
    BY <1>8, Sizes DEF Reading, Within, InNumber
  <2>3. Width(t) = 3 + SingleBits
    BY <2>2 DEF Width
  <2>4. /\ f + 3 + j \in Nat /\ f + 3 + j < Len(e.items) /\ j + 1 \in 1 .. SingleBits
        /\ (f + 3 + j) + 1 = f + 3 + (j + 1)
    <3>1. /\ f \in Nat /\ Len(e.items) \in Nat
          /\ f + (3 + SingleBits) <= Len(e.items)
      BY <1>1, <2>3
    <3>2. PICK i \in Nat, b \in Nat, l \in Nat : i = f /\ b = SingleBits /\ l = Len(e.items)
      BY <2>2, <3>1
    <3>3. j \in 0 .. b - 1 /\ i + (3 + b) <= l
      BY <3>1, <3>2, Zenon
    <3>4. /\ i + 3 + j \in Nat /\ i + 3 + j < l /\ (i + 3 + j) + 1 = i + 3 + (j + 1)
          /\ j + 1 \in 1 .. b
      BY <3>3
    <3> QED
      BY <3>2, <3>4, Zenon
  <2>5. \A h \in 1 .. SingleBits : IsDigit(e.items[f + 3 + h], 0, t.high, h)
    BY <1>1, <2>2 DEF WrittenIn
  <2>6. e.items[f + 3 + (j + 1)].bit
    BY <2>4, <2>5 DEF IsDigit
  <2>7. e.items[(f + 3 + j) + 1].bit
    BY <2>4, <2>6
  <2> QED
    BY <1>1, <1>8, <2>1, <2>4, <2>7, Ready DEF BytePCs
<1>9. CASE pc \in {"digit", "more"}
  BY <1>9, NumberReady DEF BytePCs
<1>10. pc # "first"
  BY DEF Reading, Within, InNumber
<1> QED
  BY <1>2, <1>3, <1>4, <1>5, <1>6, <1>7, <1>8, <1>9, <1>10 DEF BytePCs, BitPCs

(* What t adds does not fit. *)
LEMMA TooLong ==
    ASSUME NEW e, NEW t, Of(e, t), Reading(e, t), t.kind # "end", ~ Fits(t.length)
    PROVE  Len(e.plain) > stream.limit
<1>1. /\ t.place \in Nat /\ t.length \in Nat /\ Len(e.plain) \in Nat
      /\ t.place + t.length <= Len(e.plain) /\ stream.limit \in Nat
  BY OfFacts DEF AddedBy, Stream
<1>2. Len(output) = t.place
  BY DEF Reading, Shows
<1>3. ~ (t.length <= stream.limit - t.place)
  BY <1>2 DEF Fits, Room
<1>4. PICK a, l, n, m : a = t.place /\ l = t.length /\ n = Len(e.plain) /\ m = stream.limit
  OBVIOUS
<1>5. a \in Nat /\ l \in Nat /\ n \in Nat /\ m \in Nat /\ a + l <= n /\ ~ (l <= m - a)
  BY <1>1, <1>3, <1>4
<1>6. n > m
  BY <1>5
<1> QED
  BY <1>4, <1>6

LEMMA CannotCopy ==
    ASSUME NEW e, NEW t, Of(e, t), Reading(e, t), t.kind # "end",
           t.offset >= 1, Cannot(t.offset, t.length)
    PROVE  Len(e.plain) > stream.limit
<1>1. Reaches(t.offset)
  BY OfFacts DEF AddedBy, Reaches, Reading, Shows
<1> QED
  BY <1>1, TooLong DEF Cannot

LEMMA Refused ==
    ASSUME NEW e, NEW t, Of(e, t), Reading(e, t), stream.kind = "genuine", Malformed
    PROVE  Len(e.plain) > stream.limit
<1>0. (pc \in BytePCs => HasByte) /\ (pc \in BitPCs => HasBit)
  BY NeverShort
<1>1. /\ Sayable(t) /\ t.length \in Nat /\ t.offset \in Nat /\ Len(e.plain) \in Nat
      /\ t.after \in BOOLEAN /\ stream.limit \in Nat
  BY OfFacts DEF Stream
<1>2. CASE pc = "literal" /\ ~ Fits(1)
  <2>1. t.kind = "literal"
    BY <1>2 DEF Reading, Within, InNumber
  <2> QED
    BY <1>1, <1>2, <2>1, TooLong DEF Sayable
<1>3. CASE pc = "digit" /\ 2 * value + Bit > GammaLimit
  <2>1. PICK f, p, v : Number(t, use, offset, f, p, v) /\ InNumber(e, f, p)
    BY <1>3, NumberOfToken
  <2>2. HasBit
    BY <1>0, <1>3 DEF BitPCs
  <2>3. 2 * value + Bit <= v /\ v \in Nat /\ v <= Len(e.plain) + 3
    BY <1>3, <2>1, <2>2, NumberFacts, DigitRead, OfFacts
  <2>4. 2 * value + Bit > stream.limit + 3
    BY <1>3 DEF GammaLimit
  <2>5. 2 * value + Bit \in Int
    <3>1. \E j \in 0 .. Len(p) - 1 : value = Reached(1, p, j)
      BY <1>3, <2>1 DEF InNumber
    <3>2. value \in Nat
      BY <3>1, <2>1, NumberFacts DEF Reached
    <3> QED
      BY <3>2 DEF Bit
  <2> QED
    BY <1>1, <2>3, <2>4, <2>5
<1>4. CASE pc = "more" /\ Bit = 0
           /\ \/ use = "offset" /\ ~ Again /\ value < Bias
              \/ use = "length" /\ Cannot(offset, value + Extra(offset))
              \/ use = "again" /\ Cannot(offset, value)
  <2>1. PICK f, p, v : Number(t, use, offset, f, p, v) /\ InNumber(e, f, p)
    BY <1>4, NumberOfToken
  <2>2. HasBit
    BY <1>0, <1>4 DEF BitPCs
  <2>3. value = v
    BY <1>4, <2>1, <2>2, NumberFacts, MoreRead, OfFacts
  <2>4. lastMatch = t.after
    BY DEF Reading
  <2>5. CASE use = "offset"
    <3>1. ~ Again /\ value < Bias
      BY <1>4, <2>5
    <3>2. /\ t.kind \in {"match", "again"}
          /\ t.kind = "again" => value = 2
          /\ t.kind = "match" => value = (t.offset \div Byte) + (IF t.after THEN 2 ELSE 3)
      BY <2>1, <2>3, <2>5 DEF Number
    <3>3. t.kind = "match"
      BY <1>1, <2>4, <3>1, <3>2 DEF Again, Sayable
    <3>4. Bias = IF t.after THEN 2 ELSE 3
      BY <2>4 DEF Bias
    <3>5. t.offset \div Byte \in Nat
      BY <1>1, HighAndLow
    <3> QED
      BY <3>1, <3>2, <3>3, <3>4, <3>5
  <2>6. CASE use = "length"
    <3>1. /\ t.kind = "match" /\ offset = t.offset
          /\ value = (t.length - Shortest(t.offset)) + 2
      BY <2>1, <2>3, <2>6 DEF Number
    <3>2. Shortest(t.offset) = 2 + Extra(t.offset) /\ Extra(t.offset) \in Nat
      BY <1>1 DEF Shortest, Extra
    <3>3. value + Extra(offset) = t.length
      BY <1>1, <3>1, <3>2
    <3>4. Cannot(t.offset, t.length)
      BY <1>4, <2>6, <3>1, <3>3
    <3>5. t.offset >= 1
      BY <1>1, <3>1 DEF Sayable, IsMatch
    <3> QED
      BY <3>1, <3>4, <3>5, CannotCopy
  <2>7. CASE use = "again"
    <3>1. t.kind = "again" /\ offset = t.offset /\ value = t.length
      BY <2>1, <2>3, <2>7 DEF Number
    <3>2. Cannot(t.offset, t.length)
      BY <1>4, <2>7, <3>1
    <3>3. t.offset >= 1
      BY <1>1, <3>1 DEF Sayable, IsMatch
    <3> QED
      BY <3>1, <3>2, <3>3, CannotCopy
  <2> QED
    BY <1>4, <2>5, <2>6, <2>7
<1>5. CASE pc = "short" /\ HasByte /\ NextByte \div 2 # 0
           /\ Cannot(NextByte \div 2, 2 + (NextByte % 2))
  <2>1. t.kind = "short" /\ NextByte \div 2 = t.offset /\ 2 + (NextByte % 2) = t.length
    BY <1>5, ShortByte
  <2>2. Cannot(t.offset, t.length) /\ t.offset >= 1
    BY <1>1, <1>5, <2>1 DEF Sayable, IsMatch
  <2> QED
    BY <2>1, <2>2, CannotCopy
<1>6. CASE pc = "single" /\ HasBit /\ remaining = 1 /\
           IF 2 * value + Bit = 0 THEN ~ Fits(1) ELSE Cannot(2 * value + Bit, 1)
  <2>1. t.kind = "single" /\ 2 * value + Bit = t.offset
    BY <1>6, LastBit
  <2>2. t.length = 1
    BY <1>1, <2>1 DEF Sayable
  <2>3. CASE t.offset = 0
    BY <1>6, <2>1, <2>2, <2>3, TooLong
  <2>4. CASE t.offset # 0
    <3>1. t.offset >= 1 /\ Cannot(t.offset, t.length)
      BY <1>1, <1>6, <2>1, <2>2, <2>4
    <3> QED
      BY <2>1, <3>1, CannotCopy
  <2> QED
    BY <2>3, <2>4
<1> QED
  BY <1>0, <1>2, <1>3, <1>4, <1>5, <1>6 DEF Malformed

-----------------------------------------------------------------------------
LEMMA InitiallyFaithful == Init => Faithful
<1> SUFFICES ASSUME Init, stream.kind # "arbitrary" PROVE Decodes(stream.said)
  BY DEF Faithful
<1>1. PICK e : e = stream.said
  OBVIOUS
<1>2. Stream(stream)
  BY StreamsTyped DEF Init
<1>3. Says(e) /\ Len(stream.data) \in Nat
  BY <1>1, <1>2, Agreement
<1>4. Len(e.items) \in Nat /\ e.marks[0] = [used |-> 0, tag |-> 0, left |-> 0]
  BY <1>3, ItemsCounted DEF Says, ItemsWritten
<1>5. Reader(e, 0)
  BY <1>3, <1>4 DEF Reader, Init
<1> QED
  BY <1>1, <1>5 DEF Decodes, Init

LEMMA FaithfulKept == Inv /\ Faithful /\ [Next]_vars => Faithful'
<1> SUFFICES ASSUME Inv, Faithful, [Next]_vars, (stream.kind # "arbitrary")'
             PROVE  Decodes(stream.said)'
  BY DEF Faithful
<1>1. stream' = stream
  BY DEF Next, vars, At, First, Token, Second, Third, Literal, Digit, More, MatchAgain,
     HighPart, LowPart, Match, MatchOfAgain, ShortMatch, End, SingleBit, Single, CopyByte,
     Raise, Returned, NumberOf
<1>2. PICK e : e = stream.said
  OBVIOUS
<1>3. /\ Stream(stream) /\ stream.kind # "arbitrary" /\ Decodes(e)
      /\ output \in Seq(Data) /\ Len(output) <= stream.limit
  BY <1>1, <1>2 DEF Inv, Faithful, WithinLimit
<1>4. Decodes(e)'
  <2>1. CASE First
    BY <1>2, <1>3, <2>1, FirstStep
  <2>2. ASSUME NEW i \in DOMAIN e.tokens, Reading(e, e.tokens[i]) PROVE Decodes(e)'
    <3>1. PICK t : t = e.tokens[i]
      OBVIOUS
    <3>2. Of(e, t) /\ Reading(e, t)
      BY <1>2, <1>3, <2>2, <3>1 DEF Of
    <3>3. Reading(e, t)' \/ Copying(e, t)' => Decodes(e)'
      BY <3>1 DEF Decodes
    <3>4. CASE Token \/ Second \/ Third \/ Digit \/ More
      BY <3>2, <3>3, <3>4, TokenStep, SecondStep, ThirdStep, DigitStep, MoreStep
    <3>5. CASE MatchAgain \/ HighPart \/ LowPart \/ SingleBit
      BY <3>2, <3>3, <3>5, MatchAgainStep, HighPartStep, LowPartStep, SingleBitStep
    <3>6. CASE Match \/ MatchOfAgain \/ ShortMatch
      BY <3>2, <3>3, <3>6, MatchStep, MatchOfAgainStep, ShortMatchStep
    <3>7. CASE Literal \/ Single \/ End
      BY <1>3, <3>2, <3>7, LiteralStep, SingleStep, EndStep
    <3>8. CASE CopyByte
      BY <3>2, <3>8 DEF CopyByte, At, Reading, Within, InNumber
    <3>9. CASE Raise
      <4>1. pc' = "error" /\ Malformed
        BY <3>9 DEF Raise
      <4>2. Len(stream'.data) >= Len(e.code) => Len(e.plain) > stream'.limit
        BY <1>1, <1>2, <1>3, <3>2, <4>1, Agreement, Refused
      <4> QED
        BY <4>1, <4>2 DEF Decodes
    <3>10. CASE Returned \/ UNCHANGED vars
      <4>1. UNCHANGED vars
        BY <3>10, Zenon DEF Returned
      <4>2. /\ stream' = stream /\ position' = position /\ tag' = tag
            /\ bitsLeft' = bitsLeft /\ output' = output /\ previous' = previous
            /\ lastMatch' = lastMatch /\ pc' = pc /\ use' = use /\ value' = value
            /\ offset' = offset /\ remaining' = remaining
        BY <4>1 DEF vars, reader
      <4>3. \A k : Reader(e, k)' <=> Reader(e, k)
        BY <4>2, Zenon DEF Reader
      <4>4. \A f, p : InNumber(e, f, p)' <=> InNumber(e, f, p)
        BY <4>2, <4>3, Zenon DEF InNumber
      <4>5. Within(e, t)' <=> Within(e, t)
        BY <4>2, <4>3, <4>4 DEF Within
      <4>6. Shows(e, t.place)' <=> Shows(e, t.place)
        BY <4>2, Zenon DEF Shows
      <4>7. Reading(e, t)'
        BY <3>2, <4>2, <4>5, <4>6, Zenon DEF Reading
      <4> QED
        BY <3>3, <4>7
    <3> QED
      BY <2>1, <3>4, <3>5, <3>6, <3>7, <3>8, <3>9, <3>10 DEF Next
  <2>3. ASSUME NEW i \in DOMAIN e.tokens, Copying(e, e.tokens[i]) PROVE Decodes(e)'
    <3>1. PICK t : t = e.tokens[i]
      OBVIOUS
    <3>2. Of(e, t) /\ Copying(e, t) /\ pc = "copy"
      BY <1>2, <1>3, <2>3, <3>1 DEF Of, Copying
    <3>3. CASE CopyByte
      <4>1. Copying(e, t)' \/ Decodes(e)'
        BY <1>3, <3>2, <3>3, CopyByteStep
      <4> QED
        BY <3>1, <4>1 DEF Decodes
    <3>4. CASE UNCHANGED vars
      <4>1. Copying(e, t)'
        BY <3>2, <3>4 DEF vars, reader, Copying, Reader, Shows
      <4> QED
        BY <3>1, <4>1 DEF Decodes
    <3>5. ~ Malformed
      BY <3>2 DEF Malformed, BytePCs, BitPCs
    <3> QED
      BY <3>2, <3>3, <3>4, <3>5 DEF Next, At, First, Token, Second, Third, Literal, Digit,
         More, MatchAgain, HighPart, LowPart, Match, MatchOfAgain, ShortMatch, End,
         SingleBit, Single, Raise, Returned, NumberOf
  <2>4. CASE pc = "first" /\ Reader(e, 0) /\ previous = 0 /\ lastMatch = FALSE
    <3>1. CASE Raise
      <4>1. pc' = "error" /\ ~ HasByte
        BY <2>4, <3>1 DEF Raise, Malformed, BytePCs, BitPCs
      <4>2. Says(e) /\ Len(e.items) \in Nat
        BY <1>2, <1>3, Agreement, ItemsCounted
      <4>3. 0 < Len(e.items) /\ ~ e.items[0 + 1].bit
        <5>1. e.items[1] = AsByte(e.plain[1]) /\ e.tokens[1].item = 1 /\ 1 \in DOMAIN e.tokens
          BY <4>2, ItemsCounted DEF Says, TextSays, TokensWritten, Sequence
        <5>2. PICK t : t = e.tokens[1]
          OBVIOUS
        <5>3. TokenTyped(t) /\ WrittenIn(e.items, t)
          BY <4>2, <5>1, <5>2, TokenFacts
        <5>4. t.item < Len(e.items)
          BY <4>2, <5>3, TagBits
        <5> QED
          BY <4>2, <5>1, <5>2, <5>4, Which
      <4>4. stream.kind # "genuine"
        BY <1>2, <1>3, <2>4, <4>1, <4>3, Ready
      <4>5. ~ (Len(stream'.data) >= Len(e.code))
        BY <1>1, <1>2, <1>3, <4>4, Agreement
      <4> QED
        BY <4>1, <4>5 DEF Decodes
    <3>2. CASE UNCHANGED vars
      BY <2>4, <3>2 DEF vars, reader, Decodes, Reader
    <3> QED
      BY <2>1, <2>4, <3>1, <3>2 DEF Next, At, Token, Second, Third, Literal, Digit,
         More, MatchAgain, HighPart, LowPart, Match, MatchOfAgain, ShortMatch, End,
         SingleBit, Single, CopyByte, Returned, NumberOf
  <2>5. CASE \/ pc = "done" /\ Reader(e, Len(e.items)) /\ Shows(e, Len(e.plain))
             \/ pc = "error" /\ (Len(stream.data) >= Len(e.code)
                                    => Len(e.plain) > stream.limit)
    <3>1. ~ Malformed
      BY <2>5 DEF Malformed, BytePCs, BitPCs
    <3>2. UNCHANGED vars
      BY <2>5, <3>1 DEF Next, At, First, Token, Second, Third, Literal, Digit,
         More, MatchAgain, HighPart, LowPart, Match, MatchOfAgain, ShortMatch, End,
         SingleBit, Single, CopyByte, Raise, Returned, NumberOf
    <3>3. CASE pc = "done"
      BY <2>5, <3>2, <3>3 DEF vars, reader, Decodes, Reader, Shows
    <3>4. CASE pc = "error"
      BY <2>5, <3>2, <3>4 DEF vars, Decodes
    <3> QED
      BY <2>5, <3>3, <3>4
  <2> QED
    BY <1>3, <2>2, <2>3, <2>4, <2>5 DEF Decodes
<1> QED
  BY <1>1, <1>2, <1>4

(* Nothing is left of a stream that has been read to its end, and the      *)
(* result that shows all of the text is the text.                          *)
LEMMA FaithfulUnpacks == Inv /\ Faithful => Unpacks
<1> SUFFICES ASSUME Inv, Faithful, stream.kind # "arbitrary"
             PROVE  /\ pc = "done" =>
                          stream.kind = "genuine" /\ output = stream.said.plain
                    /\ pc = "error" /\ stream.kind = "genuine" =>
                          Len(stream.said.plain) > stream.limit
  BY Zenon DEF Unpacks
<1>1. PICK e : e = stream.said
  OBVIOUS
<1>2. Stream(stream) /\ Decodes(e) /\ output \in Seq(Data)
  BY <1>1 DEF Inv, Faithful
<1>3. /\ Says(e) /\ Len(stream.data) \in Nat /\ Len(e.code) \in Nat
      /\ stream.kind = "genuine" <=> Len(stream.data) >= Len(e.code)
  BY <1>1, <1>2, Agreement
<1>4. ASSUME pc = "done" PROVE stream.kind = "genuine" /\ output = e.plain
  <2>1. Reader(e, Len(e.items)) /\ Shows(e, Len(e.plain))
    BY <1>2, <1>4 DEF Decodes, Reading, Within, InNumber, Copying
  <2>2. e.marks[Len(e.items)].used = Len(e.code)
    BY <1>3 DEF Says, ItemsWritten
  <2>3. Len(e.code) <= Len(stream.data)
    BY <2>1, <2>2 DEF Reader
  <2>4. output = e.plain
    <3>1. e.plain \in Seq(Data)
      BY <1>3 DEF Says, TextSays
    <3>2. Len(output) = Len(e.plain) /\ \A j \in 1 .. Len(e.plain) : output[j] = e.plain[j]
      BY <2>1 DEF Shows
    <3> QED
      BY <1>2, <3>1, <3>2
  <2> QED
    BY <1>3, <2>3, <2>4
<1>5. ASSUME pc = "error", stream.kind = "genuine" PROVE Len(e.plain) > stream.limit
  BY <1>2, <1>3, <1>5 DEF Decodes, Reading, Within, InNumber, Copying
<1> QED
  BY <1>1, <1>4, <1>5

(* A compressed text unpacks to itself whatever its tokens, and is refused *)
(* only for a limit below its size; a stream that is cut off is refused    *)
(* wherever it was cut (aplib_decompress).                                 *)
THEOREM TextsUnpackToThemselves == Spec => []Unpacks
<1>1. Init => Inv /\ Faithful
  BY Initially, InitiallyFaithful
<1>2. (Inv /\ Faithful) /\ [Next]_vars => (Inv /\ Faithful)'
  BY Preserved, FaithfulKept
<1>3. Inv /\ Faithful => Unpacks
  BY FaithfulUnpacks
<1> QED
  BY <1>1, <1>2, <1>3, PTL DEF Spec
=============================================================================
