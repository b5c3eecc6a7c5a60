----------------------------- MODULE CipherProofs ----------------------------
(***************************************************************************)
(* Theorems about the body cipher, for any sizes, blocks, buffers and      *)
(* widths of a word: where a byte of the keystream goes (BodyTransform),   *)
(* and which counters its blocks use (SalsaCounter).                       *)
(*                                                                         *)
(* OutputIsDeciphered speaks of what has been written.  BodyInv adds what  *)
(* decides about the next piece: where the source stands in the stretches  *)
(* of the body, and that the keystream is at the block of that place.  It  *)
(* holds because every stretch but the last is of whole blocks.            *)
(*                                                                         *)
(* CounterInv: the words 8 and 9 hold the counter of the next block.  That *)
(* it is none of those before needs that the call was accepted, so the     *)
(* verdict of each implementation is compared with what fits first.        *)
(***************************************************************************)
EXTENDS BodyTransform, SalsaCounter, TLAPS

-----------------------------------------------------------------------------
(* Arithmetic.                                                             *)

LEMMA Products ==
    ASSUME NEW g \in Nat \ {0}, NEW a \in Int, NEW b \in Int, a > b
    PROVE g * a >= g * b + g
<1>1. PICK d : d = a - b
  OBVIOUS
<1>2. d \in Nat /\ d >= 1 /\ a = b + d
  BY <1>1
<1>3. g * d >= g
  BY <1>2
<1>4. g * a = g * b + g * d
  BY <1>2
<1>5. g * a \in Int /\ g * b \in Int /\ g * d \in Int
  BY <1>2
<1> QED
  BY <1>3, <1>4, <1>5

LEMMA Remainder ==
    ASSUME NEW g \in Nat \ {0}, NEW q \in Int, NEW r \in 0 .. g - 1, NEW n \in Int,
           NEW m \in Int, m = g * q, n = m + r
    PROVE n \div g = q /\ n % g = r
<1>1. PICK u, v : u = n \div g /\ v = n % g
  OBVIOUS
<1>2. u \in Int /\ v \in 0 .. g - 1 /\ n = g * u + v
  BY <1>1
<1>3. g * u \in Int /\ g * q \in Int
  BY <1>2
<1>4. ~ u > q
  <2> SUFFICES ASSUME u > q PROVE FALSE
    OBVIOUS
  <2>1. g * u >= g * q + g
    BY <1>2, Products
  <2> QED
    BY <2>1, <1>2, <1>3
<1>5. ~ q > u
  <2> SUFFICES ASSUME q > u PROVE FALSE
    OBVIOUS
  <2>1. g * q >= g * u + g
    BY <1>2, Products
  <2> QED
    BY <2>1, <1>2, <1>3
<1>6. u = q
  BY <1>4, <1>5, <1>2
<1> QED
  BY <1>6, <1>1, <1>2, <1>3

Aligned(n) == n % Block = 0

LEMMA Multiple ==
    ASSUME NEW g \in Nat \ {0}, NEW n \in Int
    PROVE  n % g = 0 <=> \E q \in Int : n = g * q
<1>1. PICK u, v : u = n \div g /\ v = n % g
  OBVIOUS
<1>2. u \in Int /\ v \in 0 .. g - 1 /\ n = g * u + v
  BY <1>1
<1>3. ASSUME v = 0 PROVE \E q \in Int : n = g * q
  <2>1. g * u \in Int
    BY <1>2
  <2>2. n = g * u
    BY <1>2, <1>3, <2>1
  <2> QED
    BY <1>2, <2>2
<1>4. ASSUME NEW q \in Int, n = g * q PROVE v = 0
  <2>1. PICK m, r : m = g * q /\ r = 0
    OBVIOUS
  <2>2. m \in Int /\ n = m + r /\ r \in 0 .. g - 1
    BY <1>4, <2>1
  <2>3. n % g = r
    BY <2>1, <2>2, Remainder
  <2> QED
    BY <1>1, <2>1, <2>3
<1> QED
  BY <1>1, <1>3, <1>4

LEMMA Alignment ==
    ASSUME NEW a \in Int, NEW b \in Int, Aligned(a), Aligned(b)
    PROVE  Aligned(a + b) /\ Aligned(a - b)
<1>1. Block \in Nat \ {0}
  BY BodyConstants
<1>2. PICK p \in Int, q \in Int : a = Block * p /\ b = Block * q
  BY <1>1, Multiple DEF Aligned
<1>3. PICK s, d : s = p + q /\ d = p - q
  OBVIOUS
<1>4. s \in Int /\ d \in Int /\ a + b = Block * s /\ a - b = Block * d
  BY <1>1, <1>2, <1>3
<1>5. a + b \in Int /\ a - b \in Int
  OBVIOUS
<1> QED
  BY <1>1, <1>4, <1>5, Multiple DEF Aligned

LEMMA AlignedProduct ==
    ASSUME NEW a \in Int, NEW k \in Int, Aligned(a)
    PROVE  Aligned(k * a)
<1>1. Block \in Nat \ {0}
  BY BodyConstants
<1>2. PICK p \in Int : a = Block * p
  BY <1>1, Multiple DEF Aligned
<1>3. PICK s : s = k * p
  OBVIOUS
<1>4. s \in Int /\ k * a = Block * s
  BY <1>1, <1>2, <1>3
<1>5. k * a \in Int
  OBVIOUS
<1> QED
  BY <1>1, <1>4, <1>5, Multiple DEF Aligned

(* The blocks of an aligned length. *)
LEMMA WholeBlocks ==
    ASSUME NEW n \in Nat
    PROVE  /\ Blocks(n) \in Nat
           /\ Aligned(n) => Blocks(n) * Block = n
<1>1. Block \in Nat \ {0}
  BY BodyConstants
<1>2. Blocks(n) \in Nat
  BY <1>1 DEF Blocks
<1>3. ASSUME Aligned(n) PROVE Blocks(n) * Block = n
  <2>1. PICK q \in Int : n = Block * q
    BY <1>1, <1>3, Multiple DEF Aligned
  <2>2. PICK m, r, t : m = Block * q /\ r = Block - 1 /\ t = n + Block - 1
    OBVIOUS
  <2>3. m \in Int /\ r \in 0 .. Block - 1 /\ t \in Int /\ t = m + r
    BY <1>1, <2>1, <2>2
  <2>4. t \div Block = q
    BY <1>1, <2>2, <2>3, Remainder
  <2> QED
    BY <1>1, <2>1, <2>2, <2>4 DEF Blocks
<1> QED
  BY <1>2, <1>3

-----------------------------------------------------------------------------
(* The inductive invariant.                                                *)

Period == skipped + NextSpan

Arguments ==
    /\ size \in Nat /\ skipped \in Nat \ {0} /\ before \in Nat /\ after \in Nat
    /\ available \in Nat /\ available <= size

(* The source is at p of the first stretch, s bytes before its end, and    *)
(* the keystream at block k.                                               *)
InFirst(p, s, k) ==
    /\ p + s = Least(FirstSpan, size)
    /\ p < size => k * Block = p

(* It is in the stretch that a turn skips, whose start is b. *)
InGap(turn, b, p, s, k) ==
    /\ b = FirstSpan + turn * Period /\ b <= p
    /\ p + s = Least(b + skipped, size)
    /\ p < size => k * Block = FirstSpan + turn * NextSpan

(* It is in the one that the turn enciphers, from b on. *)
InTurn(turn, b, p, s, k) ==
    /\ b = FirstSpan + turn * Period + skipped /\ b <= p
    /\ p + s = Least(b + NextSpan, size)
    /\ p < size => k * Block = FirstSpan + turn * NextSpan + (p - b)

InEncrypted(p, s, k) ==
    \/ InFirst(p, s, k)
    \/ \E turn \in Nat, b \in Nat : InTurn(turn, b, p, s, k)

InSkip(p, s, k) ==
    \/ p = size /\ s = 0
    \/ \E turn \in Nat, b \in Nat : InGap(turn, b, p, s, k)

(* The places of source and keystream in an enciphered and in a skipped    *)
(* stretch, and the result.                                                *)
Enciphering == {x \in Nat \X Nat \X Nat : InEncrypted(x[1], x[2], x[3])}
Skipping == {x \in Nat \X Nat \X Nat : InSkip(x[1], x[2], x[3])}
Target == [p \in 0 .. size |-> Deciphered(p)]

Left == stretch - Len(piece)

Placed ==
    /\ pc \in {"encrypted", "skip", "done", "failed"}
    /\ at \in Nat /\ at <= size /\ blockOffset \in Nat
    /\ stretch \in Nat /\ Left \in Nat
    /\ pc = "encrypted" => <<at, Left, blockOffset>> \in Enciphering
    /\ pc = "skip" => <<at, Left, blockOffset>> \in Skipping

Bytes == Seq(Int \X Int)

Right(target, bytes, from) == \A i \in 1 .. Len(bytes) : bytes[i] = target[from + i - 1]

(* What was read is written, or in hand, and right. *)
Carried ==
    /\ output \in Bytes /\ digest \in Bytes /\ piece \in Bytes
    /\ at = Len(digest) + Len(piece)
    /\ remaining = size - Len(digest)
    /\ written \in 0 .. Len(piece)
    /\ Len(output) = Len(digest) + written
    /\ Right(Target, output, 0) /\ Right(Target, digest, 0)
    /\ Right(Target, piece, Len(digest))
    /\ pc = "done" => piece = <<>> /\ remaining = 0

BodyInv == Arguments /\ Placed /\ Carried

LEMMA Constants ==
    /\ Block \in Nat \ {0} /\ Chunk \in Nat \ {0} /\ IoBuffer \in Nat \ {0} /\ Counter \in Nat
    /\ Aligned(Chunk) /\ Aligned(IoBuffer)
BY BodyConstants DEF Aligned

LEMMA SpanFacts ==
    ASSUME Arguments
    PROVE  /\ FirstSpan \in Nat \ {0} /\ NextSpan \in Nat \ {0} /\ Period \in Nat \ {0}
           /\ Aligned(FirstSpan) /\ Aligned(NextSpan)
           /\ Period = skipped + NextSpan
<1>1. before + 1 \in Nat \ {0} /\ after + 1 \in Nat \ {0} /\ skipped \in Nat
  BY DEF Arguments
<1>2. PICK x, y : x = before + 1 /\ y = after + 1
  OBVIOUS
<1>3. x \in Nat \ {0} /\ y \in Nat \ {0} /\ Chunk \in Nat \ {0}
  BY <1>1, <1>2, Constants
<1>4. x * Chunk \in Nat \ {0} /\ y * Chunk \in Nat \ {0}
  <2>1. x * Chunk >= Chunk /\ y * Chunk >= Chunk
    BY <1>3
  <2> QED
    BY <1>3, <2>1
<1>5. Aligned(x * Chunk) /\ Aligned(y * Chunk)
  <2>1. x \in Int /\ y \in Int /\ Chunk \in Int /\ Aligned(Chunk)
    BY <1>3, Constants
  <2> QED
    BY <2>1, AlignedProduct
<1>6. FirstSpan = x * Chunk /\ NextSpan = y * Chunk
  BY <1>2 DEF FirstSpan, NextSpan
<1> QED
  BY <1>1, <1>4, <1>5, <1>6 DEF Period

LEMMA FirstKey ==
    ASSUME NEW p, p < FirstSpan
    PROVE  Deciphered(p) = <<p, p>>
BY DEF Deciphered

(* The keystream byte of the offset o of a turn. *)
LEMMA TurnKey ==
    ASSUME Arguments, NEW turn \in Nat, NEW o \in 0 .. Period - 1,
           NEW p \in Int, p = FirstSpan + turn * Period + o
    PROVE  Deciphered(p) = <<p, IF o < skipped THEN Plain
                                ELSE FirstSpan + turn * NextSpan + o - skipped>>
<1>1. PICK g, m, n : g = Period /\ m = g * turn /\ n = p - FirstSpan
  OBVIOUS
<1>2. g \in Nat \ {0} /\ FirstSpan \in Nat /\ o \in 0 .. g - 1
  BY <1>1, SpanFacts
<1>3. m \in Nat /\ n \in Int /\ turn * Period = m
  BY <1>1, <1>2
<1>4. n = m + o /\ ~ p < FirstSpan
  BY <1>1, <1>2, <1>3
<1>5. n \div g = turn /\ n % g = o
  BY <1>1, <1>2, <1>3, <1>4, Remainder
<1>6. Deciphered(p) = LET period == skipped + NextSpan
                          t == (p - FirstSpan) \div period
                          rest == (p - FirstSpan) % period
                      IN <<p, IF rest < skipped THEN Plain
                              ELSE FirstSpan + t * NextSpan + rest - skipped>>
  BY <1>4 DEF Deciphered
<1>7. /\ (p - FirstSpan) \div (skipped + NextSpan) = turn
      /\ (p - FirstSpan) % (skipped + NextSpan) = o
  BY <1>1, <1>5 DEF Period
<1> QED
  BY <1>6, <1>7

-----------------------------------------------------------------------------
(* Reading.                                                                *)

LEMMA PieceFacts ==
    ASSUME NEW s \in Nat, s > 0, NEW n, n = Least(IoBuffer, s)
    PROVE  /\ n \in Nat /\ n > 0 /\ n <= s
           /\ n < s => n = IoBuffer
           /\ n = IoBuffer \/ n = s
BY Constants DEF Least

(* The keystream goes on at the block after a piece that is not the last. *)
LEMMA KeystreamOn ==
    ASSUME NEW k \in Nat, NEW n \in Nat, Aligned(n)
    PROVE  (k + Blocks(n)) * Block = k * Block + n
<1>1. PICK c : c = Blocks(n)
  OBVIOUS
<1>2. c \in Nat /\ c * Block = n /\ Block \in Nat
  BY <1>1, WholeBlocks, Constants
<1>3. (k + c) * Block = k * Block + c * Block
  BY <1>2
<1> QED
  BY <1>1, <1>2, <1>3

LEMMA ReadFirst ==
    ASSUME Arguments, NEW p \in Nat, NEW s \in Nat, s > 0, NEW k \in Nat, InFirst(p, s, k),
           NEW n, n = Least(IoBuffer, s)
    PROVE  /\ \A i \in 1 .. n : Deciphered(p + i - 1) = <<p + i - 1, k * Block + i - 1>>
           /\ InFirst(p + n, s - n, k + Blocks(n))
<1>1. n \in Nat /\ n > 0 /\ n <= s /\ (n = IoBuffer \/ n = s)
  BY PieceFacts
<1>2. FirstSpan \in Nat /\ size \in Nat /\ Aligned(FirstSpan)
  BY SpanFacts DEF Arguments
<1>3. p + s <= FirstSpan /\ p + s <= size /\ p + s \in {FirstSpan, size}
  BY <1>2 DEF InFirst, Least
<1>4. p < size /\ k * Block = p
  BY <1>1, <1>2, <1>3 DEF InFirst
<1>5. ASSUME NEW i \in 1 .. n
      PROVE  Deciphered(p + i - 1) = <<p + i - 1, k * Block + i - 1>>
  <2>1. p + i - 1 < FirstSpan
    BY <1>1, <1>2, <1>3
  <2> QED
    BY <2>1, <1>4, FirstKey
<1>6. ASSUME p + n < size
      PROVE  (k + Blocks(n)) * Block = p + n
  <2>1. Aligned(n)
    <3>1. CASE n = IoBuffer
      BY <3>1, Constants
    <3>2. CASE n = s
      <4>1. n = FirstSpan - p
        BY <3>2, <1>1, <1>2, <1>3, <1>6
      <4>2. Aligned(p)
        <5>1. Block \in Int /\ Aligned(Block)
          BY Constants DEF Aligned
        <5>2. Aligned(k * Block)
          BY <5>1, AlignedProduct
        <5> QED
          BY <5>2, <1>4
      <4>3. FirstSpan \in Int /\ p \in Int
        BY <1>2
      <4>4. Aligned(FirstSpan - p)
        BY <4>2, <4>3, <1>2, Alignment
      <4> QED
        BY <4>1, <4>4
    <3> QED
      BY <1>1, <3>1, <3>2
  <2> QED
    BY <1>1, <1>4, <2>1, KeystreamOn
<1>7. (p + n) + (s - n) = p + s
  BY <1>1
<1> QED
  BY <1>5, <1>6, <1>7 DEF InFirst

LEMMA ReadTurn ==
    ASSUME Arguments, NEW p \in Nat, NEW s \in Nat, s > 0, NEW k \in Nat,
           NEW turn \in Nat, NEW b \in Nat, InTurn(turn, b, p, s, k),
           NEW n, n = Least(IoBuffer, s)
    PROVE  /\ \A i \in 1 .. n : Deciphered(p + i - 1) = <<p + i - 1, k * Block + i - 1>>
           /\ InTurn(turn, b, p + n, s - n, k + Blocks(n))
<1>1. n \in Nat /\ n > 0 /\ n <= s /\ (n = IoBuffer \/ n = s)
  BY PieceFacts
<1>2. /\ FirstSpan \in Nat /\ NextSpan \in Nat /\ Period \in Nat /\ size \in Nat /\ skipped \in Nat
      /\ Aligned(FirstSpan) /\ Aligned(NextSpan) /\ Period = skipped + NextSpan
  BY SpanFacts DEF Arguments
<1>3. PICK m, t : m = turn * Period /\ t = turn * NextSpan
  OBVIOUS
<1>4. m \in Nat /\ t \in Nat /\ Aligned(t)
  <2>1. NextSpan \in Int /\ turn \in Int
    BY <1>2
  <2> QED
    BY <1>2, <1>3, <2>1, AlignedProduct
<1>5. b = FirstSpan + m + skipped /\ b <= p
  BY <1>3 DEF InTurn
<1>6. p + s <= b + NextSpan /\ p + s <= size /\ p + s \in {b + NextSpan, size}
  BY <1>2, <1>5 DEF InTurn, Least
<1>7. p < size /\ k * Block = FirstSpan + t + (p - b)
  BY <1>1, <1>2, <1>3, <1>6 DEF InTurn
<1>8. ASSUME NEW i \in 1 .. n
      PROVE  Deciphered(p + i - 1) = <<p + i - 1, k * Block + i - 1>>
  <2>1. PICK o, q : q = p + i - 1 /\ o = p + i - 1 - FirstSpan - m
    OBVIOUS
  <2>2. o \in 0 .. Period - 1 /\ ~ o < skipped /\ q \in Int /\ q = FirstSpan + m + o
    BY <1>1, <1>2, <1>4, <1>5, <1>6, <2>1
  <2>3. Deciphered(q) = <<q, FirstSpan + t + o - skipped>>
    BY <2>2, <1>3, TurnKey
  <2>4. FirstSpan + t + o - skipped = k * Block + i - 1
    <3>1. PICK x : x = k * Block
      OBVIOUS
    <3>2. x = FirstSpan + t + (p - b)
      BY <3>1, <1>7
    <3> QED
      BY <3>1, <3>2, <1>2, <1>4, <1>5, <2>1, <2>2
  <2> QED
    BY <2>1, <2>3, <2>4
<1>0. PICK q, r, c : q = p + n /\ r = s - n /\ c = k + Blocks(n)
  OBVIOUS
<1>9. ASSUME q < size
      PROVE  c * Block = FirstSpan + t + (q - b)
  <2>1. Aligned(n)
    <3>1. CASE n = IoBuffer
      BY <3>1, Constants
    <3>2. CASE n = s
      <4>1. PICK x : x = k * Block
        OBVIOUS
      <4>2. x \in Int /\ x = FirstSpan + t + (p - b) /\ Aligned(x)
        <5>1. Block \in Int /\ Aligned(Block) /\ k \in Int
          BY Constants DEF Aligned
        <5> QED
          BY <5>1, <4>1, <1>2, <1>4, <1>7, AlignedProduct
      <4>3. PICK y : y = FirstSpan + t
        OBVIOUS
      <4>4. y \in Int /\ Aligned(y)
        BY <4>3, <1>2, <1>4, Alignment
      <4>5. PICK z : z = x - y
        OBVIOUS
      <4>6. z \in Int /\ Aligned(z) /\ NextSpan \in Int
        <5>1. Aligned(x - y)
          BY <4>2, <4>4, Alignment
        <5> QED
          BY <5>1, <4>2, <4>4, <4>5, <1>2
      <4>7. Aligned(NextSpan - z)
        BY <4>6, <1>2, Alignment
      <4>8. n = NextSpan - z
        BY <3>2, <1>1, <1>0, <1>2, <1>4, <1>6, <1>9, <4>2, <4>3, <4>5
      <4> QED
        BY <4>7, <4>8
    <3> QED
      BY <1>1, <3>1, <3>2
  <2>2. c * Block = k * Block + n
    BY <1>0, <1>1, <2>1, KeystreamOn
  <2>3. k * Block + n = FirstSpan + t + (p - b) + n
    BY <1>7
  <2>4. FirstSpan + t + (p - b) + n = FirstSpan + t + (q - b)
    BY <1>0, <1>1, <1>2, <1>4
  <2> QED
    BY <2>2, <2>3, <2>4
<1>10. q + r = p + s /\ b <= q
  BY <1>0, <1>1, <1>5
<1>11. InTurn(turn, b, q, r, c)
  <2>1. b = FirstSpan + turn * Period + skipped /\ p + s = Least(b + NextSpan, size)
    BY DEF InTurn
  <2>2. q < size => c * Block = FirstSpan + turn * NextSpan + (q - b)
    BY <1>3, <1>9
  <2> QED
    BY <1>10, <2>1, <2>2, Zenon DEF InTurn
<1> QED
  BY <1>0, <1>8, <1>11

LEMMA ReadGap ==
    ASSUME Arguments, NEW p \in Nat, NEW s \in Nat, s > 0, NEW k \in Nat,
           NEW turn \in Nat, NEW b \in Nat, InGap(turn, b, p, s, k),
           NEW n, n = Least(IoBuffer, s)
    PROVE  /\ \A i \in 1 .. n : Deciphered(p + i - 1) = <<p + i - 1, Plain>>
           /\ InGap(turn, b, p + n, s - n, k)
<1>1. n \in Nat /\ n > 0 /\ n <= s /\ (n = IoBuffer \/ n = s)
  BY PieceFacts
<1>2. /\ FirstSpan \in Nat /\ NextSpan \in Nat /\ Period \in Nat /\ size \in Nat /\ skipped \in Nat
      /\ Period = skipped + NextSpan
  BY SpanFacts DEF Arguments
<1>3. PICK m : m = turn * Period
  OBVIOUS
<1>4. m \in Nat
  BY <1>2, <1>3
<1>5. b = FirstSpan + m /\ b <= p
  BY <1>3 DEF InGap
<1>6. p + s <= b + skipped /\ p + s <= size
  BY <1>2, <1>5 DEF InGap, Least
<1>7. p < size /\ k * Block = FirstSpan + turn * NextSpan
  BY <1>1, <1>2, <1>6 DEF InGap
<1>8. ASSUME NEW i \in 1 .. n
      PROVE  Deciphered(p + i - 1) = <<p + i - 1, Plain>>
  <2>1. PICK o, q : q = p + i - 1 /\ o = p + i - 1 - FirstSpan - m
    OBVIOUS
  <2>2. o \in 0 .. Period - 1 /\ o < skipped /\ q \in Int /\ q = FirstSpan + m + o
    BY <1>1, <1>2, <1>4, <1>5, <1>6, <2>1
  <2>3. Deciphered(q) = <<q, Plain>>
    BY <2>2, <1>3, TurnKey
  <2> QED
    BY <2>1, <2>3
<1>9. (p + n) + (s - n) = p + s /\ b <= p + n
  BY <1>1, <1>5
<1>10. InGap(turn, b, p + n, s - n, k)
  BY <1>7, <1>9 DEF InGap
<1> QED
  BY <1>8, <1>10

-----------------------------------------------------------------------------
(* From one stretch to the next.                                           *)

LEMMA GapNext ==
    ASSUME Arguments, NEW p \in Nat, NEW k \in Nat, InEncrypted(p, 0, k)
    PROVE  InSkip(p, Least(skipped, size - p), k)
<1>1. /\ FirstSpan \in Nat /\ NextSpan \in Nat /\ Period \in Nat /\ size \in Nat /\ skipped \in Nat
      /\ Period = skipped + NextSpan
  BY SpanFacts DEF Arguments
<1>2. PICK s : s = Least(skipped, size - p)
  OBVIOUS
<1>3. ASSUME p = size PROVE InSkip(p, s, k)
  BY <1>1, <1>2, <1>3 DEF Least, InSkip
<1>4. ASSUME p < size PROVE p + s = Least(p + skipped, size)
  BY <1>1, <1>2, <1>4 DEF Least
<1>5. CASE InFirst(p, 0, k)
  <2>1. p = Least(FirstSpan, size) /\ (p < size => k * Block = p)
    BY <1>5 DEF InFirst
  <2>2. ASSUME p < size PROVE InGap(0, p, p, s, k)
    <3>1. p = FirstSpan /\ k * Block = FirstSpan
      BY <2>1, <2>2, <1>1 DEF Least
    <3>2. 0 * Period = 0 /\ 0 * NextSpan = 0
      BY <1>1
    <3>3. p = FirstSpan + 0 * Period /\ p <= p /\ k * Block = FirstSpan + 0 * NextSpan
      BY <3>1, <3>2, <1>1
    <3> QED
      BY <3>3, <1>4, <2>2 DEF InGap
  <2>3. p <= size
    BY <2>1, <1>1 DEF Least
  <2>4. p = size \/ p < size
    BY <2>3, <1>1
  <2> QED
    BY <1>2, <1>3, <2>2, <2>4 DEF InSkip
<1>6. ASSUME NEW turn \in Nat, NEW b \in Nat, InTurn(turn, b, p, 0, k)
      PROVE  InSkip(p, s, k)
  <2>1. /\ b = FirstSpan + turn * Period + skipped /\ b <= p /\ p = Least(b + NextSpan, size)
        /\ p < size => k * Block = FirstSpan + turn * NextSpan + (p - b)
    BY <1>6 DEF InTurn
  <2>2. ASSUME p < size PROVE InGap(turn + 1, p, p, s, k)
    <3>1. p = b + NextSpan
      BY <2>1, <2>2, <1>1 DEF Least
    <3>2. PICK u, m, t, x, y : /\ u = turn + 1 /\ m = turn * Period /\ t = turn * NextSpan
                               /\ x = u * Period /\ y = u * NextSpan
      OBVIOUS
    <3>3. u \in Nat /\ m \in Nat /\ t \in Nat /\ x = m + Period /\ y = t + NextSpan
      BY <1>1, <3>2
    <3>4. p = FirstSpan + x
      BY <1>1, <2>1, <3>1, <3>2, <3>3
    <3>5. k * Block = FirstSpan + y
      <4>1. k * Block = FirstSpan + t + (p - b)
        BY <2>1, <2>2, <3>2
      <4>2. FirstSpan + t + (p - b) = FirstSpan + y
        BY <1>1, <3>1, <3>3
      <4> QED
        BY <4>1, <4>2
    <3>6. InGap(u, p, p, s, k)
      BY <3>2, <3>4, <3>5, <1>4, <2>2 DEF InGap
    <3> QED
      BY <3>2, <3>6
  <2>3. p <= size
    BY <2>1, <1>1 DEF Least
  <2>4. (p = size \/ p < size) /\ turn + 1 \in Nat
    BY <2>3, <1>1
  <2> QED
    BY <1>3, <2>2, <2>4 DEF InSkip
<1> QED
  BY <1>2, <1>5, <1>6 DEF InEncrypted

LEMMA TurnNext ==
    ASSUME Arguments, NEW p \in Nat, NEW k \in Nat, InSkip(p, 0, k), p < size
    PROVE  InEncrypted(p, Least(NextSpan, size - p), k)
<1>1. /\ FirstSpan \in Nat /\ NextSpan \in Nat /\ Period \in Nat /\ size \in Nat /\ skipped \in Nat
      /\ Period = skipped + NextSpan
  BY SpanFacts DEF Arguments
<1>2. PICK s : s = Least(NextSpan, size - p)
  OBVIOUS
<1>3. PICK turn \in Nat, b \in Nat : InGap(turn, b, p, 0, k)
  BY <1>1 DEF InSkip
<1>4. /\ b = FirstSpan + turn * Period /\ b <= p /\ p = Least(b + skipped, size)
      /\ k * Block = FirstSpan + turn * NextSpan
  BY <1>3 DEF InGap
<1>5. p = b + skipped
  BY <1>1, <1>4 DEF Least
<1>6. p + s = Least(p + NextSpan, size)
  BY <1>1, <1>2 DEF Least
<1>7. PICK t : t = turn * NextSpan
  OBVIOUS
<1>8. p = FirstSpan + turn * Period + skipped
  BY <1>4, <1>5
<1>9. k * Block = FirstSpan + t + (p - p)
  <2>1. t \in Nat
    BY <1>1, <1>7
  <2>2. FirstSpan + t = FirstSpan + t + (p - p)
    BY <1>1, <2>1
  <2> QED
    BY <1>4, <1>7, <2>2
<1>10. InTurn(turn, p, p, s, k)
  BY <1>6, <1>7, <1>8, <1>9 DEF InTurn
<1> QED
  BY <1>2, <1>10 DEF InEncrypted

LEMMA StartFirst ==
    ASSUME Arguments
    PROVE  InEncrypted(0, Least(FirstSpan, size), 0)
<1>1. FirstSpan \in Nat /\ size \in Nat /\ Block \in Nat
  BY SpanFacts, Constants DEF Arguments
<1>2. 0 + Least(FirstSpan, size) = Least(FirstSpan, size) /\ 0 * Block = 0
  BY <1>1 DEF Least
<1> QED
  BY <1>2 DEF InFirst, InEncrypted

-----------------------------------------------------------------------------
(* The steps.                                                              *)

(* The arguments never change, so what is said of them does not either. *)
LEMMA Same ==
    ASSUME UNCHANGED arguments
    PROVE  /\ Arguments' <=> Arguments
           /\ Enciphering' = Enciphering /\ Skipping' = Skipping /\ Target' = Target
<1>1. Arguments' <=> Arguments
  BY DEF arguments, Arguments
<1>2. FirstSpan' = FirstSpan /\ NextSpan' = NextSpan /\ Period' = Period /\ size' = size
  BY DEF arguments, FirstSpan, NextSpan, Period
<1>3. Enciphering' = Enciphering
  BY DEF arguments, Enciphering, InEncrypted, InFirst, InTurn, FirstSpan, NextSpan, Period
<1>4. Skipping' = Skipping
  BY DEF arguments, Skipping, InSkip, InGap, FirstSpan, NextSpan, Period
<1>5. Target' = Target
  BY DEF arguments, Target, Deciphered, FirstSpan, NextSpan
<1> QED
  BY <1>1, <1>3, <1>4, <1>5

LEMMA Joined ==
    ASSUME NEW s \in Bytes, NEW t \in Bytes, NEW a \in Nat, NEW target,
           Right(target, s, a), Right(target, t, a + Len(s))
    PROVE  /\ s \o t \in Bytes /\ Len(s \o t) = Len(s) + Len(t)
           /\ Right(target, s \o t, a)
<1>1. s \o t \in Bytes /\ Len(s) \in Nat /\ Len(t) \in Nat /\ Len(s \o t) = Len(s) + Len(t)
  BY DEF Bytes
<1>2. ASSUME NEW i \in 1 .. Len(s) + Len(t)
      PROVE  (s \o t)[i] = target[a + i - 1]
  <2>1. (s \o t)[i] = IF i <= Len(s) THEN s[i] ELSE t[i - Len(s)]
    BY <1>1 DEF Bytes
  <2>2. CASE i <= Len(s)
    BY <1>1, <2>1, <2>2 DEF Right
  <2>3. CASE ~ i <= Len(s)
    <3>1. PICK j : j = i - Len(s)
      OBVIOUS
    <3>2. j \in 1 .. Len(t) /\ (a + Len(s)) + j - 1 = a + i - 1
      BY <1>1, <2>3, <3>1
    <3>3. t[j] = target[(a + Len(s)) + j - 1]
      BY <3>2 DEF Right
    <3> QED
      BY <2>1, <2>3, <3>1, <3>2, <3>3
  <2> QED
    BY <2>2, <2>3
<1> QED
  BY <1>1, <1>2 DEF Right

(* What is left of a sequence behind its first m bytes, and its first n. *)
LEMMA RestOf ==
    ASSUME NEW s \in Bytes, NEW a \in Nat, NEW target, Right(target, s, a),
           NEW m \in 0 .. Len(s)
    PROVE  /\ SubSeq(s, m + 1, Len(s)) \in Bytes
           /\ Len(SubSeq(s, m + 1, Len(s))) = Len(s) - m
           /\ Right(target, SubSeq(s, m + 1, Len(s)), a + m)
<1>1. Len(s) \in Nat
  BY DEF Bytes
<1>2. PICK r : r = SubSeq(s, m + 1, Len(s))
  OBVIOUS
<1>3. r \in Bytes /\ Len(r) = Len(s) - m
  <2>1. PICK S : S = Int \X Int
    OBVIOUS
  <2>2. s \in Seq(S) /\ Bytes = Seq(S)
    BY <2>1, Zenon DEF Bytes
  <2>3. r \in Seq(S) /\ Len(r) = Len(s) - m
    BY <1>1, <1>2, <2>2
  <2> QED
    BY <2>2, <2>3, Zenon
<1>4. ASSUME NEW i \in 1 .. Len(s) - m
      PROVE  r[i] = target[a + m + i - 1]
  <2>1. PICK j : j = m + i
    OBVIOUS
  <2>2. j \in 1 .. Len(s) /\ a + j - 1 = a + m + i - 1 /\ r[i] = s[j]
    BY <1>1, <1>2, <2>1 DEF Bytes
  <2> QED
    BY <2>2 DEF Right
<1> QED
  BY <1>2, <1>3, <1>4 DEF Right

LEMMA StartOf ==
    ASSUME NEW s \in Bytes, NEW a \in Nat, NEW target, Right(target, s, a),
           NEW n \in 0 .. Len(s)
    PROVE  /\ SubSeq(s, 1, n) \in Bytes /\ Len(SubSeq(s, 1, n)) = n
           /\ Right(target, SubSeq(s, 1, n), a)
<1>1. Len(s) \in Nat
  BY DEF Bytes
<1>2. PICK r : r = SubSeq(s, 1, n)
  OBVIOUS
<1>3. r \in Bytes /\ Len(r) = n /\ \A i \in 1 .. n : r[i] = s[i]
  BY <1>1, <1>2 DEF Bytes
<1> QED
  BY <1>1, <1>2, <1>3 DEF Right

(* A piece read from the source. *)
LEMMA PieceRead ==
    ASSUME Arguments, NEW n \in Nat, NEW p \in Nat, p + n <= size,
           NEW r \in [1 .. n -> Int \X Int],
           \A i \in 1 .. n : r[i] = Deciphered(p + i - 1)
    PROVE  r \in Bytes /\ Len(r) = n /\ Right(Target, r, p)
<1>2. r \in Bytes /\ Len(r) = n
  BY DEF Bytes
<1>3. ASSUME NEW i \in 1 .. n
      PROVE  r[i] = Target[p + i - 1]
  <2>1. PICK j : j = p + i - 1
    OBVIOUS
  <2>2. j \in 0 .. size /\ r[i] = Deciphered(j)
    BY <2>1 DEF Arguments
  <2> QED
    BY <2>1, <2>2 DEF Target
<1> QED
  BY <1>2, <1>3 DEF Right

LEMMA EncryptedStep == ASSUME BodyInv, Encrypted PROVE BodyInv'
<1>1. /\ Arguments /\ Placed /\ Carried /\ UNCHANGED arguments
      /\ pc = "encrypted" /\ piece = <<>> /\ stretch > 0
  BY DEF BodyInv, Encrypted, Idle
<1>2. PICK n, p, s, k : n = Least(IoBuffer, stretch) /\ p = at /\ s = stretch /\ k = blockOffset
  OBVIOUS
<1>3. Len(piece) = 0 /\ Left = s /\ s \in Nat /\ s > 0 /\ p \in Nat /\ k \in Nat
  BY <1>1, <1>2 DEF Placed, Left
<1>4. InEncrypted(p, s, k)
  BY <1>1, <1>2, <1>3 DEF Placed, Enciphering
<1>5. n \in Nat /\ n > 0 /\ n <= s
  BY <1>2, <1>3, PieceFacts
<1>6. /\ \A i \in 1 .. n : Deciphered(p + i - 1) = <<p + i - 1, k * Block + i - 1>>
      /\ InEncrypted(p + n, s - n, k + Blocks(n))
  <2>1. CASE InFirst(p, s, k)
    BY <1>1, <1>2, <1>3, <2>1, ReadFirst DEF InEncrypted
  <2>2. ASSUME NEW turn \in Nat, NEW b \in Nat, InTurn(turn, b, p, s, k)
        PROVE  /\ \A i \in 1 .. n : Deciphered(p + i - 1) = <<p + i - 1, k * Block + i - 1>>
               /\ InEncrypted(p + n, s - n, k + Blocks(n))
    BY <1>1, <1>2, <1>3, <2>2, ReadTurn DEF InEncrypted
  <2> QED
    BY <1>4, <2>1, <2>2 DEF InEncrypted
<1>7. /\ p + n <= available /\ piece' = Keyed(p, n, k) /\ at' = p + n
      /\ blockOffset' = k + Blocks(n)
      /\ UNCHANGED <<pc, remaining, stretch, chunks, written, output, digest>>
  BY <1>2 DEF Encrypted
<1>8. PICK r : r = piece'
  OBVIOUS
<1>9. r \in Bytes /\ Len(r) = n /\ Right(Target, r, p)
  <2>1. PICK q : q = k * Block
    OBVIOUS
  <2>2. q \in Int /\ p + n <= size
    BY <1>1, <1>3, <1>5, <1>7, <2>1, Constants DEF Arguments
  <2>3. r = [i \in 1 .. n |-> <<p + i - 1, q + i - 1>>]
    BY <1>7, <1>8, <2>1 DEF Keyed
  <2>4. r \in [1 .. n -> Int \X Int]
    BY <1>3, <1>5, <2>2, <2>3
  <2>5. \A i \in 1 .. n : r[i] = Deciphered(p + i - 1)
    BY <1>6, <2>1, <2>3
  <2> QED
    BY <1>1, <1>3, <1>5, <2>2, <2>4, <2>5, PieceRead
<1>10. Placed'
  <2>1. p + n \in Nat /\ p + n <= size /\ s - n \in Nat /\ k + Blocks(n) \in Nat
    <3>1. Blocks(n) \in Nat
      BY <1>5, WholeBlocks
    <3> QED
      BY <1>1, <1>3, <1>5, <1>7, <3>1 DEF Arguments
  <2>2. PICK x, y, z : x = p + n /\ y = s - n /\ z = k + Blocks(n)
    OBVIOUS
  <2>3. <<x, y, z>> \in Enciphering
    BY <1>6, <2>1, <2>2 DEF Enciphering
  <2>4. at' = x /\ Left' = y /\ blockOffset' = z /\ size' = size
    BY <1>1, <1>2, <1>7, <1>8, <1>9, <2>2 DEF Left, arguments
  <2> QED
    BY <1>1, <1>7, <2>1, <2>2, <2>3, <2>4, Same DEF Placed
<1>11. Carried'
  <2>1. Len(digest) \in Nat /\ p = Len(digest) /\ written = 0 /\ size' = size
    BY <1>1, <1>2, <1>3 DEF Carried, Bytes, arguments
  <2>2. written' \in 0 .. Len(r) /\ at' = Len(digest) + Len(r)
    BY <1>5, <1>7, <1>9, <2>1
  <2> QED
    BY <1>1, <1>7, <1>8, <1>9, <2>1, <2>2, Same DEF Carried
<1> QED
  BY <1>1, <1>10, <1>11, Same DEF BodyInv

LEMMA SkipStep == ASSUME BodyInv, Skip PROVE BodyInv'
<1>1. /\ Arguments /\ Placed /\ Carried /\ UNCHANGED arguments
      /\ pc = "skip" /\ piece = <<>> /\ stretch > 0
  BY DEF BodyInv, Skip, Idle
<1>2. PICK n, p, s, k : n = Least(IoBuffer, stretch) /\ p = at /\ s = stretch /\ k = blockOffset
  OBVIOUS
<1>3. Len(piece) = 0 /\ Left = s /\ s \in Nat /\ s > 0 /\ p \in Nat /\ k \in Nat
  BY <1>1, <1>2 DEF Placed, Left
<1>4. InSkip(p, s, k)
  BY <1>1, <1>2, <1>3 DEF Placed, Skipping
<1>5. n \in Nat /\ n > 0 /\ n <= s
  BY <1>2, <1>3, PieceFacts
<1>6. /\ \A i \in 1 .. n : Deciphered(p + i - 1) = <<p + i - 1, Plain>>
      /\ InSkip(p + n, s - n, k)
  <2>1. PICK turn \in Nat, b \in Nat : InGap(turn, b, p, s, k)
    BY <1>3, <1>4 DEF InSkip
  <2> QED
    BY <1>1, <1>2, <1>3, <2>1, ReadGap DEF InSkip
<1>7. /\ p + n <= available /\ piece' = Copied(p, n) /\ at' = p + n
      /\ UNCHANGED <<pc, remaining, stretch, chunks, blockOffset, written, output, digest>>
  BY <1>2 DEF Skip
<1>8. PICK r : r = piece'
  OBVIOUS
<1>9. r \in Bytes /\ Len(r) = n /\ Right(Target, r, p)
  <2>1. p + n <= size
    BY <1>1, <1>3, <1>5, <1>7 DEF Arguments
  <2>2. r = [i \in 1 .. n |-> <<p + i - 1, Plain>>]
    BY <1>7, <1>8 DEF Copied
  <2>3. r \in [1 .. n -> Int \X Int]
    BY <1>3, <1>5, <2>2 DEF Plain
  <2>4. \A i \in 1 .. n : r[i] = Deciphered(p + i - 1)
    BY <1>6, <2>2
  <2> QED
    BY <1>1, <1>3, <1>5, <2>1, <2>3, <2>4, PieceRead
<1>10. Placed'
  <2>1. p + n \in Nat /\ p + n <= size /\ s - n \in Nat
    BY <1>1, <1>3, <1>5, <1>7 DEF Arguments
  <2>2. PICK x, y : x = p + n /\ y = s - n
    OBVIOUS
  <2>3. <<x, y, k>> \in Skipping
    BY <1>3, <1>6, <2>1, <2>2 DEF Skipping
  <2>4. at' = x /\ Left' = y /\ blockOffset' = k /\ size' = size
    BY <1>1, <1>2, <1>7, <1>8, <1>9, <2>2 DEF Left, arguments
  <2> QED
    BY <1>1, <1>3, <1>7, <2>1, <2>2, <2>3, <2>4, Same DEF Placed
<1>11. Carried'
  <2>1. Len(digest) \in Nat /\ p = Len(digest) /\ written = 0 /\ size' = size
    BY <1>1, <1>2, <1>3 DEF Carried, Bytes, arguments
  <2>2. written' \in 0 .. Len(r) /\ at' = Len(digest) + Len(r)
    BY <1>5, <1>7, <1>9, <2>1
  <2> QED
    BY <1>1, <1>7, <1>8, <1>9, <2>1, <2>2, Same DEF Carried
<1> QED
  BY <1>1, <1>10, <1>11, Same DEF BodyInv

(* The piece in hand, or a part of it, goes to the target. *)
LEMMA WriteStep == ASSUME BodyInv, pc # "failed", Write PROVE BodyInv'
<1>1. Arguments /\ Placed /\ Carried /\ UNCHANGED arguments
  BY DEF BodyInv, Write, WritePart, WriteRest
<1>2. PICK p, d, w, D : p = piece /\ d = Len(digest) /\ w = written /\ D = Target
  OBVIOUS
<1>3. /\ p \in Bytes /\ output \in Bytes /\ digest \in Bytes /\ d \in Nat /\ Len(p) \in Nat
      /\ w \in 0 .. Len(p) /\ Len(output) = d + w
      /\ Right(D, output, 0) /\ Right(D, digest, 0) /\ Right(D, p, d)
      /\ at = d + Len(p) /\ remaining = size - d
  BY <1>1, <1>2 DEF Carried, Bytes
<1>4. ASSUME NEW n \in 1 .. Len(piece) - written - 1, WritePart(n) PROVE BodyInv'
  <2>1. PICK u, v : u = Unwritten(w) /\ v = SubSeq(u, 1, n)
    OBVIOUS
  <2>2. /\ n \in Nat /\ n < Len(p) - w
        /\ output' = output \o v /\ written' = w + n
        /\ UNCHANGED <<at, pc, remaining, stretch, chunks, blockOffset, piece, digest>>
    BY <1>2, <1>3, <1>4, <2>1 DEF WritePart
  <2>3. u \in Bytes /\ Len(u) = Len(p) - w /\ Right(D, u, d + w)
    <3>1. u = SubSeq(p, w + 1, Len(p))
      BY <1>2, <2>1 DEF Unwritten
    <3> QED
      BY <1>3, <3>1, RestOf
  <2>4. v \in Bytes /\ Len(v) = n /\ Right(D, v, d + w)
    <3>1. n \in 0 .. Len(u) /\ d + w \in Nat
      BY <1>3, <2>2, <2>3
    <3> QED
      BY <2>1, <2>3, <3>1, StartOf
  <2>5. output' \in Bytes /\ Len(output') = Len(output) + n /\ Right(D, output', 0)
    <3>1. 0 + Len(output) = d + w
      BY <1>3
    <3> QED
      BY <1>3, <2>2, <2>4, <3>1, Joined
  <2>6. Carried'
    <3>1. written' \in 0 .. Len(p) /\ Len(output') = d + written' /\ size' = size
      BY <1>1, <1>3, <2>2, <2>5 DEF arguments
    <3> QED
      BY <1>1, <1>2, <1>3, <2>2, <2>5, <3>1, Same DEF Carried
  <2>7. Placed'
    <3>1. Left' = Left /\ size' = size
      BY <1>1, <2>2 DEF Left, arguments
    <3> QED
      BY <1>1, <2>2, <3>1, Same DEF Placed
  <2> QED
    BY <1>1, <2>6, <2>7, Same DEF BodyInv
<1>5. CASE WriteRest
  <2>1. PICK u : u = Unwritten(w)
    OBVIOUS
  <2>2. /\ output' = output \o u /\ digest' = digest \o p /\ written' = 0 /\ piece' = <<>>
        /\ remaining' = remaining - Len(p) /\ stretch' = stretch - Len(p)
        /\ p # <<>> /\ UNCHANGED <<at, pc, chunks, blockOffset>>
    BY <1>2, <1>5, <2>1 DEF WriteRest, Hashed, Idle
  <2>3. u \in Bytes /\ Len(u) = Len(p) - w /\ Right(D, u, d + w)
    <3>1. u = SubSeq(p, w + 1, Len(p))
      BY <1>2, <2>1 DEF Unwritten
    <3> QED
      BY <1>3, <3>1, RestOf
  <2>4. output' \in Bytes /\ Len(output') = Len(output) + Len(u) /\ Right(D, output', 0)
    <3>1. 0 + Len(output) = d + w
      BY <1>3
    <3> QED
      BY <1>3, <2>2, <2>3, <3>1, Joined
  <2>5. digest' \in Bytes /\ Len(digest') = d + Len(p) /\ Right(D, digest', 0)
    <3>1. 0 + Len(digest) = d
      BY <1>2, <1>3
    <3> QED
      BY <1>2, <1>3, <2>2, <3>1, Joined
  <2>6. piece' \in Bytes /\ Len(piece') = 0 /\ Right(D, piece', Len(digest'))
    BY <2>2 DEF Bytes, Right
  <2>7. pc # "done"
    BY <1>1, <1>2, <2>2 DEF Carried
  <2>8. Carried'
    <3>1. /\ size' = size /\ at' = Len(digest') + Len(piece')
          /\ remaining' = size - Len(digest')
          /\ written' \in 0 .. Len(piece') /\ Len(output') = Len(digest') + written'
      <4>1. size \in Nat /\ size' = size
        BY <1>1 DEF Arguments, arguments
      <4> QED
        BY <1>3, <2>2, <2>3, <2>4, <2>5, <2>6, <4>1
    <3> QED
      BY <1>1, <1>2, <2>2, <2>4, <2>5, <2>6, <2>7, <3>1, Same DEF Carried
  <2>9. Placed'
    <3>1. Left' = Left /\ size' = size /\ stretch' \in Nat
      BY <1>1, <1>2, <1>3, <2>2, <2>6 DEF Left, arguments, Placed
    <3> QED
      BY <1>1, <2>2, <3>1, Same DEF Placed
  <2> QED
    BY <1>1, <2>8, <2>9, Same DEF BodyInv
<1> QED
  BY <1>4, <1>5 DEF Write

LEMMA StretchStep ==
    ASSUME BodyInv, ToSkip \/ ToEncrypted \/ Done
    PROVE  BodyInv'
<1>1. /\ Arguments /\ Placed /\ Carried /\ UNCHANGED arguments /\ size' = size
      /\ piece = <<>> /\ stretch = 0
      /\ UNCHANGED <<at, remaining, piece, written, output, digest>>
  BY DEF BodyInv, ToSkip, ToEncrypted, Done, StretchOver, Idle, arguments
<1>2. PICK p, k : p = at /\ k = blockOffset
  OBVIOUS
<1>3. /\ p \in Nat /\ k \in Nat /\ size \in Nat /\ Len(piece) = 0 /\ p <= size
      /\ remaining = size - p /\ Left = 0
  <2>1. Len(piece) = 0 /\ Len(digest) \in Nat
    BY <1>1 DEF Carried, Bytes
  <2>2. at = Len(digest) /\ remaining = size - Len(digest)
    BY <1>1, <2>1 DEF Carried
  <2>3. Left = 0
    <3>1. Left = 0 - 0
      BY <1>1, <2>1, Zenon DEF Left
    <3> QED
      BY <3>1
  <2> QED
    BY <1>1, <1>2, <2>1, <2>2, <2>3 DEF Placed, Arguments
<1>4. CASE ToSkip
  <2>1. InEncrypted(p, 0, k)
    BY <1>1, <1>2, <1>3, <1>4 DEF ToSkip, Placed, Enciphering
  <2>2. PICK s : s = Least(skipped, size - p)
    OBVIOUS
  <2>3. InSkip(p, s, k)
    BY <1>1, <1>3, <2>1, <2>2, GapNext
  <2>4. s \in Nat
    BY <1>1, <1>3, <2>2 DEF Arguments, Least
  <2>5. stretch' = s /\ pc' = "skip" /\ blockOffset' = k
    BY <1>2, <1>3, <1>4, <2>2 DEF ToSkip, Gap
  <2>6. Left' = s
    BY <1>1, <1>3, <2>4, <2>5 DEF Left
  <2>7. <<p, s, k>> \in Skipping
    BY <1>3, <2>3, <2>4 DEF Skipping
  <2>8. Placed'
    BY <1>1, <1>2, <1>3, <2>4, <2>5, <2>6, <2>7, Same DEF Placed
  <2>9. Carried'
    BY <1>1, <2>5, Same DEF Carried
  <2> QED
    BY <1>1, <2>8, <2>9, Same DEF BodyInv
<1>5. CASE ToEncrypted
  <2>1. InSkip(p, 0, k) /\ p < size
    BY <1>1, <1>2, <1>3, <1>5 DEF ToEncrypted, Placed, Skipping
  <2>2. PICK s : s = Least(NextSpan, size - p)
    OBVIOUS
  <2>3. InEncrypted(p, s, k)
    BY <1>1, <1>3, <2>1, <2>2, TurnNext
  <2>4. s \in Nat
    BY <1>1, <1>3, <2>2, SpanFacts DEF Least
  <2>5. stretch' = s /\ pc' = "encrypted" /\ blockOffset' = k
    BY <1>2, <1>3, <1>5, <2>2 DEF ToEncrypted, OffsetAfter, NextSpan
  <2>6. Left' = s
    BY <1>1, <1>3, <2>4, <2>5 DEF Left
  <2>7. <<p, s, k>> \in Enciphering
    BY <1>3, <2>3, <2>4 DEF Enciphering
  <2>8. Placed'
    BY <1>1, <1>2, <1>3, <2>4, <2>5, <2>6, <2>7, Same DEF Placed
  <2>9. Carried'
    BY <1>1, <2>5, Same DEF Carried
  <2> QED
    BY <1>1, <2>8, <2>9, Same DEF BodyInv
<1>6. CASE Done
  <2>1. pc' = "done" /\ remaining = 0 /\ UNCHANGED <<stretch, blockOffset>>
    BY <1>6 DEF Done
  <2>2. Left' = Left
    BY <1>1, <2>1 DEF Left
  <2>3. Placed'
    BY <1>1, <2>1, <2>2 DEF Placed
  <2>4. Carried'
    BY <1>1, <2>1, Same DEF Carried
  <2> QED
    BY <1>1, <2>3, <2>4, Same DEF BodyInv
<1> QED
  BY <1>4, <1>5, <1>6

LEMMA OtherStep ==
    ASSUME BodyInv, Truncated \/ CounterEnds \/ WriteFails \/ UNCHANGED vars
    PROVE  BodyInv'
<1>1. /\ Arguments /\ Placed /\ Carried /\ UNCHANGED arguments /\ size' = size
      /\ UNCHANGED <<at, remaining, stretch, blockOffset, piece, written, output, digest>>
      /\ pc' \in {pc, "failed"}
  BY DEF BodyInv, Truncated, CounterEnds, WriteFails, Fail, vars, arguments
<1>2. Left' = Left
  BY <1>1 DEF Left
<1>3. Placed'
  BY <1>1, <1>2, Same DEF Placed
<1>4. Carried'
  BY <1>1, Same DEF Carried
<1> QED
  BY <1>1, <1>3, <1>4, Same DEF BodyInv

LEMMA BodyStart == ASSUME Init PROVE BodyInv
<1>1. Arguments
  BY BodyConstants DEF Init, Arguments
<1>2. stretch = Least(FirstSpan, size) /\ stretch \in Nat /\ size \in Nat /\ Left = stretch
  <2>1. stretch = Least(FirstSpan, size) /\ piece = <<>>
    BY DEF Init, FirstSpan
  <2>2. FirstSpan \in Nat /\ size \in Nat /\ Len(piece) = 0
    BY <1>1, <2>1, SpanFacts DEF Arguments
  <2> QED
    BY <2>1, <2>2 DEF Least, Left
<1>3. <<0, Left, 0>> \in Enciphering
  BY <1>1, <1>2, StartFirst DEF Enciphering
<1>4. Placed
  BY <1>2, <1>3 DEF Init, Placed
<1>5. Carried
  BY <1>2 DEF Init, Carried, Bytes, Right
<1> QED
  BY <1>1, <1>4, <1>5 DEF BodyInv

LEMMA BodyInvariant == Spec => []BodyInv
<1>1. BodyInv /\ [Next]_vars => BodyInv'
  BY EncryptedStep, SkipStep, WriteStep, StretchStep, OtherStep DEF Next
<1> QED
  BY BodyStart, <1>1, PTL DEF Spec

(* The target holds the start of the right result, for every layout of     *)
(* stretches, every piece size and every cut of reads and writes.          *)
THEOREM BodyIsDeciphered == Spec => []OutputIsDeciphered
<1>1. ASSUME BodyInv PROVE OutputIsDeciphered
  <2>1. Arguments /\ Placed /\ Carried
    BY <1>1 DEF BodyInv
  <2>2. /\ Len(output) \in Nat /\ Len(digest) \in Nat /\ Len(piece) \in Nat /\ size \in Nat
        /\ Len(output) = Len(digest) + written /\ written \in Nat /\ written <= Len(piece)
        /\ at = Len(digest) + Len(piece) /\ at <= size
    <3>1. /\ output \in Bytes /\ digest \in Bytes /\ piece \in Bytes
          /\ Len(output) = Len(digest) + written /\ written \in 0 .. Len(piece)
          /\ at = Len(digest) + Len(piece) /\ at <= size /\ size \in Nat
      BY <2>1, Zenon DEF Carried, Placed, Arguments
    <3>2. Len(output) \in Nat /\ Len(digest) \in Nat /\ Len(piece) \in Nat
      BY <3>1 DEF Bytes
    <3>3. written \in Nat /\ written <= Len(piece)
      BY <3>1, <3>2
    <3> QED
      BY <3>1, <3>2, <3>3, Zenon
  <2>3. ASSUME NEW i \in 1 .. Len(output)
        PROVE  output[i] = Deciphered(i - 1)
    <3>1. PICK j : j = i - 1
      OBVIOUS
    <3>2. j \in 0 .. size /\ 0 + i - 1 = j
      BY <2>2, <3>1
    <3>3. output[i] = Target[j]
      BY <2>1, <3>2 DEF Carried, Right
    <3> QED
      BY <3>1, <3>2, <3>3 DEF Target
  <2>4. digest = SubSeq(output, 1, Len(digest))
    <3>1. PICK r : r = SubSeq(output, 1, Len(digest))
      OBVIOUS
    <3>2. output \in Bytes /\ digest \in Bytes
      BY <2>1 DEF Carried
    <3>3. r \in Bytes /\ Len(r) = Len(digest) /\ \A i \in 1 .. Len(digest) : r[i] = output[i]
      <4>1. PICK d : d = Len(digest)
        OBVIOUS
      <4>2. d \in Nat /\ d <= Len(output) /\ Len(output) \in Nat
        BY <4>1, <2>2
      <4>3. r \in Bytes /\ Len(r) = d /\ \A i \in 1 .. d : r[i] = output[i]
        BY <3>1, <3>2, <4>1, <4>2 DEF Bytes
      <4> QED
        BY <4>1, <4>3
    <3>4. ASSUME NEW i \in 1 .. Len(digest) PROVE digest[i] = output[i]
      <4>1. i \in 1 .. Len(output)
        BY <2>2
      <4> QED
        BY <2>1, <4>1 DEF Carried, Right
    <3> QED
      BY <3>1, <3>2, <3>3, <3>4 DEF Bytes
  <2>5. pc = "done" => Len(digest) = size /\ Len(output) = size
    BY <2>1, <2>2 DEF Carried
  <2>6. DOMAIN output = 1 .. Len(output)
    BY <2>1 DEF Carried, Bytes
  <2> QED
    BY <2>3, <2>4, <2>5, <2>6 DEF OutputIsDeciphered
<1> QED
  BY <1>1, BodyInvariant, PTL
-----------------------------------------------------------------------------
(* The counters.                                                           *)

(* What the arguments ask for has counters for all of its blocks.          *)
Fits ==
    /\ offset >= 0 /\ offset <= Max
    /\ start <= Max
    /\ start * BlockSize + length <= (Max + 1) * BlockSize

CounterTypes ==
    /\ backend \in {"python", "native"}
    /\ length \in Nat /\ offset \in Int /\ start \in Int
    /\ low \in Words /\ high \in Words
    /\ position \in Nat
    /\ used \in Seq(Int)
    /\ result \in {"called", "running", "ok", "refused"}

(* The words 8 and 9 hold the counter of the next block, wrapped when the  *)
(* last one of all has been used.                                          *)
CounterInv ==
    /\ CounterTypes
    /\ result \in {"called", "refused"} =>
          used = <<>> /\ position = 0 /\ start = Value(low, high) + offset
    /\ result = "refused" => ~ Fits
    /\ result \in {"running", "ok"} =>
          /\ Fits /\ start >= 0
          /\ position = Len(used) * BlockSize
          /\ (Len(used) - 1) * BlockSize < length
          /\ Value(low, high) = (start + Len(used)) % (Max + 1)
    /\ \A k \in DOMAIN used : used[k] = start + k - 1
    /\ result = "ok" => position >= length

LEMMA CounterSize ==
    /\ Word \in Nat \ {0} /\ Max \in Nat /\ Max + 1 = Word * Word
    /\ BlockSize \in Nat \ {0}
<1>1. Word * Word \in Nat /\ Word * Word >= 1
  <2>1. Word \in Nat /\ Word >= 1
    BY CounterConstants
  <2>2. PICK d \in Nat : Word = d + 1
    <3>1. Word - 1 \in Nat /\ Word = (Word - 1) + 1
      BY <2>1
    <3> QED
      BY <3>1
  <2>3. Word * Word = d * d + 2 * d + 1 /\ d * d \in Nat
    BY <2>2
  <2> QED
    BY <2>2, <2>3
<1> QED
  BY <1>1, CounterConstants DEF Max

LEMMA WrappedOnce ==
    ASSUME NEW g \in Nat \ {0}, NEW n \in Nat, n < g
    PROVE  n % g = n
OBVIOUS

LEMMA NotWrapped ==
    ASSUME NEW m \in Nat, NEW n \in Nat, n + 1 <= m
    PROVE  (n + 1) % (m + 1) = n + 1
<1>1. m + 1 \in Nat \ {0} /\ n + 1 \in Nat /\ n + 1 < m + 1
  OBVIOUS
<1> QED
  BY <1>1, WrappedOnce, Zenon

(* Two words and the number that they make. *)
LEMMA TwoWords ==
    ASSUME NEW l \in Words, NEW h \in Words
    PROVE  Value(l, h) \in Nat /\ Value(l, h) <= Max
<1>1. Word \in Nat \ {0} /\ l \in Nat /\ l <= Word - 1 /\ h \in Nat /\ h <= Word - 1
  BY CounterSize DEF Words
<1>2. PICK d : d = Word - 1 - h
  OBVIOUS
<1>3. d \in Nat /\ h = Word - 1 - d
  BY <1>1, <1>2
<1>4. h * Word \in Nat /\ d * Word \in Nat /\ Word * Word \in Int
  BY <1>1, <1>3
<1>5. h * Word = Word * Word - Word - d * Word
  BY <1>1, <1>3
<1> QED
  BY <1>1, <1>4, <1>5 DEF Value, Max

LEMMA WordsOf ==
    ASSUME NEW c \in Nat, c <= Max
    PROVE  /\ c % Word \in Words /\ c \div Word \in Words
           /\ Value(c % Word, c \div Word) = c
<1>1. Word \in Nat \ {0} /\ Word * Word \in Nat /\ c < Word * Word
  BY CounterSize
<1>2. PICK u, v : u = c \div Word /\ v = c % Word
  OBVIOUS
<1>3. u \in Nat /\ v \in 0 .. Word - 1 /\ c = Word * u + v
  BY <1>1, <1>2
<1>4. u < Word
  <2> SUFFICES ASSUME u >= Word PROVE FALSE
    BY <1>1, <1>3
  <2>1. PICK d \in Nat : u = Word + d
    <3>1. u - Word \in Nat /\ u = Word + (u - Word)
      BY <1>1, <1>3
    <3> QED
      BY <3>1
  <2>2. Word * u = Word * Word + Word * d /\ Word * d \in Nat
    BY <1>1, <2>1
  <2> QED
    BY <1>1, <1>3, <2>2
<1>5. u * Word = Word * u /\ Word * u \in Int
  BY <1>1, <1>3
<1> QED
  BY <1>1, <1>2, <1>3, <1>4, <1>5 DEF Words, Value

(* The carry makes the two words the next number, or 0 after the last. *)
LEMMA CarryGives ==
    ASSUME NEW l \in Words, NEW h \in Words,
           NEW l2, l2 = (l + 1) % Word, NEW h2, h2 = Carry(l2, h)
    PROVE  /\ l2 \in Words /\ h2 \in Words
           /\ Value(l2, h2) = (Value(l, h) + 1) % (Max + 1)
<1>1. /\ Word \in Nat \ {0} /\ Max \in Nat /\ Max + 1 = Word * Word
      /\ l \in Nat /\ l <= Word - 1 /\ h \in Nat /\ h <= Word - 1
  BY CounterSize DEF Words
<1>2. PICK v : v = Value(l, h)
  OBVIOUS
<1>3. v \in Nat /\ v <= Max /\ v = l + h * Word /\ h * Word \in Int
  BY <1>1, <1>2, TwoWords DEF Value
<1>4. CASE l < Word - 1
  <2>1. l2 = l + 1
    BY <1>1, <1>4, WrappedOnce
  <2>2. h2 = h /\ l2 \in Words
    BY <1>1, <1>4, <2>1 DEF Carry, Words
  <2>3. Value(l2, h2) = v + 1
    BY <1>1, <1>3, <2>1, <2>2 DEF Value
  <2>4. v + 1 <= Max
    BY <2>2, <2>3, TwoWords
  <2>5. (v + 1) % (Max + 1) = v + 1
    BY <1>1, <1>3, <2>4, NotWrapped, Zenon
  <2> QED
    BY <1>2, <2>2, <2>3, <2>5
<1>5. CASE l = Word - 1 /\ h < Word - 1
  <2>1. l2 = 0
    BY <1>1, <1>5
  <2>2. h2 = h + 1
    BY <1>1, <1>5, <2>1, WrappedOnce DEF Carry
  <2>3. l2 \in Words /\ h2 \in Words
    BY <1>1, <1>5, <2>1, <2>2 DEF Words
  <2>4. h2 * Word = h * Word + Word
    BY <1>1, <2>2
  <2>5. Value(l2, h2) = v + 1
    BY <1>1, <1>3, <1>5, <2>1, <2>4 DEF Value
  <2>6. v + 1 <= Max
    BY <2>3, <2>5, TwoWords
  <2>7. (v + 1) % (Max + 1) = v + 1
    BY <1>1, <1>3, <2>6, NotWrapped, Zenon
  <2> QED
    BY <1>2, <2>3, <2>5, <2>7
<1>6. CASE l = Word - 1 /\ h = Word - 1
  <2>1. l2 = 0
    BY <1>1, <1>6
  <2>2. h2 = 0
    BY <1>1, <1>6, <2>1 DEF Carry
  <2>3. l2 \in Words /\ h2 \in Words /\ Value(l2, h2) = 0
    BY <1>1, <2>1, <2>2 DEF Words, Value
  <2>4. h * Word = Word * Word - Word
    BY <1>1, <1>6
  <2>5. v + 1 = Max + 1
    BY <1>1, <1>3, <1>6, <2>4
  <2>6. (v + 1) % (Max + 1) = 0
    BY <1>1, <2>5
  <2> QED
    BY <1>2, <2>3, <2>6
<1> QED
  BY <1>1, <1>4, <1>5, <1>6

-----------------------------------------------------------------------------
(* The blocks that either implementation counts are as many as the data    *)
(* needs.                                                                  *)
LEMMA EnoughBlocks ==
    ASSUME length \in Nat, NEW m \in Int
    PROVE  /\ PythonBlocks \in Nat
           /\ PythonBlocks <= m <=> length <= m * BlockSize
<1>1. BlockSize \in Nat \ {0}
  BY CounterSize
<1>2. PICK t, u, v : t = length + BlockSize - 1 /\ u = t \div BlockSize /\ v = t % BlockSize
  OBVIOUS
<1>3. t \in Nat /\ u \in Nat /\ v \in 0 .. BlockSize - 1 /\ t = BlockSize * u + v
  BY <1>1, <1>2
<1>4. BlockSize * u \in Int /\ BlockSize * m \in Int /\ m * BlockSize = BlockSize * m
  BY <1>1, <1>3
<1>5. ASSUME u > m PROVE length > BlockSize * m
  <2>1. BlockSize * u >= BlockSize * m + BlockSize
    BY <1>1, <1>3, <1>5, Products
  <2> QED
    BY <1>1, <1>2, <1>3, <1>4, <2>1
<1>6. ASSUME u <= m PROVE length <= BlockSize * m
  <2>1. CASE u = m
    BY <1>1, <1>2, <1>3, <1>4, <2>1
  <2>2. CASE u < m
    <3>1. BlockSize * m >= BlockSize * u + BlockSize
      BY <1>1, <1>3, <2>2, Products
    <3> QED
      BY <1>1, <1>2, <1>3, <1>4, <3>1
  <2> QED
    BY <1>3, <1>6, <2>1, <2>2
<1> QED
  BY <1>1, <1>2, <1>3, <1>4, <1>5, <1>6 DEF PythonBlocks

LEMMA SameBlocks ==
    ASSUME length \in Nat
    PROVE  NativeBlocks = PythonBlocks
<1>1. BlockSize \in Nat \ {0}
  BY CounterSize
<1>2. PICK u, v, t :
         u = length \div BlockSize /\ v = length % BlockSize /\ t = length + BlockSize - 1
  OBVIOUS
<1>3. u \in Nat /\ v \in 0 .. BlockSize - 1 /\ length = BlockSize * u + v /\ t \in Int
  BY <1>1, <1>2
<1>4. CASE v = 0
  <2>1. PICK m, r : m = BlockSize * u /\ r = BlockSize - 1
    OBVIOUS
  <2>2. m \in Int /\ r \in 0 .. BlockSize - 1 /\ t = m + r
    BY <1>1, <1>2, <1>3, <1>4, <2>1
  <2>3. t \div BlockSize = u
    BY <1>1, <1>3, <2>1, <2>2, Remainder
  <2> QED
    BY <1>2, <1>3, <1>4, <2>3 DEF NativeBlocks, PythonBlocks
<1>5. CASE v # 0
  <2>1. PICK q, m, r : q = u + 1 /\ m = BlockSize * q /\ r = v - 1
    OBVIOUS
  <2>2. q \in Int /\ m \in Int /\ m = BlockSize * u + BlockSize /\ BlockSize * u \in Int
    BY <1>1, <1>3, <2>1
  <2>3. r \in 0 .. BlockSize - 1 /\ t = m + r
    BY <1>1, <1>2, <1>3, <1>5, <2>1, <2>2
  <2>4. t \div BlockSize = q
    BY <1>1, <1>3, <2>1, <2>2, <2>3, Remainder
  <2> QED
    BY <1>2, <1>3, <1>5, <2>1, <2>4 DEF NativeBlocks, PythonBlocks
<1> QED
  BY <1>4, <1>5

LEMMA AcceptsWhatFits ==
    ASSUME CounterTypes, start = Value(low, high) + offset
    PROVE  Accepts <=> Fits
<1>1. /\ Max \in Nat /\ BlockSize \in Nat \ {0}
      /\ length \in Nat /\ offset \in Int /\ start \in Int
      /\ Value(low, high) \in Nat
  BY CounterSize, TwoWords DEF CounterTypes
<1>2. PICK m : m = Max + 1 - start
  OBVIOUS
<1>3. m \in Int /\ PythonBlocks \in Nat /\ (PythonBlocks <= m <=> length <= m * BlockSize)
  BY <1>1, <1>2, EnoughBlocks
<1>4. /\ m * BlockSize = (Max + 1) * BlockSize - start * BlockSize
      /\ m * BlockSize \in Int /\ (Max + 1) * BlockSize \in Int /\ start * BlockSize \in Int
  BY <1>1, <1>2
<1>5. PythonAccepts <=> Fits
  BY <1>1, <1>2, <1>3, <1>4 DEF PythonAccepts, InRange, Fits
<1>6. NativeAccepts <=> PythonAccepts
  <2>1. CASE InRange /\ start <= Max
    <3>1. Wrapped(Value(low, high) + offset) = start
      <4>1. start \in Nat /\ start < Max + 1
        BY <1>1, <2>1 DEF InRange
      <4> QED
        BY <1>1, <4>1, WrappedOnce DEF Wrapped
    <3>2. NativeBlocks = PythonBlocks
      BY <1>1, SameBlocks
    <3> QED
      BY <1>1, <1>3, <2>1, <3>1, <3>2 DEF NativeAccepts, PythonAccepts, PastTheEnd
  <2>2. CASE ~ (InRange /\ start <= Max)
    BY <1>1, <2>2 DEF NativeAccepts, PythonAccepts
  <2> QED
    BY <2>1, <2>2
<1> QED
  BY <1>5, <1>6 DEF Accepts, CounterTypes

-----------------------------------------------------------------------------
LEMMA CounterInitially == CounterInit => CounterInv
<1> SUFFICES ASSUME CounterInit PROVE CounterInv
  OBVIOUS
<1>1. Value(low, high) \in Nat /\ length \in Nat /\ offset \in Int
  BY TwoWords, CounterConstants DEF CounterInit
<1> QED
  BY <1>1 DEF CounterInit, CounterInv, CounterTypes

LEMMA BeginPreserved ==
    ASSUME CounterInv, Begin
    PROVE  CounterInv'
<1>1. /\ CounterTypes /\ used = <<>> /\ start = Value(low, high) + offset
      /\ UNCHANGED <<given, position, used>>
  BY DEF CounterInv, Begin
<1>2. Fits /\ Fits'
  BY <1>1, AcceptsWhatFits DEF Begin, Fits, given
<1>3. start \in Nat /\ start <= Max /\ Max \in Nat /\ BlockSize \in Nat \ {0}
  BY <1>1, <1>2, TwoWords, CounterSize DEF CounterTypes, Fits
<1>4. Wrapped(Value(low, high) + offset) = start /\ start % (Max + 1) = start
  BY <1>1, <1>3, WrappedOnce DEF Wrapped
<1>5. low' \in Words /\ high' \in Words /\ Value(low', high') = start
  BY <1>3, <1>4, WordsOf DEF Begin
<1>6. Len(used) = 0 /\ DOMAIN used = {} /\ start + Len(used) = start
  BY <1>1, <1>3
<1>7. CounterTypes'
  BY <1>1, <1>5 DEF CounterTypes, given, Begin
<1>8. /\ used' = <<>> /\ position' = position /\ start' = start /\ length' = length
      /\ result' = "running"
  BY <1>1 DEF Begin, given
<1>9. position = 0 /\ (Len(used) - 1) * BlockSize < length /\ Len(used) * BlockSize = 0
  <2>1. position = 0 /\ length \in Nat
    BY DEF CounterInv, CounterTypes, Begin
  <2> QED
    BY <1>3, <1>6, <2>1
<1>10. Value(low', high') = (start + Len(used)) % (Max + 1)
  BY <1>4, <1>5, <1>6
<1>11. (\A k \in DOMAIN used : used[k] = start + k - 1)'
  BY <1>6, <1>8
<1> QED
  BY <1>1, <1>2, <1>3, <1>7, <1>8, <1>9, <1>10, <1>11 DEF CounterInv

LEMMA RefusePreserved ==
    ASSUME CounterInv, Refuse
    PROVE  CounterInv'
<1>1. CounterTypes /\ start = Value(low, high) + offset /\ ~ Accepts
  BY DEF CounterInv, Refuse
<1>2. ~ Fits /\ ~ Fits'
  BY <1>1, AcceptsWhatFits DEF Refuse, Fits, given
<1>3. CounterTypes'
  BY <1>1 DEF CounterTypes, given, Refuse
<1> QED
  BY <1>2, <1>3 DEF CounterInv, given, Refuse

LEMMA CryptBlockPreserved ==
    ASSUME CounterInv, CryptBlock
    PROVE  CounterInv'
<1>1. /\ CounterTypes /\ Fits /\ start >= 0 /\ result = "running"
      /\ position = Len(used) * BlockSize /\ position < length
      /\ Value(low, high) = (start + Len(used)) % (Max + 1)
      /\ UNCHANGED <<given, result>>
  BY DEF CounterInv, CryptBlock
<1>2. PICK n : n = Len(used)
  OBVIOUS
<1>3. /\ n \in Nat /\ start \in Nat /\ length \in Nat /\ used \in Seq(Int)
      /\ Max \in Nat /\ BlockSize \in Nat \ {0}
  BY <1>1, <1>2, CounterSize DEF CounterTypes
<1>4. n * BlockSize < length /\ n * BlockSize \in Nat
  BY <1>1, <1>2, <1>3
(* Or the blocks would not have fitted. *)
<1>5. start + n <= Max
  <2> SUFFICES ASSUME start + n >= Max + 1 PROVE FALSE
    BY <1>3
  <2>1. PICK d \in Nat : start + n = Max + 1 + d
    <3>1. start + n - (Max + 1) \in Nat /\ start + n = Max + 1 + (start + n - (Max + 1))
      BY <1>3
    <3> QED
      BY <3>1
  <2>2. (start + n) * BlockSize = (Max + 1) * BlockSize + d * BlockSize
    BY <1>3, <2>1
  <2>3. (start + n) * BlockSize = start * BlockSize + n * BlockSize
    BY <1>3
  <2>4. /\ start * BlockSize \in Int /\ (Max + 1) * BlockSize \in Int
        /\ d * BlockSize \in Nat
    BY <1>3, <2>1
  <2>5. start * BlockSize + length <= (Max + 1) * BlockSize
    BY <1>1 DEF Fits
  <2> QED
    BY <1>3, <1>4, <2>2, <2>3, <2>4, <2>5
<1>6. PICK c : c = start + n
  OBVIOUS
<1>7. c \in Nat /\ c < Max + 1 /\ Value(low, high) = c
  <2>1. c \in Nat /\ c < Max + 1
    BY <1>3, <1>5, <1>6
  <2>2. Value(low, high) = c % (Max + 1) /\ Max + 1 \in Nat \ {0}
    BY <1>1, <1>2, <1>3, <1>6
  <2> QED
    BY <2>1, <2>2, WrappedOnce
<1>8. used' = Append(used, c)
  BY <1>7 DEF CryptBlock
<1>9. /\ used' \in Seq(Int) /\ Len(used') = n + 1 /\ DOMAIN used' = 1 .. n + 1
      /\ \A k \in 1 .. n : used'[k] = used[k]
      /\ used'[n + 1] = c /\ DOMAIN used = 1 .. n
  BY <1>2, <1>3, <1>7, <1>8
<1>10. low' \in Words /\ high' \in Words /\ Value(low', high') = (c + 1) % (Max + 1)
  <2>1. low \in Words /\ high \in Words /\ low' = (low + 1) % Word /\ high' = Carry(low', high)
    BY <1>1 DEF CounterTypes, CryptBlock
  <2> QED
    BY <1>7, <2>1, CarryGives
<1>11. /\ position' = n * BlockSize + BlockSize
       /\ (n + 1) * BlockSize = n * BlockSize + BlockSize
       /\ n * BlockSize \in Int
  BY <1>1, <1>2, <1>3 DEF CryptBlock
<1>12. /\ start' = start /\ length' = length /\ result' = "running" /\ Fits'
  BY <1>1 DEF given, Fits
<1>13. CounterTypes'
  BY <1>1, <1>3, <1>4, <1>9, <1>10, <1>11 DEF CounterTypes, given
<1>14. position' = Len(used') * BlockSize /\ (Len(used') - 1) * BlockSize < length
  BY <1>3, <1>4, <1>9, <1>11
<1>15. Value(low', high') = (start + Len(used')) % (Max + 1)
  <2>1. start + Len(used') = c + 1
    BY <1>3, <1>6, <1>9
  <2> QED
    BY <1>10, <2>1
<1>16. \A k \in DOMAIN used' : used'[k] = start + k - 1
  <2>1. \A k \in 1 .. n : used[k] = start + k - 1
    BY <1>9 DEF CounterInv
  <2>2. c = start + (n + 1) - 1
    BY <1>3, <1>6
  <2> QED
    BY <1>3, <1>9, <2>1, <2>2
<1> QED
  BY <1>1, <1>12, <1>13, <1>14, <1>15, <1>16 DEF CounterInv

LEMMA ReturnPreserved ==
    ASSUME CounterInv, Return
    PROVE  CounterInv'
<1>1. /\ CounterTypes /\ result = "running" /\ result' = "ok" /\ position >= length
      /\ UNCHANGED <<given, low, high, position, used>>
  BY DEF CounterInv, Return
<1>2. CounterTypes'
  BY <1>1 DEF CounterTypes, given
<1>3. Fits'
  BY <1>1 DEF CounterInv, Fits, given
<1> QED
  BY <1>1, <1>2, <1>3 DEF CounterInv, given

LEMMA CounterPreserved == CounterInv /\ [CounterNext]_counterVars => CounterInv'
<1> SUFFICES ASSUME CounterInv, [CounterNext]_counterVars PROVE CounterInv'
  OBVIOUS
<1>1. CASE UNCHANGED counterVars
  BY <1>1 DEF counterVars, given, CounterInv, CounterTypes, Fits
<1> QED
  BY <1>1, BeginPreserved, RefusePreserved, CryptBlockPreserved, ReturnPreserved DEF CounterNext

(* Both implementations accept exactly the calls whose blocks all have a   *)
(* counter, for words of any width and blocks of any size: their verdicts  *)
(* on one call cannot differ (crypto.py 63-69, _native.c 114-138).         *)
THEOREM BackendsAgree == CounterSpec => []SameVerdict
<1>1. CounterInv => SameVerdict
  BY DEF CounterInv, Fits, SameVerdict
<1> QED
  BY CounterInitially, CounterPreserved, <1>1, PTL DEF CounterSpec

(* No call uses a counter twice, leaves one out or wraps around, and those *)
(* of pieces of a message follow each other (_native.c 67-81, crypto.py    *)
(* 72-80).                                                                 *)
THEOREM CountersFollow == CounterSpec => []CountersInSequence
<1>1. CounterInv => CountersInSequence
  <2> SUFFICES ASSUME CounterInv PROVE CountersInSequence
    OBVIOUS
  <2>1. result = "ok" =>
          Len(used) * BlockSize >= length /\ (Len(used) - 1) * BlockSize < length
    BY DEF CounterInv
  <2> QED
    BY <2>1 DEF CounterInv, CountersInSequence
<1> QED
  BY CounterInitially, CounterPreserved, <1>1, PTL DEF CounterSpec
=============================================================================
