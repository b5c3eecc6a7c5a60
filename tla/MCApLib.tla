------------------------------ MODULE MCApLib -------------------------------
(***************************************************************************)
(* ApLib with bytes of two bits: every text of up to MaxTokens tokens with *)
(* limits around its size, with something behind its end, and cut off at   *)
(* any place; and all short sequences of arbitrary bytes.                  *)
(***************************************************************************)
EXTENDS ApLib

CONSTANTS MaxTokens, MaxArbitrary

LOCAL INSTANCE SequencesExt
Format == INSTANCE ApLibFormat

(* Every kind of token, with the lengths from the shortest on. *)
Tokens ==
    {Format!Literal(v) : v \in {1, 2}}
        \cup {Format!Match(o, Format!Shortest(o) + k) : o \in 1 .. 6, k \in 0 .. 1}
        \cup {Format!Again(o, 3) : o \in 1 .. 6}
        \cup {Format!Short(o, n) : o \in {1}, n \in 2 .. 3}
        \cup {Format!Single(o) : o \in {0, 1, 3}}

RECURSIVE Texts(_)
Texts(n) ==
    IF n = 0 THEN {<<>>}
    ELSE LET shorter == Texts(n - 1)
         IN shorter \cup
            {Append(ts, t) : <<ts, t>> \in
                {p \in shorter \X Tokens :
                    Format!MayFollow(p[2], p[1], Len(Format!Plain(3, p[1])))}}

(* The streams of a text: whole, with limits around its size; with a byte  *)
(* behind its end; cut off anywhere.                                       *)
Whole(said) ==
    LET n == Len(said.plain)
    IN  {[data |-> said.code, limit |-> m, kind |-> "genuine", said |-> said] :
            m \in {n - 1, n, n + 4} \ {0}}

Followed(said) ==
    {[data |-> Append(said.code, 1), limit |-> Len(said.plain), kind |-> "genuine",
      said |-> said]}

Cut(said) ==
    {[data |-> SubSeq(said.code, 1, k), limit |-> 9, kind |-> "cut", said |-> said] :
        k \in 0 .. Len(said.code) - 1}

(* Bytes of which nothing is known. *)
Arbitrary(bytes, said) ==
    {[data |-> bytes, limit |-> n, kind |-> "arbitrary", said |-> said] : n \in {1, 4}}

MCStreams ==
    LET texts == Texts(MaxTokens)
        said  == [ts \in texts |-> Format!Said(3, ts)]
        short == {said[ts] : ts \in Texts(MaxTokens - 1)}
    IN  UNION {Whole(said[ts]) : ts \in texts}
          \cup UNION {Followed(s) \cup Cut(s) : s \in short}
          \cup UNION {Arbitrary(d, said[<<>>]) : d \in BoundedSeq(Data, MaxArbitrary)}
=============================================================================
