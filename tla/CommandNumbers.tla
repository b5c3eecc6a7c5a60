--------------------------- MODULE CommandNumbers ---------------------------
(***************************************************************************)
(* START and COUNT on a worker's command line, read by number() of         *)
(* cuda/cli.hpp in unsigned words, COUNT within what START has left of the *)
(* space (parse, lines 81-82).  A character is read in each step; written  *)
(* is the number that the digits so far mean, in no word at all.           *)
(***************************************************************************)
EXTENDS Integers

CONSTANTS
    Word,           \* 2 ** 64.
    Spaces          \* 256 ** number of offsets, or any other maximum.

ASSUME WordHoldsSpaces == Word \in Nat /\ Spaces \subseteq 0 .. Word - 1

VARIABLES
    space,
    field,          \* What is read: "start", "count", or "none" any more.
    maximum,        \* number()'s argument.
    result,         \* number()'s local.
    empty,          \* No character of the field has been read.
    written,
    options,        \* Its start and count.
    verdict         \* "none", "parsed", or why it threw: "form" or "range".

numberVars == <<space, field, maximum, result, empty, written, options, verdict>>

Digits == 0 .. 9

(* Slip: the range tested after the multiplication. *)
OutOfRangeAfter(d) == (result * 10 + d) % Word > maximum

(* The difference is not below 0 thanks to the first comparison. *)
OutOfRange(d) == d > maximum \/ result > ((maximum - d) % Word) \div 10

NumbersInit ==
    /\ space \in Spaces
    /\ field = "start" /\ maximum = space
    /\ result = 0 /\ empty = TRUE /\ written = 0
    /\ options = [start |-> 0, count |-> 0]
    /\ verdict = "none"

Throw(why) ==
    /\ verdict' = why
    /\ field' = "none"
    /\ UNCHANGED <<space, maximum, result, options>>

Digit(d) ==
    /\ field # "none"
    /\ ~ OutOfRange(d)
    /\ result' = (result * 10 + d) % Word
    /\ written' = written * 10 + d
    /\ empty' = FALSE
    /\ UNCHANGED <<space, field, maximum, options, verdict>>

TooLarge(d) ==
    /\ field # "none"
    /\ OutOfRange(d)
    /\ written' = written * 10 + d
    /\ empty' = FALSE
    /\ Throw("range")

(* A character that is no digit, or none at all. *)
Malformed ==
    /\ field # "none"
    /\ Throw("form")
    /\ UNCHANGED <<written, empty>>

StartRead ==
    /\ field = "start" /\ ~ empty
    /\ options' = [options EXCEPT !.start = result]
    /\ field' = "count" /\ maximum' = (space - result) % Word
    /\ result' = 0 /\ empty' = TRUE /\ written' = 0
    /\ UNCHANGED <<space, verdict>>

CountRead ==
    /\ field = "count" /\ ~ empty
    /\ options' = [options EXCEPT !.count = result]
    /\ field' = "none" /\ verdict' = "parsed"
    /\ UNCHANGED <<space, maximum, result, empty, written>>

NumbersNext ==
    \/ \E d \in Digits : Digit(d) \/ TooLarge(d)
    \/ Malformed \/ StartRead \/ CountRead

NumbersSpec == NumbersInit /\ [][NumbersNext]_numberVars

-----------------------------------------------------------------------------
(* A number is taken as it was written, however many digits and whatever   *)
(* the maximum, and refused for its range only if it, and so every number  *)
(* that begins with these digits, is beyond it: nothing wraps, neither in  *)
(* the number nor in the difference of space and START, and the range that *)
(* the kernels enumerate is within the space (cli.hpp 27-38, 81-82).       *)
TakenAsWritten ==
    /\ field # "none" => result = written /\ options.start + written <= space
    /\ verdict = "parsed" => options.count = written /\ options.start + options.count <= space
    /\ verdict = "range" => options.start + written > space
=============================================================================
