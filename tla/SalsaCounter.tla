----------------------------- MODULE SalsaCounter ---------------------------
(***************************************************************************)
(* The block counter of salsa_crypt in its two implementations, the Python *)
(* one of ayaz_decryptor/crypto.py, whose integers have no width, and the  *)
(* C one of ayaz_decryptor/_native.c, whose 64-bit integers wrap: which    *)
(* calls are refused, and which counters the blocks of the others use.     *)
(*                                                                         *)
(* The block function is not modelled: what matters here is that no        *)
(* counter is used twice, for that would use its keystream twice.          *)
(***************************************************************************)
EXTENDS Integers, Sequences

CONSTANTS
    Word,           \* Values of a 32-bit word.
    BlockSize,      \* Bytes of a block: 64.
    Lengths,        \* Bound: lengths of the data.
    Offsets         \* Bound: block_offset, any integer.

ASSUME CounterConstants ==
    /\ Word \in Nat \ {0} /\ BlockSize \in Nat \ {0}
    /\ Lengths \subseteq Nat /\ Offsets \subseteq Int

Words == 0 .. Word - 1
Max == Word * Word - 1          \* UINT64_MAX, _MASK64
Wrapped(n) == n % (Max + 1)     \* The value of a uint64_t.

VARIABLES
    backend,        \* "python" or "native"
    length, offset, \* The arguments; the data by their length only.
    low, high,      \* Words 8 and 9 of the state given, then of its copy.
    start,          \* The counter that the arguments ask for.
    position,       \* position
    used,           \* The counters of the blocks so far.
    result          \* "called", "running", then "ok" or "refused".

given == <<backend, length, offset, start>>
counterVars == <<given, low, high, position, used, result>>

Value(lo, hi) == lo + hi * Word

CounterInit ==
    /\ backend \in {"python", "native"}
    /\ length \in Lengths /\ offset \in Offsets
    /\ low \in Words /\ high \in Words
    /\ start = Value(low, high) + offset
    /\ position = 0
    /\ used = <<>>
    /\ result = "called"

InRange == 0 <= offset /\ offset <= Max

(* (len(data) + 63) // 64 *)
PythonBlocks == (length + BlockSize - 1) \div BlockSize

PythonAccepts ==
    LET counter == Value(low, high) + offset
    IN InRange /\ counter <= Max /\ counter + PythonBlocks <= Max + 1

(* length / 64 + (length % 64 != 0) *)
NativeBlocks == (length \div BlockSize) + (IF length % BlockSize # 0 THEN 1 ELSE 0)

(* Slip: a sum that may wrap is compared. *)
WrappedSum(blocks, counter) == Wrapped(counter + blocks) > Max

PastTheEnd(blocks, counter) == blocks # 0 /\ blocks - 1 > Max - counter

NativeAccepts ==
    LET counter == Value(low, high)
    IN /\ InRange
       /\ ~ offset > Max - counter
       /\ ~ PastTheEnd(NativeBlocks, Wrapped(counter + offset))

Accepts == IF backend = "python" THEN PythonAccepts ELSE NativeAccepts

Begin ==
    /\ result = "called"
    /\ Accepts
    /\ LET counter == Wrapped(Value(low, high) + offset)
       IN low' = counter % Word /\ high' = counter \div Word
    /\ result' = "running"
    /\ UNCHANGED <<given, position, used>>

Refuse ==
    /\ result = "called"
    /\ ~ Accepts
    /\ result' = "refused"
    /\ UNCHANGED <<given, low, high, position, used>>

(* Slip: the low word's carry is lost. *)
NoCarry(lo, hi) == hi

(* The carry into word 9 after lo has been incremented. *)
Carry(lo, hi) == IF lo = 0 THEN (hi + 1) % Word ELSE hi

(* One block of the data, the last one perhaps a part of it. *)
CryptBlock ==
    /\ result = "running" /\ position < length
    /\ used' = Append(used, Value(low, high))
    /\ low' = (low + 1) % Word
    /\ high' = Carry(low', high)
    /\ position' = position + BlockSize
    /\ UNCHANGED <<given, result>>

Return ==
    /\ result = "running" /\ position >= length
    /\ result' = "ok"
    /\ UNCHANGED <<given, low, high, position, used>>

CounterNext == Begin \/ Refuse \/ CryptBlock \/ Return

CounterSpec == CounterInit /\ [][CounterNext]_counterVars

-----------------------------------------------------------------------------
(* Properties.                                                             *)

(* Both implementations refuse the same calls: those whose blocks do not   *)
(* all have a 64-bit counter, an empty message at the end of the counters  *)
(* included (crypto.py 63-69, _native.c 114-138).                          *)
SameVerdict ==
    LET fits == /\ offset >= 0 /\ offset <= Max
                /\ start <= Max
                /\ start * BlockSize + length <= (Max + 1) * BlockSize
    IN /\ result \in {"running", "ok"} => fits
       /\ result = "refused" => ~ fits

(* A message that is cut in pieces, each called with the blocks before it  *)
(* as its offset, gets the keystream of the whole: the k-th block uses the *)
(* counter k - 1 after the first, with no counter left out, repeated or    *)
(* wrapped around (crypto.py 72-80, _native.c 67-81).                      *)
CountersInSequence ==
    /\ \A k \in DOMAIN used : used[k] = start + k - 1
    /\ result = "ok" =>
          Len(used) * BlockSize >= length /\ (Len(used) - 1) * BlockSize < length
=============================================================================
