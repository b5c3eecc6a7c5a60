--------------------------- MODULE MetadataProfile --------------------------
(***************************************************************************)
(* From known pairs to the metadata of another file: analyze_archive of    *)
(* pairs.py reads pairs and derives, for each group of files, the bytes of *)
(* the stream that it can confirm; decode_info of core.py uses them.       *)
(*                                                                         *)
(* What is confirmed rests on a guess: that the two bytes behind a pair's  *)
(* compressed name are its size.  A pair may be of another format, or      *)
(* damaged; such a pair is not genuine, and no one can tell.               *)
(***************************************************************************)
EXTENDS Integers, FiniteSets

CONSTANTS
    Groups,             \* Key blobs.
    Base,               \* 256: bytes are numbers below it.
    Xor(_, _),
    MaxName,            \* Bound: bytes of a compressed name.
    Fields, KeySize,    \* 16 and 64: bytes of the scheme and of the key.
    Stream,             \* Stream[g]: the stream that g was encrypted with.
    Packed,             \* The compressed names there are,
    Unpack,             \* and what aPLib makes of each.
    Schemes, ValidSchemes,      \* Bytes of the scheme, and the sound ones.
    Keys,
    Damaged,            \* What a pair that is not genuine may have as bytes.
    Supplied,           \* Places of a stream that a user knows by other means.
    MaxPairs            \* Bound: pairs in an archive.

Byte == 0 .. Base - 1
Fixed == 2 + Fields + KeySize
InfoSize(n) == n + Fixed
Index == 0 .. InfoSize(MaxName) - 1
Strings(n) == [0 .. n - 1 -> Byte]

ASSUME ProfileConstants ==
    /\ {Base, MaxName, Fields, KeySize} \subseteq Nat \ {0} /\ MaxPairs \in Nat \ {0}
    /\ MaxName < Base * Base
    /\ \A a, b \in Byte :
          Xor(a, b) \in Byte /\ Xor(a, b) = Xor(b, a) /\ Xor(Xor(a, b), b) = a
    /\ Stream \in [Groups -> Strings(InfoSize(MaxName))]
    /\ Packed \subseteq UNION {Strings(n) : n \in 1 .. MaxName}
    /\ DOMAIN Unpack = Packed
    /\ Schemes \subseteq Strings(Fields) /\ ValidSchemes \subseteq Schemes
    /\ Keys \subseteq Strings(KeySize)
    /\ Damaged \subseteq Strings(InfoSize(MaxName)) /\ Supplied \subseteq Index

VARIABLES
    pc,             \* "reading", "refused" or "analysed"
    left,           \* Pairs of the manifest still to be read.
    sizes,          \* sizes[g]: sizes of the metadata of the pairs of g.
    observations,   \* observations[g][i]: bytes observed at place i.
    profiles,       \* The result, for the groups there are.
    witnessed,      \* History: places that a genuine pair of g, or a user, has shown.
    doubted         \* History: groups with a pair that is not genuine.

vars == <<pc, left, sizes, observations, profiles, witnessed, doubted>>

-----------------------------------------------------------------------------
(* Files.                                                                  *)

Size(name) == Cardinality(DOMAIN name)

(* struct.pack("<H", n) *)
SizeBytes(n) == <<n % Base, n \div Base>>

Files == [group : Groups, name : Packed, scheme : Schemes, key : Keys]

(* Name, its size, the scheme and the key, one after the other. *)
Plain(f) ==
    LET n == Size(f.name)
    IN  [i \in 0 .. InfoSize(n) - 1 |->
            IF i < n THEN f.name[i]
            ELSE IF i < n + 2 THEN SizeBytes(n)[i - n + 1]
            ELSE IF i < n + 2 + Fields THEN f.scheme[i - n - 2]
            ELSE f.key[i - n - 2 - Fields]]

Encrypted(f) ==
    [i \in 0 .. InfoSize(Size(f.name)) - 1 |-> Xor(Plain(f)[i], Stream[f.group][i])]

(* A pair whose files have their hashes and sizes or, if not, do not fit.  *)
GenuinePairs ==
    {[group |-> f.group, name |-> Size(f.name), footer |-> Encrypted(f),
      fits |-> TRUE, genuine |-> TRUE] : f \in Files}

OtherPairs ==
    [group : Groups, name : 0 .. MaxName, footer : Damaged, fits : BOOLEAN, genuine : {FALSE}]

Pairs == GenuinePairs \cup OtherPairs

-----------------------------------------------------------------------------
(* analyze_archive.                                                        *)

Init ==
    /\ pc = "reading" /\ left \in 1 .. MaxPairs
    /\ sizes = [g \in Groups |-> {}]
    /\ observations = [g \in Groups |-> [i \in Index |-> {}]]
    /\ profiles = [g \in {} |-> {}]
    /\ witnessed = [g \in Groups |-> {}] /\ doubted = {}

Agrees(p) == p.fits /\ p.name > 0

(* Slip: the size is taken to be big-endian. *)
ObservedSwapped(p, i) ==
    {Xor(p.footer[j], SizeBytes(p.name)[p.name + 2 - j]) : j \in {p.name, p.name + 1} \cap {i}}

(* What the pair shows of place i. *)
Observed(p, i) ==
    {Xor(p.footer[j], SizeBytes(p.name)[j - p.name + 1]) : j \in {p.name, p.name + 1} \cap {i}}

Read(p) ==
    /\ pc = "reading" /\ left > 0
    /\ Agrees(p)
    /\ left' = left - 1
    /\ sizes' = [sizes EXCEPT ![p.group] = @ \cup {InfoSize(p.name)}]
    /\ observations' =
          [observations EXCEPT ![p.group] = [i \in Index |-> @[i] \cup Observed(p, i)]]
    /\ witnessed' = IF p.genuine
                    THEN [witnessed EXCEPT ![p.group] = @ \cup {p.name, p.name + 1}]
                    ELSE witnessed
    /\ doubted' = IF p.genuine THEN doubted ELSE doubted \cup {p.group}
    /\ UNCHANGED <<pc, profiles>>

(* A hash or a size is wrong: no result of any pair is given. *)
Refuse(p) ==
    /\ pc = "reading" /\ left > 0
    /\ ~ Agrees(p)
    /\ pc' = "refused"
    /\ UNCHANGED <<left, sizes, observations, profiles, witnessed, doubted>>

(* Slip: any one of several values is taken. *)
SettledOnAny(values) == values # {}

(* len(values) == 1 *)
Settled(values) == \E v \in values : values = {v}

Largest(s) == CHOOSE n \in s : \A m \in s : m <= n

(* A place that nothing is known of is 0. *)
Value(values) == IF Settled(values) THEN CHOOSE v \in values : TRUE ELSE 0

Profile(g) ==
    LET length == Largest(sizes[g])
    IN  [group |-> g,
         stream |-> [i \in 0 .. length - 1 |-> Value(observations[g][i])],
         mask |-> [i \in 0 .. length - 1 |-> Settled(observations[g][i])]]

Analyse ==
    /\ pc = "reading" /\ left = 0
    /\ pc' = "analysed"
    /\ profiles' = [g \in {h \in Groups : sizes[h] # {}} |-> Profile(g)]
    /\ UNCHANGED <<left, sizes, observations, witnessed, doubted>>

(* The profile is a JSON file that its user completes. *)
Supply(g, i) ==
    /\ g \in DOMAIN profiles /\ i \in DOMAIN profiles[g].mask \ witnessed[g]
    /\ profiles' =
          [profiles EXCEPT ![g] = [group |-> g,
                                   stream |-> [@.stream EXCEPT ![i] = Stream[g][i]],
                                   mask |-> [@.mask EXCEPT ![i] = TRUE]]]
    /\ witnessed' = [witnessed EXCEPT ![g] = @ \cup {i}]
    /\ UNCHANGED <<pc, left, sizes, observations, doubted>>

Next ==
    \/ \E p \in Pairs : Read(p) \/ Refuse(p)
    \/ Analyse
    \/ \E g \in Groups, i \in Supplied : Supply(g, i)

Spec == Init /\ [][Next]_vars

-----------------------------------------------------------------------------
(* decode_info, of a profile p, the metadata of f, an expected name and    *)
(* allow_unknown_name.                                                     *)

Places(from, size) == from .. from + size - 1

Clear(p, f) == [i \in DOMAIN Encrypted(f) |-> Xor(Encrypted(f)[i], p.stream[i])]

Slice(s, from, size) == [i \in 0 .. size - 1 |-> s[from + i]]

Known(p, places) == \A i \in places : p.mask[i]

(* Slip: a profile of any group will do. *)
OfAnyGroup(p, f) == TRUE

OfGroup(p, f) == p.group = f.group

LongEnough(p, f) == DOMAIN Encrypted(f) \subseteq DOMAIN p.stream

(* Places that have to be known. *)
Required(f, allow) ==
    LET n == Size(f.name)
    IN  IF allow THEN Places(n, Fixed) ELSE Places(0, InfoSize(n))

(* packed_size == fixed_start *)
SizeMatches(p, f) ==
    LET n == Size(f.name)
    IN  Clear(p, f)[n] + Base * Clear(p, f)[n + 1] = n

NameVerified(p, f) == Known(p, Places(0, Size(f.name)))

(* What is not a compressed name does not unpack. *)
NameMatches(p, f, expected) ==
    NameVerified(p, f) =>
        LET packed == Slice(Clear(p, f), 0, Size(f.name))
        IN  packed \in Packed /\ Unpack[packed] = expected

Scheme(p, f) == Slice(Clear(p, f), Size(f.name) + 2, Fields)
Key(p, f) == Slice(Clear(p, f), Size(f.name) + 2 + Fields, KeySize)

Accepts(p, f, expected, allow) ==
    /\ OfGroup(p, f)
    /\ LongEnough(p, f)
    /\ Known(p, Required(f, allow))
    /\ SizeMatches(p, f)
    /\ NameMatches(p, f, expected)
    /\ Scheme(p, f) \in ValidSchemes

-----------------------------------------------------------------------------
(* Properties.                                                             *)

Names == {Unpack[n] : n \in Packed}

(* A place that one genuine pair has shown is right or left open, whatever *)
(* other pairs of the group say: the count of values is the only defence   *)
(* (pairs.py:173-178).                                                     *)
WitnessOutweighs ==
    \A g \in DOMAIN profiles : \A i \in witnessed[g] \cap DOMAIN profiles[g].mask :
        profiles[g].mask[i] => profiles[g].stream[i] = Stream[g][i]

(* What decode_info accepts is what was encrypted, with any profile of any *)
(* archive, if the places it takes the scheme, the key and a verified name *)
(* from were shown by genuine pairs, and its other checks catch all else:  *)
(* a profile of another group, a wrong size of the name (core.py:71-107).  *)
AcceptedIsTrue ==
    \A p \in {profiles[g] : g \in DOMAIN profiles}, f \in Files, expected \in Names,
      allow \in BOOLEAN :
        LET n == Size(f.name)
        IN  /\ Accepts(p, f, expected, allow)
            /\ Places(n + 2, Fields + KeySize) \subseteq witnessed[p.group]
            /\ NameVerified(p, f) => Places(0, n) \subseteq witnessed[p.group]
            => /\ Scheme(p, f) = f.scheme /\ Key(p, f) = f.key
               /\ NameVerified(p, f) => expected = Unpack[f.name]
               /\ \A i \in Required(f, allow) : p.stream[i] = Stream[f.group][i]

(* Genuine pairs never contradict each other: from them alone, a file all  *)
(* of whose places they have shown is decoded (pairs.py:154-155, 173-176,  *)
(* core.py:82-107).                                                        *)
GenuineSuffices ==
    \A g \in DOMAIN profiles \ doubted : \A f \in {h \in Files : h.group = g}, allow \in BOOLEAN :
        /\ Required(f, allow) \subseteq witnessed[g]
        /\ LongEnough(profiles[g], f)
        /\ f.scheme \in ValidSchemes
        => Accepts(profiles[g], f, Unpack[f.name], allow)
=============================================================================
