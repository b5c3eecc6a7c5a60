---------------------------- MODULE ArchiveProofs ---------------------------
(***************************************************************************)
(* Theorems about archives of pairs, for any archives, streams and sizes   *)
(* of the metadata and any number of calls: what analyze_archive deduces   *)
(* from one (MetadataProfile), and what main says of one (CommandLine).    *)
(*                                                                         *)
(* SuccessIsEarned is about calls that have returned.  MainInv adds those  *)
(* under way: their results are so far those of the pairs, and who has     *)
(* created the report at the path keeps it.                                *)
(***************************************************************************)
EXTENDS MetadataProfile, CommandLine, FiniteSetTheorems, TLAPS

Sizes == 1 .. MaxName

(* What is known of places that genuine pairs have shown. *)
Shown(g) == \A i \in witnessed[g] : Stream[g][i] \in observations[g][i]

Array(a) == a = [i \in DOMAIN a |-> a[i]]

Shape(g) ==
    LET p == profiles[g]
    IN  /\ p = [group |-> g, stream |-> p.stream, mask |-> p.mask]
        /\ Array(p.stream) /\ Array(p.mask)
        /\ DOMAIN p.stream = DOMAIN p.mask
        /\ \A i \in DOMAIN p.stream \cap Index : p.stream[i] \in Byte

ProfileInv ==
    /\ observations \in [Groups -> [Index -> SUBSET Byte]]
    /\ witnessed \in [Groups -> SUBSET Index]
    /\ pc # "analysed" => DOMAIN profiles = {} /\ \A g \in Groups : Shown(g)
    /\ DOMAIN profiles \subseteq Groups /\ Array(profiles)
    /\ \A g \in DOMAIN profiles : Shape(g)
    /\ WitnessOutweighs

-----------------------------------------------------------------------------
(* Bytes.                                                                  *)

LEMMA XorCancels == ASSUME NEW a \in Byte, NEW b \in Byte PROVE Xor(Xor(a, b), a) = b
BY ProfileConstants

LEMMA XorInjective ==
    ASSUME NEW a \in Byte, NEW b \in Byte, NEW c \in Byte, Xor(a, b) = Xor(a, c)
    PROVE  b = c
BY XorCancels

LEMMA Constants ==
    /\ Base \in Nat \ {0} /\ MaxName \in Nat \ {0} /\ Fields \in Nat \ {0}
    /\ KeySize \in Nat \ {0} /\ MaxName < Base * Base /\ Fixed = 2 + Fields + KeySize
BY ProfileConstants DEF Fixed

(* A size has two bytes, and they are the only ones that stand for it.     *)
LEMMA SizeDigits ==
    ASSUME NEW n \in Sizes
    PROVE  n % Base \in Byte /\ n \div Base \in Byte /\ n = (n % Base) + Base * (n \div Base)
<1>1. n \in Nat /\ n < Base * Base
  BY Constants DEF Sizes
<1>2. n = Base * (n \div Base) + (n % Base) /\ n % Base \in 0 .. Base - 1 /\ n \div Base \in Nat
  BY <1>1, Constants
<1> DEFINE q == n \div Base
<1>3. q < Base
  <2> SUFFICES ASSUME q >= Base PROVE FALSE
    BY <1>2, Constants
  <2>1. Base * q >= Base * Base
    <3>1. q \in Nat /\ q >= Base /\ Base \in Nat
      BY <1>2, Constants
    <3> HIDE DEF q
    <3>2. PICK d \in Nat : q = Base + d
      <4>1. q - Base \in Nat /\ q = Base + (q - Base)
        BY <3>1
      <4> QED  BY <4>1
    <3>3. Base * q = Base * Base + Base * d /\ Base * d \in Nat
      BY <3>2, Constants
    <3> QED  BY <3>3, Constants
  <2>2. Base * q <= n
    BY <1>1, <1>2, Constants
  <2> HIDE DEF q
  <2>3. Base * q \in Int /\ Base * Base \in Int
    BY <1>2, Constants DEF q
  <2> QED  BY <1>1, <2>1, <2>2, <2>3
<1> QED  BY <1>2, <1>3, Constants DEF Byte

LEMMA DigitsUnique ==
    ASSUME NEW a \in Byte, NEW b \in Byte, NEW c \in Byte, NEW d \in Byte,
           a + Base * b = c + Base * d
    PROVE  a = c /\ b = d
<1> USE Constants DEF Byte
<1>1. ASSUME NEW x \in Byte, NEW y \in Byte, NEW u \in Byte, NEW v \in Byte,
             x + Base * y = u + Base * v
      PROVE  ~ (y < v)
  <2> SUFFICES ASSUME y < v PROVE FALSE
    OBVIOUS
  <2>1. PICK e \in Nat : v = y + 1 + e
    <3> WITNESS v - y - 1 \in Nat
    <3> QED  OBVIOUS
  <2>2. Base * v = Base * y + Base + Base * e /\ Base * e \in Nat
    BY <2>1
  <2> QED  BY <1>1, <2>2
<1>2. b = d
  BY <1>1
<1> QED  BY <1>2

-----------------------------------------------------------------------------
(* Files.                                                                  *)

LEMMA NameSizes ==
    ASSUME NEW name \in Packed PROVE Size(name) \in Sizes /\ name \in Strings(Size(name))
<1>1. PICK n \in 1 .. MaxName : name \in Strings(n)
  BY ProfileConstants
<1>2. DOMAIN name = 0 .. n - 1 /\ n \in Nat \ {0}
  BY <1>1, Constants DEF Strings
<1>3. Cardinality(0 .. n - 1) = n
  BY <1>2, FS_Interval
<1> QED  BY <1>1, <1>2, <1>3 DEF Size, Sizes

LEMMA PlainBytes ==
    ASSUME NEW f \in Files
    PROVE  LET n == Size(f.name)
           IN  /\ n \in Sizes
               /\ DOMAIN Plain(f) = 0 .. InfoSize(n) - 1
               /\ \A i \in 0 .. n - 1 : Plain(f)[i] = f.name[i]
               /\ Plain(f)[n] = n % Base /\ Plain(f)[n + 1] = n \div Base
               /\ \A i \in 0 .. Fields - 1 : Plain(f)[n + 2 + i] = f.scheme[i]
               /\ \A i \in 0 .. KeySize - 1 : Plain(f)[n + 2 + Fields + i] = f.key[i]
               /\ \A i \in 0 .. InfoSize(n) - 1 : Plain(f)[i] \in Byte
<1> DEFINE n == Size(f.name)
<1>1. n \in Sizes /\ f.name \in Strings(n) /\ f.scheme \in Strings(Fields) /\ f.key \in Strings(KeySize)
  BY NameSizes, ProfileConstants DEF Files
<1>2. n \in Nat \ {0} /\ InfoSize(n) = n + 2 + Fields + KeySize
  BY <1>1, Constants DEF Sizes, InfoSize
<1>3. n % Base \in Byte /\ n \div Base \in Byte
  BY <1>1, SizeDigits
<1>4. Plain(f) = [i \in 0 .. InfoSize(n) - 1 |->
                     IF i < n THEN f.name[i]
                     ELSE IF i < n + 2 THEN SizeBytes(n)[i - n + 1]
                     ELSE IF i < n + 2 + Fields THEN f.scheme[i - n - 2]
                     ELSE f.key[i - n - 2 - Fields]]
  BY DEF Plain
<1> HIDE DEF n
<1>5. \A i \in 0 .. n - 1 : Plain(f)[i] = f.name[i]
  BY <1>2, <1>4, Constants
<1>6. Plain(f)[n] = n % Base /\ Plain(f)[n + 1] = n \div Base
  BY <1>2, <1>4, Constants DEF SizeBytes
<1>7. \A i \in 0 .. Fields - 1 : Plain(f)[n + 2 + i] = f.scheme[i]
  BY <1>2, <1>4, Constants
<1>8. \A i \in 0 .. KeySize - 1 : Plain(f)[n + 2 + Fields + i] = f.key[i]
  BY <1>2, <1>4, Constants
<1>9. \A i \in 0 .. InfoSize(n) - 1 : Plain(f)[i] \in Byte
  <2> SUFFICES ASSUME NEW i \in 0 .. InfoSize(n) - 1 PROVE Plain(f)[i] \in Byte
    OBVIOUS
  <2>1. CASE i < n
    BY <2>1, <1>1, <1>2, <1>5 DEF Strings
  <2>2. CASE i = n \/ i = n + 1
    BY <2>2, <1>3, <1>6
  <2>3. CASE i > n + 1 /\ i < n + 2 + Fields
    <3>1. i - n - 2 \in 0 .. Fields - 1 /\ n + 2 + (i - n - 2) = i
      BY <2>3, <1>2, Constants
    <3>2. Plain(f)[i] = f.scheme[i - n - 2]
      BY <3>1, <1>7
    <3> QED  BY <3>1, <3>2, <1>1 DEF Strings
  <2>4. CASE i >= n + 2 + Fields
    <3>1. i - n - 2 - Fields \in 0 .. KeySize - 1 /\ n + 2 + Fields + (i - n - 2 - Fields) = i
      BY <2>4, <1>2, Constants
    <3>2. Plain(f)[i] = f.key[i - n - 2 - Fields]
      BY <3>1, <1>8
    <3> QED  BY <3>1, <3>2, <1>1 DEF Strings
  <2> QED  BY <2>1, <2>2, <2>3, <2>4, <1>2, Constants
<1> QED  BY <1>1, <1>4, <1>5, <1>6, <1>7, <1>8, <1>9, Zenon DEF n

LEMMA EncryptedBytes ==
    ASSUME NEW f \in Files
    PROVE  /\ DOMAIN Encrypted(f) = 0 .. InfoSize(Size(f.name)) - 1
           /\ DOMAIN Encrypted(f) \subseteq Index
           /\ \A i \in DOMAIN Encrypted(f) :
                 /\ Encrypted(f)[i] = Xor(Plain(f)[i], Stream[f.group][i])
                 /\ Encrypted(f)[i] \in Byte
                 /\ Stream[f.group][i] \in Byte
                 /\ Plain(f)[i] \in Byte
<1> DEFINE n == Size(f.name)
<1>1. n \in Nat /\ n <= MaxName
  BY NameSizes, Constants DEF Files, Sizes
<1>2. DOMAIN Encrypted(f) = 0 .. InfoSize(n) - 1
  BY DEF Encrypted
<1>3. 0 .. InfoSize(n) - 1 \subseteq Index
  BY <1>1, Constants DEF Index, InfoSize
<1>4. Stream[f.group] \in [Index -> Byte]
  BY ProfileConstants DEF Files, Strings, Index
<1>5. \A i \in 0 .. InfoSize(n) - 1 : Plain(f)[i] \in Byte
  BY PlainBytes
<1>6. \A i \in 0 .. InfoSize(n) - 1 : Encrypted(f)[i] = Xor(Plain(f)[i], Stream[f.group][i])
  BY DEF Encrypted
<1>7. \A a, b \in Byte : Xor(a, b) \in Byte
  BY ProfileConstants
<1> HIDE DEF n
<1>8. \A i \in 0 .. InfoSize(n) - 1 : Stream[f.group][i] \in Byte
  BY <1>3, <1>4
<1>9. \A i \in 0 .. InfoSize(n) - 1 : Encrypted(f)[i] \in Byte
  BY <1>5, <1>6, <1>7, <1>8
<1> QED  BY <1>2, <1>3, <1>5, <1>6, <1>8, <1>9 DEF n

(* Where a genuine pair has its size, it shows the stream.                 *)
LEMMA GenuineShows ==
    ASSUME NEW p \in Pairs, p.genuine
    PROVE  /\ p.group \in Groups
           /\ {p.name, p.name + 1} \subseteq Index
           /\ \A i \in {p.name, p.name + 1} : Stream[p.group][i] \in Observed(p, i)
           /\ \A i \in Index : Observed(p, i) \subseteq {Stream[p.group][i]}
<1>1. PICK f \in Files : p = [group |-> f.group, name |-> Size(f.name),
                              footer |-> Encrypted(f), fits |-> TRUE, genuine |-> TRUE]
  BY DEF Pairs, GenuinePairs, OtherPairs
<1> DEFINE n == Size(f.name)
<1>2. n \in Sizes /\ Plain(f)[n] = n % Base /\ Plain(f)[n + 1] = n \div Base
  BY PlainBytes
<1>3. n \in Nat /\ n \in DOMAIN Encrypted(f) /\ n + 1 \in DOMAIN Encrypted(f)
  BY <1>2, EncryptedBytes, Constants DEF Sizes, InfoSize
<1>4. p.name = n /\ p.group = f.group /\ p.footer = Encrypted(f) /\ f.group \in Groups
  BY <1>1 DEF Files
<1>5. \A i \in {n, n + 1} : SizeBytes(n)[i - n + 1] = Plain(f)[i]
  BY <1>2, <1>3 DEF SizeBytes
<1>6. \A i \in {n, n + 1} : Xor(Encrypted(f)[i], Plain(f)[i]) = Stream[f.group][i]
  BY <1>3, EncryptedBytes, XorCancels
<1> HIDE DEF n
<1>7. \A i \in {n, n + 1} : Xor(p.footer[i], SizeBytes(p.name)[i - p.name + 1]) = Stream[p.group][i]
  BY <1>4, <1>5, <1>6
<1>8. \A i \in {n, n + 1} : Stream[p.group][i] \in Observed(p, i)
  BY <1>4, <1>7 DEF Observed
<1>9. \A i \in Index : Observed(p, i) \subseteq {Stream[p.group][i]}
  BY <1>4, <1>7 DEF Observed
<1> QED  BY <1>3, <1>4, <1>8, <1>9, EncryptedBytes

LEMMA ObservedBytes ==
    ASSUME NEW p \in Pairs, Agrees(p), NEW i \in Index
    PROVE  p.group \in Groups /\ Observed(p, i) \subseteq Byte
<1>1. p.group \in Groups /\ p.name \in Sizes /\ \A j \in {p.name, p.name + 1} : p.footer[j] \in Byte
  <2>1. CASE p \in GenuinePairs
    <3>1. PICK f \in Files : p.group = f.group /\ p.name = Size(f.name) /\ p.footer = Encrypted(f)
      BY <2>1 DEF GenuinePairs
    <3>2. p.name \in Sizes
      BY <3>1, PlainBytes
    <3>3. p.name \in DOMAIN Encrypted(f) /\ p.name + 1 \in DOMAIN Encrypted(f)
      BY <3>1, <3>2, EncryptedBytes, Constants DEF Sizes, InfoSize
    <3> QED  BY <3>1, <3>2, <3>3, EncryptedBytes DEF Files
  <2>2. CASE p \in OtherPairs
    <3>1. p.group \in Groups /\ p.name \in Sizes /\ p.footer \in Strings(InfoSize(MaxName))
      BY <2>2, Constants, ProfileConstants DEF OtherPairs, Agrees, Sizes
    <3>2. p.name \in 0 .. InfoSize(MaxName) - 1 /\ p.name + 1 \in 0 .. InfoSize(MaxName) - 1
      BY <3>1, Constants DEF Sizes, InfoSize
    <3> QED  BY <3>1, <3>2 DEF Strings
  <2> QED  BY <2>1, <2>2 DEF Pairs
<1>2. \A j \in {p.name, p.name + 1} : SizeBytes(p.name)[j - p.name + 1] \in Byte
  <2>1. p.name \in Nat /\ p.name % Base \in Byte /\ p.name \div Base \in Byte
    BY <1>1, SizeDigits, Constants DEF Sizes
  <2> QED  BY <2>1 DEF SizeBytes
<1> QED  BY <1>1, <1>2, ProfileConstants DEF Observed

-----------------------------------------------------------------------------
(* The invariant.                                                          *)

LEMMA InitInv == Init => ProfileInv
BY DEF Init, ProfileInv, Shown, Array, WitnessOutweighs

LEMMA ReadInv == ASSUME ProfileInv, NEW p \in Pairs, Read(p) PROVE ProfileInv'
<1> USE DEF ProfileInv, Read
<1>1. p.group \in Groups /\ \A i \in Index : Observed(p, i) \subseteq Byte
  <2>1. 0 \in Index
    BY Constants DEF Index, InfoSize
  <2> QED  BY <2>1, ObservedBytes
<1>2. observations' \in [Groups -> [Index -> SUBSET Byte]]
  BY <1>1
<1>3. p.genuine => {p.name, p.name + 1} \subseteq Index
                   /\ \A i \in {p.name, p.name + 1} : Stream[p.group][i] \in Observed(p, i)
  BY GenuineShows
<1>4. witnessed' \in [Groups -> SUBSET Index]
  BY <1>1, <1>3
<1>5. \A g \in Groups : Shown(g)'
  <2> SUFFICES ASSUME NEW g \in Groups, NEW i \in witnessed'[g]
               PROVE  Stream[g][i] \in observations'[g][i]
    BY DEF Shown
  <2>0. witnessed'[g] = IF p.genuine /\ g = p.group THEN witnessed[g] \cup {p.name, p.name + 1}
                        ELSE witnessed[g]
    BY <1>1
  <2>1. \/ Stream[g][i] \in observations[g][i]
        \/ p.genuine /\ g = p.group /\ i \in {p.name, p.name + 1}
    BY <2>0 DEF Shown
  <2>2. i \in Index
    BY <1>4
  <2>3. observations'[g][i] = IF g = p.group THEN observations[g][i] \cup Observed(p, i)
                              ELSE observations[g][i]
    BY <2>2
  <2> QED  BY <2>1, <2>3, <1>3
<1> QED  BY <1>2, <1>4, <1>5 DEF WitnessOutweighs, Shape, Array

LEMMA AnalyseInv == ASSUME ProfileInv, Analyse PROVE ProfileInv'
<1> USE DEF ProfileInv, Analyse
<1> DEFINE G == {h \in Groups : sizes[h] # {}}
<1>1. profiles' = [g \in G |-> Profile(g)]
  OBVIOUS
<1>2. DOMAIN profiles' = G /\ Array(profiles') /\ pc' = "analysed"
  BY DEF Array
<1>3. ASSUME NEW g \in G, NEW i \in Index
      PROVE  /\ Value(observations[g][i]) \in Byte
             /\ Settled(observations[g][i]) /\ i \in witnessed[g]
                   => Value(observations[g][i]) = Stream[g][i]
  <2>1. observations[g][i] \subseteq Byte
    OBVIOUS
  <2>2. i \in witnessed[g] => Stream[g][i] \in observations[g][i]
    BY DEF Shown
  <2>3. CASE Settled(observations[g][i])
    <3>1. PICK v : observations[g][i] = {v}
      BY <2>3 DEF Settled
    <3>2. Value(observations[g][i]) = v
      BY <2>3, <3>1 DEF Value
    <3> QED  BY <2>1, <2>2, <3>1, <3>2
  <2>4. CASE ~ Settled(observations[g][i])
    BY <2>4, Constants DEF Value, Byte
  <2> QED  BY <2>3, <2>4
<1>4. ASSUME NEW g \in G
      PROVE  Shape(g)' /\ \A i \in witnessed[g] \cap DOMAIN profiles'[g].mask :
                             profiles'[g].mask[i] => profiles'[g].stream[i] = Stream[g][i]
  <2> DEFINE L == 0 .. Largest(sizes[g]) - 1
             bytes == [i \in L |-> Value(observations[g][i])]
             known == [i \in L |-> Settled(observations[g][i])]
             p == profiles'[g]
  <2>1. p = [group |-> g, stream |-> bytes, mask |-> known]
    BY <1>1 DEF Profile
  <2> HIDE DEF bytes, known, p
  <2>3. p = [group |-> g, stream |-> p.stream, mask |-> p.mask]
    BY <2>1
  <2>2. /\ p.stream = [i \in L |-> Value(observations[g][i])]
        /\ p.mask = [i \in L |-> Settled(observations[g][i])]
    BY <2>1 DEF bytes, known
  <2> HIDE DEF L
  <2>4. \A i \in L \cap Index : p.stream[i] \in Byte
    BY <2>2, <1>3
  <2>5. Array(p.stream) /\ Array(p.mask) /\ DOMAIN p.stream = L /\ DOMAIN p.mask = L
    BY <2>2, Zenon DEF Array
  <2>6. ASSUME NEW i \in witnessed[g] \cap L, p.mask[i] PROVE p.stream[i] = Stream[g][i]
    <3>1. Settled(observations[g][i])
      BY <2>2, <2>6, Zenon
    <3>2. i \in Index /\ p.stream[i] = Value(observations[g][i])
      BY <2>2
    <3> QED  BY <3>1, <3>2, <1>3
  <2>7. Shape(g)'
    BY <2>3, <2>4, <2>5 DEF Shape, p
  <2> QED  BY <2>5, <2>6, <2>7 DEF p
<1>5. WitnessOutweighs'
  BY <1>2, <1>4 DEF WitnessOutweighs
<1> QED  BY <1>2, <1>4, <1>5

LEMMA SupplyInv ==
    ASSUME ProfileInv, NEW g \in Groups, NEW i \in Supplied, Supply(g, i) PROVE ProfileInv'
<1> USE DEF ProfileInv, Supply
<1> DEFINE p == profiles[g]
<1>1. Shape(g) /\ i \in Index /\ Stream[g][i] \in Byte
  <2>1. i \in Index /\ Stream \in [Groups -> [Index -> Byte]]
    BY ProfileConstants DEF Strings, Index
  <2>2. Shape(g)
    OBVIOUS
  <2> QED  BY <2>1, <2>2
<1> DEFINE new == [group |-> g, stream |-> [p.stream EXCEPT ![i] = Stream[g][i]],
                   mask |-> [p.mask EXCEPT ![i] = TRUE]]
<1>9. profiles' = [profiles EXCEPT ![g] = new] /\ g \in DOMAIN profiles
  OBVIOUS
<1>10. new.stream = [p.stream EXCEPT ![i] = Stream[g][i]] /\ new.mask = [p.mask EXCEPT ![i] = TRUE]
       /\ new = [group |-> g, stream |-> new.stream, mask |-> new.mask]
  OBVIOUS
<1> HIDE DEF new
<1>2. /\ DOMAIN profiles' = DOMAIN profiles /\ Array(profiles')
      /\ \A h \in DOMAIN profiles : h # g => profiles'[h] = profiles[h]
  BY <1>9, Zenon DEF Array
<1>3. profiles'[g] = new
  BY <1>9
<1>4. Shape(g)'
  <2>1. /\ DOMAIN new.stream = DOMAIN p.stream /\ DOMAIN new.mask = DOMAIN p.mask
        /\ Array(new.stream) /\ Array(new.mask)
    BY <1>10, Zenon DEF Array
  <2>2. \A j \in DOMAIN p.stream \cap Index : new.stream[j] \in Byte
    BY <1>1, <1>10 DEF Shape
  <2> QED  BY <1>1, <1>3, <1>10, <2>1, <2>2 DEF Shape
<1>5. ASSUME NEW h \in DOMAIN profiles' PROVE Shape(h)'
  <2>1. CASE h = g
    BY <2>1, <1>4
  <2>2. CASE h # g
    <3>1. profiles'[h] = profiles[h] /\ Shape(h)
      BY <2>2, <1>2
    <3> QED  BY <3>1 DEF Shape
  <2> QED  BY <2>1, <2>2
<1>6. witnessed' \in [Groups -> SUBSET Index]
  BY <1>1
<1>7. WitnessOutweighs'
  <2> SUFFICES ASSUME NEW h \in DOMAIN profiles',
                      NEW j \in witnessed'[h] \cap DOMAIN profiles'[h].mask,
                      profiles'[h].mask[j]
               PROVE  profiles'[h].stream[j] = Stream[h][j]
    BY DEF WitnessOutweighs
  <2>1. CASE h # g
    BY <2>1, <1>2 DEF WitnessOutweighs
  <2>2. CASE h = g /\ j # i
    BY <2>2, <1>1, <1>3, <1>10 DEF WitnessOutweighs, Shape
  <2>3. CASE h = g /\ j = i
    BY <2>3, <1>1, <1>3, <1>10 DEF Shape
  <2> QED  BY <2>1, <2>2, <2>3
<1>8. pc = "analysed"
  OBVIOUS
<1> QED  BY <1>2, <1>5, <1>6, <1>7, <1>8

LEMMA NextInv == ProfileInv /\ [Next]_vars => ProfileInv'
<1> SUFFICES ASSUME ProfileInv, [Next]_vars PROVE ProfileInv'
  OBVIOUS
<1>1. CASE UNCHANGED vars
  BY <1>1 DEF vars, ProfileInv, Shown, Array, Shape, WitnessOutweighs
<1>2. ASSUME NEW p \in Pairs, Read(p) PROVE ProfileInv'
  BY <1>2, ReadInv
<1>3. ASSUME NEW p \in Pairs, Refuse(p) PROVE ProfileInv'
  BY <1>3 DEF Refuse, ProfileInv, Shown, Array, Shape, WitnessOutweighs
<1>4. CASE Analyse
  BY <1>4, AnalyseInv
<1>5. ASSUME NEW g \in Groups, NEW i \in Supplied, Supply(g, i) PROVE ProfileInv'
  BY <1>5, SupplyInv
<1> QED  BY <1>1, <1>2, <1>3, <1>4, <1>5 DEF Next

(* The invariant holds for any archive (pairs.py:138-178).                 *)
THEOREM ProfileInvariant == Spec => []ProfileInv
BY InitInv, NextInv, PTL DEF Spec

(* No byte of a profile that a genuine pair has shown is wrong, however    *)
(* many other pairs there are (pairs.py:173-178).                          *)
THEOREM ProfileHoldsTruth == Spec => []WitnessOutweighs
<1>1. ProfileInv => WitnessOutweighs
  BY DEF ProfileInv
<1> QED  BY <1>1, ProfileInvariant, PTL

-----------------------------------------------------------------------------
(* What decode_info accepts.                                               *)

(* The parts of a text that agrees with a file's metadata are the file's. *)
LEMMA SlicesTrue ==
    ASSUME NEW f \in Files, NEW C
    PROVE  LET n == Size(f.name)
           IN  /\ (\A i \in Places(0, n) : C[i] = Plain(f)[i]) => Slice(C, 0, n) = f.name
               /\ (\A i \in Places(n + 2, Fields + KeySize) : C[i] = Plain(f)[i]) =>
                     Slice(C, n + 2, Fields) = f.scheme /\ Slice(C, n + 2 + Fields, KeySize) = f.key
<1>0. Fields \in Nat \ {0} /\ KeySize \in Nat \ {0}
  BY Constants
<1>1. PICK n : n = Size(f.name)
  OBVIOUS
<1>2. n \in Nat \ {0}
  BY <1>1, PlainBytes, Constants DEF Sizes
<1>3. ASSUME \A i \in Places(0, n) : C[i] = Plain(f)[i]
      PROVE  Slice(C, 0, n) = f.name
  <2>1. \A i \in 0 .. n - 1 : i \in Places(0, n) /\ 0 + i = i
    BY <1>2 DEF Places
  <2>2. \A i \in 0 .. n - 1 : C[0 + i] = f.name[i]
    BY <1>1, <1>3, <2>1, PlainBytes
  <2>3. f.name = [i \in 0 .. n - 1 |-> f.name[i]]
    BY <1>1, NameSizes DEF Files, Strings
  <2> QED
    BY <2>2, <2>3, Zenon DEF Slice
<1>4. ASSUME \A i \in Places(n + 2, Fields + KeySize) : C[i] = Plain(f)[i]
      PROVE  Slice(C, n + 2, Fields) = f.scheme
  <2>1. \A i \in 0 .. Fields - 1 : n + 2 + i \in Places(n + 2, Fields + KeySize)
    BY <1>0, <1>2 DEF Places
  <2>2. \A i \in 0 .. Fields - 1 : C[n + 2 + i] = f.scheme[i]
    BY <1>1, <1>4, <2>1, PlainBytes
  <2>3. f.scheme = [i \in 0 .. Fields - 1 |-> f.scheme[i]]
    BY ProfileConstants DEF Files, Strings
  <2> QED
    BY <2>2, <2>3, Zenon DEF Slice
<1>5. ASSUME \A i \in Places(n + 2, Fields + KeySize) : C[i] = Plain(f)[i]
      PROVE  Slice(C, n + 2 + Fields, KeySize) = f.key
  <2>1. \A i \in 0 .. KeySize - 1 : n + 2 + Fields + i \in Places(n + 2, Fields + KeySize)
    BY <1>0, <1>2 DEF Places
  <2>2. \A i \in 0 .. KeySize - 1 : C[n + 2 + Fields + i] = f.key[i]
    BY <1>1, <1>5, <2>1, PlainBytes
  <2>3. f.key = [i \in 0 .. KeySize - 1 |-> f.key[i]]
    BY ProfileConstants DEF Files, Strings
  <2> QED
    BY <2>2, <2>3, Zenon DEF Slice
<1> QED
  BY <1>1, <1>3, <1>4, <1>5

LEMMA AcceptedTruth ==
    ASSUME ProfileInv, NEW g \in DOMAIN profiles, NEW f \in Files, NEW expected,
           NEW allow \in BOOLEAN,
           Accepts(profiles[g], f, expected, allow),
           Places(Size(f.name) + 2, Fields + KeySize) \subseteq witnessed[g],
           NameVerified(profiles[g], f) => Places(0, Size(f.name)) \subseteq witnessed[g]
    PROVE  LET p == profiles[g]
           IN  /\ Scheme(p, f) = f.scheme /\ Key(p, f) = f.key
               /\ NameVerified(p, f) => expected = Unpack[f.name]
               /\ \A i \in Required(f, allow) : p.stream[i] = Stream[f.group][i]
<1> DEFINE p == profiles[g]
           n == Size(f.name)
           D == DOMAIN Encrypted(f)
           C == Clear(p, f)
<1>0. Fields \in Nat \ {0} /\ KeySize \in Nat \ {0} /\ Fixed = 2 + Fields + KeySize
  BY Constants
<1>1. n \in Nat \ {0} /\ n \in Sizes /\ D = 0 .. n + 2 + Fields + KeySize - 1 /\ D \subseteq Index
  BY PlainBytes, EncryptedBytes, <1>0, Constants DEF Sizes, InfoSize
<1>2. Shape(g) /\ f.group = g
  BY DEF ProfileInv, Accepts, OfGroup, Shape
<1>3. D \subseteq DOMAIN p.stream /\ DOMAIN p.stream = DOMAIN p.mask
      /\ \A i \in D : p.stream[i] \in Byte
  BY <1>1, <1>2 DEF Accepts, LongEnough, Shape
<1>4. /\ \A i \in D : C[i] = Xor(Encrypted(f)[i], p.stream[i]) /\ C[i] \in Byte
      /\ \A i \in D : Xor(Encrypted(f)[i], Stream[g][i]) = Plain(f)[i]
  <2>1. \A i \in D : C[i] = Xor(Encrypted(f)[i], p.stream[i])
    BY DEF Clear
  <2>2. \A i \in D : Encrypted(f)[i] \in Byte /\ Stream[g][i] \in Byte /\ Plain(f)[i] \in Byte
                     /\ Encrypted(f)[i] = Xor(Plain(f)[i], Stream[g][i])
    BY <1>2, EncryptedBytes
  <2> HIDE DEF C, D, p
  <2> QED  BY <2>1, <2>2, <1>3, ProfileConstants
<1>5. ASSUME NEW i \in D, p.stream[i] = Stream[g][i] PROVE C[i] = Plain(f)[i]
  BY <1>4, <1>5
<1>6. ASSUME NEW i \in D, C[i] = Plain(f)[i] PROVE p.stream[i] = Stream[g][i]
  <2>1. Xor(Encrypted(f)[i], p.stream[i]) = Xor(Encrypted(f)[i], Stream[g][i])
    BY <1>4, <1>6
  <2>2. Encrypted(f)[i] \in Byte /\ p.stream[i] \in Byte /\ Stream[g][i] \in Byte
    BY <1>2, <1>3, EncryptedBytes
  <2> HIDE DEF p
  <2> QED  BY <2>1, <2>2, XorInjective
<1>7. Known(p, Places(n, Fixed))
  <2>1. Places(n, Fixed) \subseteq Required(f, allow)
    BY <1>0, <1>1 DEF Places, Required, InfoSize
  <2> QED  BY <2>1 DEF Accepts, Known
<1>8. ASSUME NEW i \in D \cap witnessed[g], p.mask[i] PROVE p.stream[i] = Stream[g][i]
  BY <1>3, <1>8 DEF ProfileInv, WitnessOutweighs
<1>9. \A i \in Places(n + 2, Fields + KeySize) : i \in D /\ p.stream[i] = Stream[g][i]
  <2>1. \A i \in Places(n + 2, Fields + KeySize) : i \in D /\ i \in Places(n, Fixed)
    BY <1>0, <1>1 DEF Places
  <2> QED  BY <2>1, <1>7, <1>8 DEF Known
<1>10. n \in D /\ n + 1 \in D /\ p.stream[n] = Stream[g][n] /\ p.stream[n + 1] = Stream[g][n + 1]
  <2>1. n \in D /\ n + 1 \in D
    BY <1>0, <1>1
  <2>2. C[n] + Base * C[n + 1] = n
    BY DEF Accepts, SizeMatches
  <2>3. /\ Plain(f)[n] = n % Base /\ Plain(f)[n + 1] = n \div Base
        /\ n % Base \in Byte /\ n \div Base \in Byte /\ n = (n % Base) + Base * (n \div Base)
    BY <1>1, PlainBytes, SizeDigits
  <2>4. C[n] = n % Base /\ C[n + 1] = n \div Base
    <3>1. C[n] \in Byte /\ C[n + 1] \in Byte
      BY <2>1, <1>4
    <3> HIDE DEF C, n
    <3> QED  BY <2>2, <2>3, <3>1, DigitsUnique
  <2> QED  BY <2>1, <2>3, <2>4, <1>6
<1>11. NameVerified(p, f) => \A i \in Places(0, n) : i \in D /\ p.stream[i] = Stream[g][i]
  <2>1. \A i \in Places(0, n) : i \in D
    BY <1>0, <1>1 DEF Places
  <2> QED  BY <2>1, <1>8 DEF NameVerified, Known
<1>12. Scheme(p, f) = f.scheme /\ Key(p, f) = f.key
  <2>1. \A i \in Places(n + 2, Fields + KeySize) : C[i] = Plain(f)[i]
    BY <1>5, <1>9
  <2> QED
    BY <2>1, SlicesTrue DEF Scheme, Key
<1>14. NameVerified(p, f) => expected = Unpack[f.name]
  <2> SUFFICES ASSUME NameVerified(p, f) PROVE expected = Unpack[f.name]
    OBVIOUS
  <2>1. \A i \in Places(0, n) : C[i] = Plain(f)[i]
    BY <1>5, <1>11
  <2>2. Slice(C, 0, n) = f.name
    BY <2>1, SlicesTrue
  <2>3. Unpack[Slice(C, 0, n)] = expected
    BY DEF Accepts, NameMatches
  <2> QED  BY <2>2, <2>3
<1>15. \A i \in Required(f, allow) : p.stream[i] = Stream[g][i]
  <2> SUFFICES ASSUME NEW i \in Required(f, allow) PROVE p.stream[i] = Stream[g][i]
    OBVIOUS
  <2>1. CASE i \in Places(n, Fixed)
    <3>1. i \in {n, n + 1} \/ i \in Places(n + 2, Fields + KeySize)
      BY <2>1, <1>0, <1>1 DEF Places
    <3> QED  BY <3>1, <1>9, <1>10
  <2>2. CASE i \notin Places(n, Fixed)
    <3>1. ~ allow /\ i \in Places(0, n)
      BY <2>2, <1>0, <1>1 DEF Places, Required, InfoSize
    <3>2. Places(0, n) \subseteq Required(f, allow)
      BY <3>1, <1>0, <1>1 DEF Places, Required, InfoSize
    <3>3. NameVerified(p, f)
      BY <3>2 DEF Accepts, Known, NameVerified
    <3> QED  BY <3>1, <3>3, <1>11
  <2> QED  BY <2>1, <2>2
<1> QED  BY <1>2, <1>12, <1>14, <1>15

(* What decode_info accepts is the truth, if the scheme, the key and a     *)
(* verified name come from places that genuine pairs have shown            *)
(* (core.py:71-107).                                                       *)
THEOREM DecodedIsTrue == Spec => []AcceptedIsTrue
<1>1. ProfileInv => AcceptedIsTrue
  <2> SUFFICES ASSUME ProfileInv, NEW g \in DOMAIN profiles, NEW f \in Files,
                      NEW expected \in Names, NEW allow \in BOOLEAN,
                      Accepts(profiles[g], f, expected, allow),
                      Places(Size(f.name) + 2, Fields + KeySize) \subseteq witnessed[profiles[g].group],
                      NameVerified(profiles[g], f)
                          => Places(0, Size(f.name)) \subseteq witnessed[profiles[g].group]
               PROVE  LET p == profiles[g]
                      IN  /\ Scheme(p, f) = f.scheme /\ Key(p, f) = f.key
                          /\ NameVerified(p, f) => expected = Unpack[f.name]
                          /\ \A i \in Required(f, allow) : p.stream[i] = Stream[f.group][i]
    BY DEF AcceptedIsTrue
  <2>1. profiles[g].group = g
    BY DEF ProfileInv, Shape
  <2> QED  BY <2>1, AcceptedTruth
<1> QED  BY <1>1, ProfileInvariant, PTL

-----------------------------------------------------------------------------
(* What genuine pairs are good for.                                        *)

(* Of a group without other pairs nothing wrong is known, and everything   *)
(* that was shown is.                                                      *)
Unspoiled(g) ==
    /\ pc # "analysed" => \A i \in Index : observations[g][i] \subseteq {Stream[g][i]}
    /\ g \in DOMAIN profiles =>
          \A i \in Index \cap DOMAIN profiles[g].mask :
              /\ i \in witnessed[g] => profiles[g].mask[i]
              /\ profiles[g].mask[i] => profiles[g].stream[i] = Stream[g][i]

UnspoiledInv == \A g \in Groups \ doubted : Unspoiled(g)

LEMMA UnspoiledInit == Init => UnspoiledInv
BY DEF Init, UnspoiledInv, Unspoiled

LEMMA UnspoiledRead ==
    ASSUME ProfileInv, UnspoiledInv, NEW p \in Pairs, Read(p) PROVE UnspoiledInv'
<1> SUFFICES ASSUME NEW g \in Groups \ doubted' PROVE Unspoiled(g)'
  BY DEF UnspoiledInv
<1>1. /\ g \notin doubted /\ pc = "reading" /\ pc' = pc /\ DOMAIN profiles' = {}
      /\ p.group = g => p.genuine
  BY DEF Read, ProfileInv
<1>2. \A i \in Index : observations[g][i] \subseteq {Stream[g][i]}
  BY <1>1 DEF UnspoiledInv, Unspoiled
<1>3. observations'[g] =
         IF g = p.group THEN [i \in Index |-> observations[g][i] \cup Observed(p, i)] ELSE observations[g]
  BY DEF Read, ProfileInv
<1>4. \A i \in Index : observations'[g][i] \subseteq {Stream[g][i]}
  BY <1>1, <1>2, <1>3, GenuineShows
<1> QED
  BY <1>1, <1>4 DEF Unspoiled

LEMMA UnspoiledAnalyse ==
    ASSUME ProfileInv, UnspoiledInv, Analyse PROVE UnspoiledInv'
<1> SUFFICES ASSUME NEW g \in Groups \ doubted' PROVE Unspoiled(g)'
  BY DEF UnspoiledInv
<1>1. g \in Groups \ doubted /\ pc = "reading" /\ pc' = "analysed" /\ witnessed' = witnessed
  BY DEF Analyse
<1>2. /\ \A i \in Index : observations[g][i] \subseteq {Stream[g][i]}
      /\ \A i \in witnessed[g] : Stream[g][i] \in observations[g][i]
  BY <1>1 DEF UnspoiledInv, Unspoiled, ProfileInv, Shown
<1>3. ASSUME NEW i \in Index
      PROVE  /\ i \in witnessed[g] => Settled(observations[g][i])
             /\ Settled(observations[g][i]) => Value(observations[g][i]) = Stream[g][i]
  <2>1. i \in witnessed[g] => observations[g][i] = {Stream[g][i]}
    BY <1>2
  <2>2. ASSUME Settled(observations[g][i])
        PROVE  Value(observations[g][i]) = Stream[g][i]
    <3>1. PICK v : observations[g][i] = {v}
      BY <2>2 DEF Settled
    <3>2. v = Stream[g][i]
      BY <1>2, <3>1
    <3> QED
      BY <2>2, <3>1, <3>2 DEF Value
  <2> QED
    BY <2>1, <2>2 DEF Settled
<1>4. ASSUME g \in DOMAIN profiles', NEW i \in Index \cap DOMAIN profiles'[g].mask
      PROVE  /\ i \in witnessed[g] => profiles'[g].mask[i]
             /\ profiles'[g].mask[i] => profiles'[g].stream[i] = Stream[g][i]
  <2>1. profiles'[g] = Profile(g)
    BY <1>4 DEF Analyse
  <2>2. PICK L : L = 0 .. Largest(sizes[g]) - 1
    OBVIOUS
  <2>3. /\ profiles'[g].mask = [j \in L |-> Settled(observations[g][j])]
        /\ profiles'[g].stream = [j \in L |-> Value(observations[g][j])]
    BY <2>1, <2>2 DEF Profile
  <2>4. i \in L /\ i \in Index
    BY <1>4, <2>3
  <2>5. profiles'[g].stream[i] = Value(observations[g][i])
    BY <2>3, <2>4
  <2>6. profiles'[g].mask[i] <=> Settled(observations[g][i])
    BY <2>3, <2>4, Zenon
  <2> QED
    BY <1>3, <2>4, <2>5, <2>6
<1> QED
  BY <1>1, <1>4 DEF Unspoiled

LEMMA UnspoiledSupply ==
    ASSUME ProfileInv, UnspoiledInv, NEW h \in Groups, NEW k \in Supplied, Supply(h, k)
    PROVE  UnspoiledInv'
<1> SUFFICES ASSUME NEW g \in Groups \ doubted' PROVE Unspoiled(g)'
  BY DEF UnspoiledInv
<1>1. /\ g \in Groups \ doubted /\ Unspoiled(g)
      /\ pc' = pc /\ observations' = observations
      /\ h \in DOMAIN profiles /\ witnessed \in [Groups -> SUBSET Index]
  BY DEF Supply, UnspoiledInv, ProfileInv
<1>2. CASE g # h
  <2>1. profiles'[g] = profiles[g] /\ witnessed'[g] = witnessed[g] /\ DOMAIN profiles' = DOMAIN profiles
    BY <1>1, <1>2 DEF Supply
  <2> QED
    BY <1>1, <2>1 DEF Unspoiled
<1>3. CASE g = h
  <2>1. PICK p : p = profiles[h]
    OBVIOUS
  <2>2. DOMAIN p.stream = DOMAIN p.mask /\ k \in DOMAIN p.mask
    BY <1>1, <2>1 DEF ProfileInv, Shape, Supply
  <2>3. /\ profiles'[g].stream = [p.stream EXCEPT ![k] = Stream[g][k]]
        /\ profiles'[g].mask = [p.mask EXCEPT ![k] = TRUE]
        /\ witnessed'[g] = witnessed[g] \cup {k}
    BY <1>1, <1>3, <2>1 DEF Supply
  <2>4. ASSUME NEW i \in Index \cap DOMAIN profiles'[g].mask
        PROVE  /\ i \in witnessed'[g] => profiles'[g].mask[i]
               /\ profiles'[g].mask[i] => profiles'[g].stream[i] = Stream[g][i]
    <3>1. i \in DOMAIN p.mask
      BY <2>3
    <3>2. CASE i = k
      BY <2>2, <2>3, <3>2
    <3>3. CASE i # k
      <4>1. profiles'[g].mask[i] = p.mask[i]
        BY <2>3, <3>1, <3>3, Zenon
      <4>2. profiles'[g].stream[i] = p.stream[i]
        BY <2>2, <2>3, <3>1, <3>3
      <4> QED
        BY <1>1, <1>3, <2>1, <2>3, <3>1, <3>3, <4>1, <4>2 DEF Unspoiled
    <3> QED
      BY <3>2, <3>3
  <2> QED
    BY <1>1, <2>4 DEF Unspoiled
<1> QED
  BY <1>2, <1>3

LEMMA UnspoiledNext == ProfileInv /\ UnspoiledInv /\ [Next]_vars => UnspoiledInv'
<1> SUFFICES ASSUME ProfileInv, UnspoiledInv, [Next]_vars PROVE UnspoiledInv'
  OBVIOUS
<1>1. CASE UNCHANGED vars
  BY <1>1 DEF vars, UnspoiledInv, Unspoiled
<1>2. ASSUME NEW p \in Pairs, Read(p) PROVE UnspoiledInv'
  BY <1>2, UnspoiledRead
<1>3. ASSUME NEW p \in Pairs, Refuse(p) PROVE UnspoiledInv'
  BY <1>3 DEF Refuse, UnspoiledInv, Unspoiled
<1>4. CASE Analyse
  BY <1>4, UnspoiledAnalyse
<1>5. ASSUME NEW g \in Groups, NEW i \in Supplied, Supply(g, i) PROVE UnspoiledInv'
  BY <1>5, UnspoiledSupply
<1> QED
  BY <1>1, <1>2, <1>3, <1>4, <1>5 DEF Next

LEMMA SufficientTruth ==
    ASSUME ProfileInv, UnspoiledInv, NEW g \in DOMAIN profiles \ doubted, NEW f \in Files, f.group = g,
           NEW allow \in BOOLEAN,
           Required(f, allow) \subseteq witnessed[g],
           LongEnough(profiles[g], f),
           f.scheme \in ValidSchemes
    PROVE  Accepts(profiles[g], f, Unpack[f.name], allow)
<1> DEFINE p == profiles[g]
           n == Size(f.name)
           D == DOMAIN Encrypted(f)
           C == Clear(p, f)
<1>0. Fields \in Nat \ {0} /\ KeySize \in Nat \ {0} /\ Fixed = 2 + Fields + KeySize
  BY Constants
<1>1. n \in Nat \ {0} /\ n \in Sizes /\ D = 0 .. n + 2 + Fields + KeySize - 1 /\ D \subseteq Index
  BY PlainBytes, EncryptedBytes, <1>0, Constants DEF Sizes, InfoSize
<1>2. Shape(g) /\ p.group = g /\ g \in Groups
  BY DEF ProfileInv, Shape
<1>3. D \subseteq DOMAIN p.mask
  BY <1>2 DEF LongEnough, Shape
<1>4. /\ \A i \in D : i \in witnessed[g] => p.mask[i]
      /\ \A i \in D : p.mask[i] => p.stream[i] = Stream[g][i]
  BY <1>1, <1>2, <1>3 DEF UnspoiledInv, Unspoiled
<1>5. ASSUME NEW i \in D, p.mask[i]
      PROVE  C[i] = Plain(f)[i]
  <2>1. C[i] = Xor(Encrypted(f)[i], Stream[g][i])
    BY <1>4, <1>5 DEF Clear
  <2>2. /\ Encrypted(f)[i] = Xor(Plain(f)[i], Stream[g][i])
        /\ Plain(f)[i] \in Byte /\ Stream[g][i] \in Byte
    BY EncryptedBytes
  <2> HIDE DEF C, D, p
  <2> QED
    BY <2>1, <2>2, ProfileConstants
<1>6. /\ Required(f, allow) \subseteq D /\ Places(n, Fixed) \subseteq Required(f, allow)
      /\ Places(n + 2, Fields + KeySize) \subseteq Places(n, Fixed)
      /\ n \in Places(n, Fixed) /\ n + 1 \in Places(n, Fixed)
  <2> HIDE DEF p, C, D
  <2>1. PICK s \in Nat \ {0} : s = n
    BY <1>1
  <2>2. PICK a \in Nat \ {0}, b \in Nat \ {0} : a = Fields /\ b = KeySize
    BY <1>0
  <2>3. /\ D = 0 .. s + 2 + a + b - 1 /\ InfoSize(n) = s + (2 + a + b)
        /\ Places(n, Fixed) = s .. s + (2 + a + b) - 1
        /\ Places(n + 2, Fields + KeySize) = s + 2 .. s + 2 + (a + b) - 1
    BY <1>0, <1>1, <2>1, <2>2, Zenon DEF Places, InfoSize
  <2>4. Required(f, allow) = Places(n, Fixed) \/ Required(f, allow) = 0 .. 0 + (s + (2 + a + b)) - 1
    BY <2>3, Zenon DEF Required, Places
  <2>5. /\ s .. s + (2 + a + b) - 1 \subseteq 0 .. 0 + (s + (2 + a + b)) - 1
        /\ 0 .. 0 + (s + (2 + a + b)) - 1 = 0 .. s + 2 + a + b - 1
    OBVIOUS
  <2>6. /\ s + 2 .. s + 2 + (a + b) - 1 \subseteq s .. s + (2 + a + b) - 1
        /\ s \in s .. s + (2 + a + b) - 1 /\ s + 1 \in s .. s + (2 + a + b) - 1
    OBVIOUS
  <2>7. Required(f, allow) \subseteq D /\ Places(n, Fixed) \subseteq Required(f, allow)
    BY <2>3, <2>4, <2>5
  <2> QED
    BY <2>1, <2>3, <2>6, <2>7, Zenon
<1>7. \A i \in Required(f, allow) : i \in D /\ p.mask[i]
  BY <1>4, <1>6
<1>8. \A i \in Required(f, allow) : C[i] = Plain(f)[i]
  BY <1>5, <1>7
<1>9. Known(p, Required(f, allow))
  BY <1>7 DEF Known
<1>10. SizeMatches(p, f)
  <2>1. C[n] = n % Base /\ C[n + 1] = n \div Base
    BY <1>6, <1>8, PlainBytes
  <2>2. n = (n % Base) + Base * (n \div Base)
    BY <1>1, SizeDigits
  <2> HIDE DEF C, n
  <2>3. C[n] + Base * C[n + 1] = n
    BY <2>1, <2>2
  <2> QED
    BY <2>3 DEF SizeMatches, C, n
<1>11. Scheme(p, f) = f.scheme
  <2>1. \A i \in Places(n + 2, Fields + KeySize) : C[i] = Plain(f)[i]
    BY <1>6, <1>8
  <2> QED
    BY <2>1, SlicesTrue DEF Scheme
<1>12. NameMatches(p, f, Unpack[f.name])
  <2> SUFFICES ASSUME NameVerified(p, f)
               PROVE  Slice(C, 0, n) \in Packed /\ Unpack[Slice(C, 0, n)] = Unpack[f.name]
    BY DEF NameMatches
  <2>1. \A i \in Places(0, n) : i \in D
    BY <1>0, <1>1 DEF Places
  <2>2. \A i \in Places(0, n) : C[i] = Plain(f)[i]
    BY <1>5, <2>1 DEF NameVerified, Known
  <2>3. Slice(C, 0, n) = f.name
    BY <2>2, SlicesTrue
  <2> QED
    BY <2>3 DEF Files
<1> QED
  BY <1>2, <1>9, <1>10, <1>11, <1>12 DEF Accepts, OfGroup

(* Genuine pairs never contradict each other, and a file all of whose      *)
(* places they have shown is decoded, for any streams, sizes and archives  *)
(* (pairs.py:154-155, 173-176, core.py:82-107).                            *)
THEOREM GenuinePairsSuffice == Spec => []GenuineSuffices
<1>1. Spec => []UnspoiledInv
  BY UnspoiledInit, UnspoiledNext, ProfileInvariant, PTL DEF Spec
<1>2. ProfileInv /\ UnspoiledInv => GenuineSuffices
  BY SufficientTruth DEF GenuineSuffices
<1> QED
  BY <1>1, <1>2, ProfileInvariant, PTL

-----------------------------------------------------------------------------
(* The calls of main.                                                      *)

Calls ==
    [pc : {"profile", "pairs", "file", "emit", "write", "exit"}, command : Commands,
     toFile : BOOLEAN, results : Seq(BOOLEAN), made : BOOLEAN, code : {0, 1, 2}]

(* It has done what its command asks for. *)
Accomplished(c, pairs) ==
    IF c.command = "decrypt" THEN c.made ELSE Len(c.results) = Len(pairs)

(* A call's results are those of the pairs that it has taken, and only one *)
(* that has seen all of them goes on to its report or to exit 0.           *)
Faithful(c, pairs) ==
    /\ c.command = "decrypt" => ~ c.toFile /\ c.pc # "pairs"
    /\ c.pc = "file" => c.command = "decrypt"
    /\ Len(c.results) <= Len(pairs)
    /\ \A i \in 1 .. Len(c.results) :
          Usable(c, pairs[i]) /\ (c.results[i] <=> Matches(pairs[i]))
    /\ c.pc \in {"emit", "write"} => Accomplished(c, pairs)
    /\ c.pc = "exit" /\ c.code = 0 => Accomplished(c, pairs) /\ Code(c) = 0

Report(p, c, whole) ==
    [of |-> p, command |-> c.command, results |-> c.results, whole |-> whole]

Claims(c) == c.pc = "write" \/ (c.pc = "exit" /\ c.code = 0 /\ c.toFile)

(* Who has created the report keeps the path: without this, a second call  *)
(* could take one that is not yet written.                                 *)
Keeps(p, c, r) == Claims(c) => c.toFile /\ r = Report(p, c, c.pc = "exit")

MainInv ==
    /\ archive \in Archives
    /\ call \in [Procs -> Calls]
    /\ \A p \in Procs : Faithful(call[p], archive) /\ Keeps(p, call[p], report)
    /\ ReportTrue

LEMMA ArchiveFacts ==
    ASSUME archive \in Archives
    PROVE  /\ archive \in Seq(Pair) /\ Len(archive) \in Nat
           /\ DOMAIN archive = 1 .. Len(archive)
           /\ \A i \in DOMAIN archive : archive[i] \in Pair
<1>1. PICK n \in 1 .. MaxListed : archive \in [1 .. n -> Pair]
  BY DEF Archives
<1>2. n \in Nat
  BY <1>1, CommandConstants
<1> QED
  BY <1>1, <1>2

LEMMA MainInitially == MainInit => MainInv
<1> SUFFICES ASSUME MainInit PROVE MainInv
  OBVIOUS
<1>1. archive \in Archives /\ report \in {NoFile, UsersFile}
  BY DEF MainInit
<1>2. Len(archive) \in Nat
  BY <1>1, ArchiveFacts
<1>3. ASSUME NEW p \in Procs
      PROVE  \E c \in Commands, f \in BOOLEAN : call[p] = NewCall(c, f)
  BY DEF MainInit
<1>4. ASSUME NEW p \in Procs
      PROVE  /\ call[p] \in Calls
             /\ call[p].pc \in {"profile", "pairs"}
             /\ call[p].results = <<>>
             /\ call[p].command = "decrypt" => call[p].pc # "pairs"
  <2>1. PICK c \in Commands, f \in BOOLEAN : call[p] = NewCall(c, f)
    BY <1>3
  <2>2. <<>> \in Seq(BOOLEAN)
    OBVIOUS
  <2> QED
    BY <2>1, <2>2 DEF NewCall, Calls, Commands
<1>5. call \in [Procs -> Calls]
  <2>1. call \in [Procs -> {NewCall(c, f) : c \in Commands, f \in BOOLEAN}]
    BY DEF MainInit
  <2> QED
    BY <2>1, <1>4
<1>6. ASSUME NEW p \in Procs PROVE Faithful(call[p], archive) /\ Keeps(p, call[p], report)
  BY <1>2, <1>4 DEF Faithful, Keeps, Claims, MainInit
<1>7. ReportTrue
  BY <1>1 DEF ReportTrue
<1> QED
  BY <1>1, <1>4, <1>5, <1>6, <1>7 DEF MainInv

-----------------------------------------------------------------------------
(* A step changes one call, and takes the path of no other.                *)
LEMMA OneCall ==
    ASSUME MainInv, NEW p \in Procs, NEW c \in Calls, Step(p, c),
           Faithful(c, archive), Keeps(p, c, report'),
           \A q \in Procs \ {p} : Claims(call[q]) => report' = report,
           ReportTrue'
    PROVE  MainInv'
<1>1. archive' = archive /\ archive \in Archives /\ call \in [Procs -> Calls]
  BY DEF Step, MainInv
<1>2. call' \in [Procs -> Calls] /\ call'[p] = c
  BY <1>1 DEF Step
<1>3. ASSUME NEW q \in Procs
      PROVE  Faithful(call'[q], archive') /\ Keeps(q, call'[q], report')
  <2>1. CASE q = p
    BY <1>1, <1>2, <2>1
  <2>2. CASE q # p
    <3>1. call'[q] = call[q]
      BY <1>1, <2>2 DEF Step
    <3>2. Faithful(call[q], archive) /\ Keeps(q, call[q], report)
      BY DEF MainInv
    <3>3. Keeps(q, call[q], report')
      BY <2>2, <3>2 DEF Keeps
    <3> QED
      BY <1>1, <3>1, <3>2, <3>3
  <2> QED
    BY <2>1, <2>2
<1> QED
  BY <1>1, <1>2, <1>3 DEF MainInv

LEMMA PathKept ==
    ASSUME MainInv, NEW p \in Procs, NEW c \in Calls, Step(p, c),
           Faithful(c, archive), ~ Claims(c), UNCHANGED report
    PROVE  MainInv'
<1>1. Keeps(p, c, report')
  BY DEF Keeps
<1>2. ReportTrue'
  BY DEF ReportTrue, MainInv, Step
<1> QED
  BY <1>1, <1>2, OneCall

(* main returns 2 for an error, and 1 is the exit of a call that died.     *)
LEMMA FailureKept ==
    ASSUME MainInv, NEW p \in Procs, NEW n \in {1, 2}, Step(p, Returned(call[p], n)),
           UNCHANGED report
    PROVE  MainInv'
<1> DEFINE c == Returned(call[p], n)
<1>1. call[p] \in Calls /\ Faithful(call[p], archive)
  BY DEF MainInv
<1>2. c \in Calls /\ c.pc = "exit" /\ c.code = n
  BY <1>1 DEF Calls, Returned
<1>3. c.command = call[p].command /\ c.toFile = call[p].toFile /\ c.results = call[p].results
  BY <1>1 DEF Calls, Returned
<1>4. Faithful(c, archive)
  BY <1>1, <1>2, <1>3 DEF Faithful, Usable
<1>5. ~ Claims(c)
  BY <1>2 DEF Claims
<1> QED
  BY <1>2, <1>4, <1>5, PathKept

LEMMA LoadProfileKept == ASSUME MainInv, NEW p \in Procs, LoadProfile(p) PROVE MainInv'
<1> DEFINE c == [call[p] EXCEPT !.pc = IF call[p].command = "decrypt" THEN "file" ELSE "pairs"]
<1>1. call[p] \in Calls /\ Faithful(call[p], archive)
  BY DEF MainInv
<1>2. /\ c \in Calls /\ c.command = call[p].command /\ c.toFile = call[p].toFile
      /\ c.results = call[p].results
      /\ c.pc = IF c.command = "decrypt" THEN "file" ELSE "pairs"
  BY <1>1 DEF Calls
<1>3. Faithful(c, archive) /\ ~ Claims(c)
  BY <1>1, <1>2 DEF Faithful, Usable, Claims
<1> QED
  BY <1>2, <1>3, PathKept DEF LoadProfile

LEMMA DecryptFileKept == ASSUME MainInv, NEW p \in Procs, DecryptFile(p) PROVE MainInv'
<1> DEFINE c == [call[p] EXCEPT !.pc = "emit", !.made = TRUE]
<1>1. call[p] \in Calls /\ Faithful(call[p], archive) /\ call[p].pc = "file"
  BY DEF MainInv, DecryptFile, At
<1>2. /\ c \in Calls /\ c.command = call[p].command /\ c.toFile = call[p].toFile
      /\ c.results = call[p].results /\ c.pc = "emit" /\ c.made
  BY <1>1 DEF Calls
<1>3. Faithful(c, archive) /\ ~ Claims(c)
  BY <1>1, <1>2 DEF Faithful, Accomplished, Usable, Claims
<1> QED
  BY <1>2, <1>3, PathKept DEF DecryptFile

LEMMA TakePairKept == ASSUME MainInv, NEW p \in Procs, TakePair(p) PROVE MainInv'
<1> DEFINE n == Len(call[p].results)
           r == Append(call[p].results, Matches(Current(p)))
           c == [call[p] EXCEPT !.results = r]
<1>1. call[p] \in Calls /\ Faithful(call[p], archive) /\ call[p].pc = "pairs"
  BY DEF MainInv, TakePair, More, At
<1>2. n \in Nat /\ call[p].results \in Seq(BOOLEAN) /\ Len(archive) \in Nat /\ n < Len(archive)
  BY <1>1, ArchiveFacts DEF Calls, MainInv, TakePair, More
<1>3. Matches(Current(p)) \in BOOLEAN
  BY DEF Matches
<1>4. /\ r \in Seq(BOOLEAN) /\ Len(r) = n + 1 /\ r[n + 1] = Matches(Current(p))
      /\ \A i \in 1 .. n : r[i] = call[p].results[i]
  BY <1>2, <1>3
<1>5. /\ c \in Calls /\ c.command = call[p].command /\ c.toFile = call[p].toFile
      /\ c.pc = "pairs" /\ c.results = r
  BY <1>1, <1>4 DEF Calls
<1>6. Usable(call[p], Current(p)) /\ Current(p) = archive[n + 1]
  BY DEF TakePair, Current
<1>7. ASSUME NEW i \in 1 .. n + 1
      PROVE  Usable(c, archive[i]) /\ (r[i] <=> Matches(archive[i]))
  <2>1. CASE i = n + 1
    BY <1>4, <1>5, <1>6, <2>1 DEF Usable
  <2>2. CASE i # n + 1
    <3>1. i \in 1 .. n
      BY <1>2, <2>2
    <3> QED
      BY <1>1, <1>4, <1>5, <3>1 DEF Faithful, Usable
  <2> QED
    BY <2>1, <2>2
<1>8. Len(r) <= Len(archive) /\ call[p].command # "decrypt"
  BY <1>1, <1>2, <1>4 DEF Faithful
<1> HIDE DEF r, c, n
<1>9. Faithful(c, archive) /\ ~ Claims(c)
  BY <1>4, <1>5, <1>7, <1>8 DEF Faithful, Claims
<1> QED
  BY <1>5, <1>9, PathKept DEF TakePair, c, r

LEMMA PairsDoneKept == ASSUME MainInv, NEW p \in Procs, PairsDone(p) PROVE MainInv'
<1> DEFINE c == [call[p] EXCEPT !.pc = "emit"]
<1>1. /\ call[p] \in Calls /\ Faithful(call[p], archive) /\ call[p].pc = "pairs"
      /\ ~ Len(call[p].results) < Len(archive) /\ Len(archive) \in Nat
  BY ArchiveFacts DEF MainInv, PairsDone, More, At
<1>2. /\ c \in Calls /\ c.command = call[p].command /\ c.toFile = call[p].toFile
      /\ c.results = call[p].results /\ c.pc = "emit"
  BY <1>1 DEF Calls
<1>3. Len(c.results) = Len(archive)
  BY <1>1, <1>2 DEF Faithful, Calls
<1>4. Faithful(c, archive) /\ ~ Claims(c)
  BY <1>1, <1>2, <1>3 DEF Faithful, Accomplished, Usable, Claims
<1> QED
  BY <1>2, <1>4, PathKept DEF PairsDone

(* The call has its exit by the results of all pairs.                      *)
LEMMA Returns ==
    ASSUME NEW c \in Calls, Faithful(c, archive), c.pc \in {"emit", "write"}
    PROVE  /\ Returned(c, Code(c)) \in Calls
           /\ Faithful(Returned(c, Code(c)), archive)
<1> DEFINE d == Returned(c, Code(c))
<1>1. Code(c) \in {0, 2}
  BY DEF Code
<1>2. /\ d \in Calls /\ d.command = c.command /\ d.toFile = c.toFile /\ d.made = c.made
      /\ d.results = c.results /\ d.pc = "exit" /\ d.code = Code(c)
  BY <1>1 DEF Calls, Returned
<1>3. Code(d) = Code(c)
  BY <1>2 DEF Code, Matched
<1> QED
  BY <1>2, <1>3 DEF Faithful, Accomplished, Usable

LEMMA PrintResultKept == ASSUME MainInv, NEW p \in Procs, PrintResult(p) PROVE MainInv'
<1> DEFINE c == Returned(call[p], Code(call[p]))
<1>1. /\ call[p] \in Calls /\ Faithful(call[p], archive) /\ call[p].pc = "emit"
      /\ ~ call[p].toFile
  BY DEF MainInv, PrintResult, At
<1>2. c \in Calls /\ Faithful(c, archive)
  BY <1>1, Returns
<1>3. ~ Claims(c)
  BY <1>1 DEF Claims, Returned, Calls
<1> QED
  BY <1>2, <1>3, PathKept DEF PrintResult

LEMMA CreateKept == ASSUME MainInv, NEW p \in Procs, Create(p) PROVE MainInv'
<1> DEFINE c == [call[p] EXCEPT !.pc = "write"]
<1>1. /\ call[p] \in Calls /\ Faithful(call[p], archive) /\ call[p].pc = "emit"
      /\ call[p].toFile /\ Step(p, c)
      /\ report' = Report(p, call[p], FALSE) /\ report = NoFile
  BY DEF MainInv, Create, At, Creatable, Document, Report
<1>2. /\ c \in Calls /\ c.command = call[p].command /\ c.toFile = call[p].toFile
      /\ c.results = call[p].results /\ c.pc = "write" /\ c.made = call[p].made
  BY <1>1 DEF Calls
<1>3. Faithful(c, archive)
  BY <1>1, <1>2 DEF Faithful, Accomplished, Usable
<1>4. Keeps(p, c, report')
  BY <1>1, <1>2 DEF Keeps, Report
<1>5. ASSUME NEW q \in Procs \ {p}, Claims(call[q]) PROVE FALSE
  <2>1. call[q] \in Calls /\ report = Report(q, call[q], call[q].pc = "exit")
    BY <1>5 DEF MainInv, Keeps
  <2>2. report \in Reports
    BY <2>1 DEF Reports, Report, Calls
  <2> QED
    BY <1>1, <2>2, CommandConstants
<1>6. ReportTrue'
  BY <1>1 DEF ReportTrue, Report
<1> HIDE DEF c
<1> QED
  BY <1>1, <1>2, <1>3, <1>4, <1>5, <1>6, OneCall

LEMMA WriteReportKept == ASSUME MainInv, NEW p \in Procs, WriteReport(p) PROVE MainInv'
<1> DEFINE c == Returned(call[p], Code(call[p]))
<1>1. /\ call[p] \in Calls /\ Faithful(call[p], archive) /\ call[p].pc = "write"
      /\ Keeps(p, call[p], report) /\ Step(p, c)
      /\ report' = Report(p, call[p], TRUE)
  BY DEF MainInv, WriteReport, At, Document, Report
<1>2. call[p].toFile /\ report = Report(p, call[p], FALSE)
  BY <1>1 DEF Keeps, Claims
<1>3. c \in Calls /\ Faithful(c, archive)
  BY <1>1, Returns
<1>4. /\ c.command = call[p].command /\ c.toFile /\ c.results = call[p].results /\ c.pc = "exit"
  BY <1>1, <1>2 DEF Calls, Returned
<1>5. Keeps(p, c, report')
  BY <1>1, <1>4 DEF Keeps, Report
<1>6. ASSUME NEW q \in Procs \ {p}, Claims(call[q]) PROVE FALSE
  <2>1. report = Report(q, call[q], call[q].pc = "exit")
    BY <1>6 DEF MainInv, Keeps
  <2>2. report.of = q /\ report.of = p
    BY <1>2, <2>1 DEF Report
  <2> QED
    BY <2>2
<1>7. ReportTrue'
  <2>1. archive' = archive /\ archive \in Archives
    BY <1>1 DEF Step, MainInv
  <2>2. /\ DOMAIN archive = 1 .. Len(archive) /\ Len(archive) \in Nat
        /\ \A i \in DOMAIN archive : archive[i] \in Pair
    BY <2>1, ArchiveFacts
  <2>3. Len(call[p].results) = Len(archive) /\ call[p].results \in Seq(BOOLEAN)
    BY <1>1, <1>2 DEF Faithful, Accomplished, Calls
  <2>4. \A i \in DOMAIN archive :
          archive[i].sound /\ (call[p].results[i] <=> archive[i].decrypted = "match")
    BY <1>1, <2>2, <2>3 DEF Faithful, Usable, Matches
  <2>5. /\ report'.results = call[p].results /\ DOMAIN call[p].results = DOMAIN archive
    BY <1>1, <2>2, <2>3 DEF Report
  <2> QED
    BY <2>1, <2>4, <2>5 DEF ReportTrue
<1> HIDE DEF c
<1> QED
  BY <1>1, <1>3, <1>5, <1>6, <1>7, OneCall

LEMMA MainKept == MainInv /\ [MainNext]_mainVars => MainInv'
<1> SUFFICES ASSUME MainInv, [MainNext]_mainVars PROVE MainInv'
  OBVIOUS
<1>1. CASE UNCHANGED mainVars
  BY <1>1 DEF mainVars, MainInv, Faithful, Keeps, ReportTrue
<1>2. ASSUME NEW p \in Procs,
             \/ BadProfile(p) \/ DecryptFails(p) \/ BadPair(p) \/ PrintFails(p)
             \/ CannotCreate(p) \/ WriteFails(p) \/ Die(p)
      PROVE  MainInv'
  <2>1. \E n \in {1, 2} : Step(p, Returned(call[p], n)) /\ UNCHANGED report
    BY <1>2 DEF BadProfile, DecryptFails, BadPair, PrintFails, CannotCreate, WriteFails,
       Die, Error
  <2> QED
    BY <2>1, FailureKept
<1>3. CASE Finished
  BY <1>1, <1>3 DEF Finished
<1> QED
  BY <1>1, <1>2, <1>3, LoadProfileKept, DecryptFileKept, TakePairKept, PairsDoneKept,
     PrintResultKept, CreateKept, WriteReportKept DEF MainNext

(* Exit 0 is earned by every pair of the archive and its report is the one *)
(* at the path, and no whole report is wrong about a pair, for any number  *)
(* of calls and pairs and whatever fails (__main__.py 43-70, 104-115).     *)
THEOREM ExitIsEarned == MainSpec => []SuccessIsEarned
<1>1. MainInv => SuccessIsEarned
  <2> SUFFICES ASSUME MainInv PROVE SuccessIsEarned
    OBVIOUS
  <2>1. ASSUME NEW p \in Procs, At(p, "exit"), call[p].code = 0
        PROVE  Earned(call[p]) /\ (call[p].toFile => report = Document(p, TRUE))
    <3>1. /\ call[p] \in Calls /\ Faithful(call[p], archive) /\ call[p].pc = "exit"
          /\ Accomplished(call[p], archive) /\ Code(call[p]) = 0
      BY <2>1 DEF MainInv, At, Faithful
    <3>2. /\ DOMAIN archive = 1 .. Len(archive) /\ Len(archive) \in Nat
          /\ call[p].results \in Seq(BOOLEAN)
      BY <3>1, ArchiveFacts DEF MainInv, Calls
    <3>3. Earned(call[p])
      <4>1. CASE call[p].command = "decrypt"
        BY <3>1, <4>1 DEF Accomplished, Earned
      <4>2. CASE call[p].command = "analyze"
        BY <3>1, <3>2, <4>2 DEF Accomplished, Faithful, Earned
      <4>3. CASE call[p].command = "verify"
        <5>1. \A i \in DOMAIN call[p].results : call[p].results[i]
          BY <3>1, <4>3 DEF Code, Matched
        <5>2. Len(call[p].results) = Len(archive)
          BY <3>1, <4>3 DEF Accomplished
        <5> QED
          BY <3>1, <3>2, <4>3, <5>1, <5>2 DEF Faithful, Usable, Matches, Earned
      <4> QED
        BY <3>1, <4>1, <4>2, <4>3 DEF Calls, Commands
    <3>4. call[p].toFile => report = Document(p, TRUE)
      BY <2>1, <3>1 DEF MainInv, Keeps, Claims, Document, Report
    <3> QED
      BY <3>3, <3>4
  <2> QED
    BY <2>1 DEF SuccessIsEarned, MainInv
<1> QED
  BY MainInitially, MainKept, <1>1, PTL DEF MainSpec
=============================================================================
