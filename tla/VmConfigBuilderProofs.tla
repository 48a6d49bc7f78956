----------------------- MODULE VmConfigBuilderProofs -----------------------
(***************************************************************************)
(* Theorems about VmConfigBuilder, for any number of calls in any order.   *)
(* The first part is about the text of a MAC address, the second about     *)
(* sequences of calls and how one more call changes what they say, the     *)
(* third about the methods of the builder.                                 *)
(***************************************************************************)
EXTENDS VmConfigBuilderInv, NumberSets, SequenceTheorems, TLAPS

-----------------------------------------------------------------------------
(* The text of a MAC address.                                              *)

(* The digits of a part that starts with no plus sign are the part itself. *)
LEMMA DigitsOfTwo ==
  ASSUME NEW a \in 0..15, NEW b \in 0..15
  PROVE  Digits(<< a, b >>) = << a, b >>
  BY DEF Digits, Plus

(* A byte is its two hexadecimal digits.                                   *)
LEMMA TwoDigits ==
  ASSUME NEW b \in Byte
  PROVE  /\ b \div 16 \in 0..15 /\ b % 16 \in 0..15
         /\ 16 * (b \div 16) + (b % 16) = b
  BY DEF Byte

(* A byte that Display has written is read back by from_str_radix.         *)
LEMMA ByteReadBack ==
  ASSUME NEW b \in Byte
  PROVE  /\ IsByte(<< b \div 16, b % 16 >>)
         /\ ByteOf(<< b \div 16, b % 16 >>) = b
<1> DEFINE part == << b \div 16, b % 16 >>
<1>1. b \div 16 \in 0..15 /\ b % 16 \in 0..15 /\ 16 * (b \div 16) + (b % 16) = b
  BY TwoDigits
<1>2. Digits(part) = part
  BY <1>1, DigitsOfTwo
<1>3. part # << >> /\ Len(part) = 2 /\ part[1] = b \div 16 /\ part[2] = b % 16
  OBVIOUS
<1> HIDE DEF part
<1>4. IsByte(part)
  BY <1>1, <1>2, <1>3 DEF IsByte
<1>5. ByteOf(part) = 16 * part[1] + part[2]
  BY <1>2, <1>3 DEF ByteOf
<1>6. ByteOf(part) = b
  BY <1>1, <1>3, <1>5
<1> QED
  BY <1>4, <1>6 DEF part

(* Display writes a text.                                                  *)
LEMMA TextOfAddress ==
  ASSUME NEW m \in Address
  PROVE  to_string(m) \in Text
<1>1. \A i \in 1..6 : m[i] \div 16 \in Char /\ m[i] % 16 \in Char
  BY TwoDigits DEF Address, Char, Odd
<1>2. \A i \in 1..6 : << m[i] \div 16, m[i] % 16 >> \in Seq(Char)
  BY <1>1
<1> QED
  BY <1>2 DEF to_string, Text

(* parse accepts what Display writes of any address, and gives the address *)
(* back: the text of a configuration loses nothing (VmConfigBuilder keeps  *)
(* the text, info() parses it again).                                      *)
THEOREM ReadBack ==
  \A m \in Address : Parses(to_string(m)) /\ parse(to_string(m)) = m
<1> TAKE m \in Address
<1>1. \A i \in 1..6 : m[i] \in Byte
  BY DEF Address
<1>2. \A i \in 1..6 :
        IsByte(to_string(m)[i]) /\ ByteOf(to_string(m)[i]) = m[i]
  BY <1>1, ByteReadBack DEF to_string
<1>3. Len(to_string(m)) = 6
  BY DEF to_string
<1>4. parse(to_string(m)) = [ i \in 1..6 |-> m[i] ]
  BY <1>2 DEF parse
<1>5. m = [ i \in 1..6 |-> m[i] ]
  BY DEF Address
<1> QED
  BY <1>2, <1>3, <1>4, <1>5 DEF Parses

(* Two VMs whose addresses differ have different texts, so that a lease of *)
(* one is never found under the text of the other.                         *)
THEOREM TextsDiffer ==
  \A m, n \in Address : to_string(m) = to_string(n) => m = n
  BY ReadBack

(* What is left of a part without its plus sign has a digit.               *)
LEMMA DigitsOfPart ==
  ASSUME NEW part \in Seq(Char), part # << >>
  PROVE  Digits(part) \in Seq(Char) /\ Digits(part) # << >>
<1>1. CASE Len(part) > 1 /\ part[1] = Plus
  <2>1. Tail(part) \in Seq(Char) /\ Len(Tail(part)) = Len(part) - 1
    BY HeadTailProperties
  <2> QED
    BY <1>1, <2>1 DEF Digits
<1>2. CASE ~ (Len(part) > 1 /\ part[1] = Plus)
  BY <1>2 DEF Digits
<1> QED
  BY <1>1, <1>2

(* Two hexadecimal digits, or one, make a byte.                            *)
LEMMA LastTwoDigits ==
  ASSUME NEW d \in Seq(Char), d # << >>, \A i \in 1..Len(d) : d[i] < 16
  PROVE  (IF Len(d) = 1 THEN 0 ELSE 16 * d[Len(d) - 1]) + d[Len(d)] \in Byte
<1>1. Len(d) \in Nat /\ Len(d) >= 1
  OBVIOUS
<1>2. \A i \in 1..Len(d) : d[i] \in 0..15
  BY ElementOfSeq DEF Char, Odd
<1>3. \A x, y \in 0..15 : 16 * x + y \in Byte /\ 0 + y \in Byte
  BY DEF Byte
<1>4. Len(d) \in 1..Len(d)
  BY <1>1
<1>5. CASE Len(d) = 1
  BY <1>2, <1>3, <1>4, <1>5, Zenon
<1>6. CASE Len(d) # 1
  <2>1. \A n \in Nat : n >= 1 /\ n # 1 => n - 1 \in 1..n
    OBVIOUS
  <2>2. Len(d) - 1 \in 1..Len(d)
    BY <1>1, <1>6, <2>1, Zenon
  <2> QED
    BY <1>2, <1>3, <1>4, <1>6, <2>2, Zenon
<1> QED
  BY <1>5, <1>6

(* Leading zeros and a plus sign do not take a part out of a byte.         *)
LEMMA PartIsByte ==
  ASSUME NEW part \in Seq(Char), IsByte(part)
  PROVE  ByteOf(part) \in Byte
<1>1. Digits(part) \in Seq(Char) /\ Digits(part) # << >>
  BY DigitsOfPart DEF IsByte
<1>2. \A i \in 1..Len(Digits(part)) : Digits(part)[i] < 16
  BY DEF IsByte
<1> QED
  BY <1>1, <1>2, LastTwoDigits DEF ByteOf

(* What parse accepts is an address, whatever the text: no part overflows  *)
(* a byte, however many digits it has.                                     *)
THEOREM ParseInRange ==
  \A text \in Text : Parses(text) => parse(text) \in Address
<1> TAKE text \in Text
<1> HAVE Parses(text)
<1>1. \A i \in 1..6 : text[i] \in Seq(Char) /\ IsByte(text[i])
  BY ElementOfSeq DEF Text, Parses
<1>2. \A i \in 1..6 : ByteOf(text[i]) \in Byte
  BY <1>1, PartIsByte
<1> QED
  BY <1>2 DEF parse, Address

-----------------------------------------------------------------------------
(* What a sequence of calls says.                                          *)

CallsIn(q, M) == { i \in DOMAIN q : q[i].method \in M }
LastIn(q, M)  == Max(CallsIn(q, M) \cup { 0 })
RankIn(q, M, i) == Cardinality({ j \in CallsIn(q, M) : j <= i })
ArgIn(q, m, n) == IF LastIn(q, { m }) > n THEN q[LastIn(q, { m })].arg ELSE None

BootPart(q, mode) ==
  mode = IF LastIn(q, EfiCall) > LastIn(q, LinuxCall)
           THEN Efi(ArgIn(q, "efi_variable_store", LastIn(q, LinuxCall)))
           ELSE Linux(ArgIn(q, "boot", LastIn(q, EfiCall)),
                      ArgIn(q, "initrd", LastIn(q, EfiCall)),
                      ArgIn(q, "cmdline", LastIn(q, EfiCall)))

Device(c) == [ path |-> c.arg, read_only |-> c.method = "disk_readonly" ]

DiskPart(q, ds) ==
  /\ Len(ds) = Cardinality(CallsIn(q, DiskCall))
  /\ \A i \in CallsIn(q, DiskCall) : ds[RankIn(q, DiskCall, i)] = Device(q[i])

Dir(c) == [ tag |-> c.tag, host_path |-> c.arg, read_only |-> c.read_only ]

DirPart(q, ds) ==
  /\ Len(ds) = Cardinality(CallsIn(q, { "shared_dir" }))
  /\ \A i \in CallsIn(q, { "shared_dir" }) : ds[RankIn(q, { "shared_dir" }, i)] = Dir(q[i])

MacPart(q, t) ==
  LastIn(q, { "deterministic_mac" }) > LastIn(q, { "mac" }) =>
    /\ q[LastIn(q, { "deterministic_mac" })].arg \in Seed
    /\ t = to_string(deterministic(HashOf[q[LastIn(q, { "deterministic_mac" })].arg]))

LEMMA LastCall ==
  ASSUME NEW q \in Seq(Call), NEW M
  PROVE  /\ CallsIn(q, M) \subseteq 1..Len(q) /\ Len(q) \in Nat
         /\ LastIn(q, M) \in 0..Len(q)
         /\ LastIn(q, M) # 0 => LastIn(q, M) \in CallsIn(q, M)
         /\ \A i \in CallsIn(q, M) : i <= LastIn(q, M)
<1>1. CallsIn(q, M) \subseteq 1..Len(q) /\ Len(q) \in Nat
  BY DEF CallsIn
<1>2. CallsIn(q, M) \cup { 0 } \subseteq 0..Len(q) /\ CallsIn(q, M) \cup { 0 } # { }
  BY <1>1
<1>3. /\ LastIn(q, M) \in CallsIn(q, M) \cup { 0 }
      /\ \A i \in CallsIn(q, M) \cup { 0 } : LastIn(q, M) >= i
  BY <1>1, <1>2, MaxOf DEF LastIn
<1> QED
  BY <1>1, <1>2, <1>3

(* The last call of some methods is no later than that of more methods.    *)
LEMMA LastGrows ==
  ASSUME NEW q \in Seq(Call), NEW M, NEW K, K \subseteq M
  PROVE  LastIn(q, K) <= LastIn(q, M)
<1>1. CallsIn(q, K) \subseteq CallsIn(q, M)
  BY DEF CallsIn
<1> QED
  BY <1>1, LastCall

LEMMA OneMore ==
  ASSUME NEW q \in Seq(Call), NEW c \in Call
  PROVE  /\ Append(q, c) \in Seq(Call) /\ Len(Append(q, c)) = Len(q) + 1
         /\ Append(q, c)[Len(q) + 1] = c
         /\ \A i \in 1..Len(q) : Append(q, c)[i] = q[i]
         /\ Len(q) \in Nat /\ DOMAIN q = 1..Len(q) /\ DOMAIN Append(q, c) = 1..Len(q) + 1
  BY AppendProperties

(* One more call is the last of its method, and leaves the others.         *)
LEMMA CallsGrow ==
  ASSUME NEW q \in Seq(Call), NEW c \in Call, NEW M
  PROVE  /\ CallsIn(Append(q, c), M) =
              IF c.method \in M THEN CallsIn(q, M) \cup { Len(q) + 1 } ELSE CallsIn(q, M)
         /\ LastIn(Append(q, c), M) = IF c.method \in M THEN Len(q) + 1 ELSE LastIn(q, M)
<1> DEFINE r == Append(q, c)
<1>1. /\ r \in Seq(Call) /\ Len(r) = Len(q) + 1 /\ r[Len(q) + 1] = c
      /\ \A i \in 1..Len(q) : r[i] = q[i]
      /\ Len(q) \in Nat /\ DOMAIN q = 1..Len(q) /\ DOMAIN r = 1..Len(q) + 1
  BY OneMore
<1> HIDE DEF r
<1>2. CallsIn(r, M) = IF c.method \in M THEN CallsIn(q, M) \cup { Len(q) + 1 } ELSE CallsIn(q, M)
  BY <1>1 DEF CallsIn
<1>3. CASE c.method \in M
  <2>1. CallsIn(r, M) \cup { 0 } \subseteq 0..Len(q) + 1 /\ Len(q) + 1 \in CallsIn(r, M) \cup { 0 }
    BY <1>1, <1>2, <1>3, LastCall
  <2>2. \A k \in CallsIn(r, M) \cup { 0 } : Len(q) + 1 >= k
    BY <1>1, <2>1
  <2>3. Len(q) + 1 \in Nat
    BY <1>1
  <2>4. Max(CallsIn(r, M) \cup { 0 }) = Len(q) + 1
    BY <2>1, <2>2, <2>3, MaxIs
  <2> QED
    BY <1>2, <1>3, <2>4 DEF LastIn, r
<1>4. CASE c.method \notin M
  BY <1>2, <1>4 DEF LastIn, r
<1> QED
  BY <1>3, <1>4

(* ... and its argument is the last one of its method.                     *)
LEMMA ArgGrows ==
  ASSUME NEW q \in Seq(Call), NEW c \in Call, NEW m, NEW n \in 0..Len(q) + 1
  PROVE  ArgIn(Append(q, c), m, n) =
           IF c.method = m THEN IF n <= Len(q) THEN c.arg ELSE None ELSE ArgIn(q, m, n)
<1>1. LastIn(Append(q, c), { m }) = IF c.method = m THEN Len(q) + 1 ELSE LastIn(q, { m })
  BY CallsGrow
<1>2. LastIn(q, { m }) \in 0..Len(q) /\ Len(q) \in Nat
  BY LastCall
<1>3. CASE c.method = m
  BY <1>1, <1>2, <1>3, OneMore DEF ArgIn
<1>4. CASE c.method # m
  <2>1. CASE LastIn(q, { m }) > n
    <3>1. LastIn(q, { m }) \in 1..Len(q)
      BY <1>2, <2>1
    <3> QED
      BY <1>1, <1>4, <2>1, <3>1, OneMore DEF ArgIn
  <2>2. CASE ~ (LastIn(q, { m }) > n)
    BY <1>1, <1>4, <2>2 DEF ArgIn
  <2> QED
    BY <2>1, <2>2
<1> QED
  BY <1>3, <1>4

(* Nothing was given after the last call that could have given it.         *)
LEMMA NoArgAfter ==
  ASSUME NEW q \in Seq(Call), NEW m, NEW n \in Nat, LastIn(q, { m }) <= n
  PROVE  ArgIn(q, m, n) = None
<1>1. LastIn(q, { m }) \in Nat
  BY LastCall
<1> QED
  BY <1>1 DEF ArgIn

(* The calls keep their ranks, and one more comes last.                    *)
LEMMA RanksGrow ==
  ASSUME NEW q \in Seq(Call), NEW c \in Call, NEW M
  PROVE  /\ Cardinality(CallsIn(q, M)) \in Nat
         /\ Cardinality(CallsIn(Append(q, c), M)) =
              Cardinality(CallsIn(q, M)) + (IF c.method \in M THEN 1 ELSE 0)
         /\ \A i \in CallsIn(q, M) :
              /\ RankIn(Append(q, c), M, i) = RankIn(q, M, i)
              /\ RankIn(q, M, i) \in 1..Cardinality(CallsIn(q, M))
         /\ c.method \in M =>
              RankIn(Append(q, c), M, Len(q) + 1) = Cardinality(CallsIn(q, M)) + 1
<1> DEFINE S == CallsIn(q, M)
           R == CallsIn(Append(q, c), M)
<1>1. S \subseteq 1..Len(q) /\ Len(q) \in Nat
  BY LastCall
<1>2. IsFiniteSet(S) /\ Cardinality(S) \in Nat
  <2>1. IsFiniteSet(1..Len(q))
    BY <1>1, FS_Interval
  <2> QED
    BY <1>1, <2>1, FS_Subset, FS_CardinalityType
<1>3. R = IF c.method \in M THEN S \cup { Len(q) + 1 } ELSE S
  BY CallsGrow
<1>4. Len(q) + 1 \notin S
  BY <1>1
<1>5. Cardinality(S \cup { Len(q) + 1 }) = Cardinality(S) + 1
  BY <1>2, <1>4, FS_AddElement
<1> HIDE DEF S, R
<1>6. ASSUME NEW i \in S
      PROVE  /\ { j \in R : j <= i } = { j \in S : j <= i }
             /\ Cardinality({ j \in S : j <= i }) \in 1..Cardinality(S)
  <2>1. { j \in R : j <= i } = { j \in S : j <= i }
    BY <1>1, <1>3
  <2> DEFINE T == { j \in S : j <= i }
  <2>2. T \subseteq S /\ i \in T
    BY <1>1
  <2> HIDE DEF T
  <2>3. IsFiniteSet(T) /\ Cardinality(T) <= Cardinality(S) /\ Cardinality(T) \in Nat
    BY <1>2, <2>2, FS_Subset, FS_CardinalityType
  <2>4. Cardinality(T) # 0
    BY <2>2, <2>3, FS_EmptySet
  <2> QED
    BY <1>2, <2>1, <2>3, <2>4 DEF T
<1>7. ASSUME c.method \in M
      PROVE  { j \in R : j <= Len(q) + 1 } = S \cup { Len(q) + 1 }
  <2>1. R = S \cup { Len(q) + 1 }
    BY <1>3, <1>7
  <2>2. \A j \in R : j <= Len(q) + 1
    BY <1>1, <2>1
  <2> QED
    BY <2>1, <2>2
<1>8. Cardinality(R) = Cardinality(S) + (IF c.method \in M THEN 1 ELSE 0)
  BY <1>2, <1>3, <1>5
<1>9. c.method \in M =>
        Cardinality({ j \in R : j <= Len(q) + 1 }) = Cardinality(S) + 1
  BY <1>5, <1>7
<1>10. \A i \in S : /\ Cardinality({ j \in R : j <= i }) = Cardinality({ j \in S : j <= i })
                     /\ Cardinality({ j \in S : j <= i }) \in 1..Cardinality(S)
  BY <1>6
<1> QED
  BY <1>2, <1>8, <1>9, <1>10 DEF RankIn, S, R

(* A call that is no disk leaves the disks, and a disk is added behind     *)
(* those there are.                                                        *)
LEMMA DisksKept ==
  ASSUME NEW q \in Seq(Call), NEW c \in Call, NEW ds, DiskPart(q, ds), c.method \notin DiskCall
  PROVE  DiskPart(Append(q, c), ds)
<1>1. CallsIn(Append(q, c), DiskCall) = CallsIn(q, DiskCall)
  BY CallsGrow
<1>2. \A i \in CallsIn(q, DiskCall) : Append(q, c)[i] = q[i]
  BY OneMore, LastCall
<1>3. \A i \in CallsIn(q, DiskCall) : RankIn(Append(q, c), DiskCall, i) = RankIn(q, DiskCall, i)
  BY RanksGrow
<1> QED
  BY <1>1, <1>2, <1>3 DEF DiskPart

LEMMA DiskAdded ==
  ASSUME NEW q \in Seq(Call), NEW c \in Call, NEW T, NEW ds \in Seq(T), DiskPart(q, ds),
         c.method \in DiskCall, Device(c) \in T
  PROVE  DiskPart(Append(q, c), Append(ds, Device(c)))
<1> DEFINE r == Append(q, c)
           es == Append(ds, Device(c))
           n == Cardinality(CallsIn(q, DiskCall))
<1>1. /\ CallsIn(r, DiskCall) = CallsIn(q, DiskCall) \cup { Len(q) + 1 }
      /\ n \in Nat /\ Cardinality(CallsIn(r, DiskCall)) = n + 1
      /\ \A i \in CallsIn(q, DiskCall) :
           RankIn(r, DiskCall, i) = RankIn(q, DiskCall, i) /\ RankIn(q, DiskCall, i) \in 1..n
      /\ RankIn(r, DiskCall, Len(q) + 1) = n + 1
  BY CallsGrow, RanksGrow
<1>2. /\ r[Len(q) + 1] = c /\ \A i \in CallsIn(q, DiskCall) : r[i] = q[i]
  BY OneMore, LastCall
<1>3. Len(ds) = n /\ \A i \in CallsIn(q, DiskCall) : ds[RankIn(q, DiskCall, i)] = Device(q[i])
  BY DEF DiskPart
<1> HIDE DEF r, n
<1>4. Len(es) = n + 1 /\ es[n + 1] = Device(c) /\ \A k \in 1..n : es[k] = ds[k]
  BY <1>3, AppendProperties
<1> HIDE DEF es
<1>5. ASSUME NEW i \in CallsIn(r, DiskCall)
      PROVE  es[RankIn(r, DiskCall, i)] = Device(r[i])
  <2>1. CASE i \in CallsIn(q, DiskCall)
    BY <1>1, <1>2, <1>3, <1>4, <2>1
  <2>2. CASE i = Len(q) + 1
    BY <1>1, <1>2, <1>4, <2>2
  <2> QED
    BY <1>1, <2>1, <2>2
<1> QED
  BY <1>1, <1>4, <1>5 DEF DiskPart, r, es

(* The same for the shared directories.                                    *)
LEMMA DirsKept ==
  ASSUME NEW q \in Seq(Call), NEW c \in Call, NEW ds, DirPart(q, ds), c.method # "shared_dir"
  PROVE  DirPart(Append(q, c), ds)
<1> DEFINE M == { "shared_dir" }
<1>1. CallsIn(Append(q, c), M) = CallsIn(q, M)
  BY CallsGrow
<1>2. \A i \in CallsIn(q, M) : Append(q, c)[i] = q[i]
  BY OneMore, LastCall
<1>3. \A i \in CallsIn(q, M) : RankIn(Append(q, c), M, i) = RankIn(q, M, i)
  BY RanksGrow
<1> QED
  BY <1>1, <1>2, <1>3 DEF DirPart

LEMMA DirAdded ==
  ASSUME NEW q \in Seq(Call), NEW c \in Call, NEW T, NEW ds \in Seq(T), DirPart(q, ds),
         c.method = "shared_dir", Dir(c) \in T
  PROVE  DirPart(Append(q, c), Append(ds, Dir(c)))
<1> DEFINE M == { "shared_dir" }
           r == Append(q, c)
           es == Append(ds, Dir(c))
           n == Cardinality(CallsIn(q, M))
<1>1. /\ CallsIn(r, M) = CallsIn(q, M) \cup { Len(q) + 1 }
      /\ n \in Nat /\ Cardinality(CallsIn(r, M)) = n + 1
      /\ \A i \in CallsIn(q, M) : RankIn(r, M, i) = RankIn(q, M, i) /\ RankIn(q, M, i) \in 1..n
      /\ RankIn(r, M, Len(q) + 1) = n + 1
  BY CallsGrow, RanksGrow
<1>2. /\ r[Len(q) + 1] = c /\ \A i \in CallsIn(q, M) : r[i] = q[i]
  BY OneMore, LastCall
<1>3. Len(ds) = n /\ \A i \in CallsIn(q, M) : ds[RankIn(q, M, i)] = Dir(q[i])
  BY DEF DirPart
<1> HIDE DEF r, n
<1>4. Len(es) = n + 1 /\ es[n + 1] = Dir(c) /\ \A k \in 1..n : es[k] = ds[k]
  BY <1>3, AppendProperties
<1> HIDE DEF es
<1>5. ASSUME NEW i \in CallsIn(r, M)
      PROVE  es[RankIn(r, M, i)] = Dir(r[i])
  <2>1. CASE i \in CallsIn(q, M)
    BY <1>1, <1>2, <1>3, <1>4, <2>1
  <2>2. CASE i = Len(q) + 1
    BY <1>1, <1>2, <1>4, <2>2
  <2> QED
    BY <1>1, <2>1, <2>2
<1> QED
  BY <1>1, <1>4, <1>5 DEF DirPart, r, es

(* The address that was derived last stays until another is given.         *)
LEMMA MacKept ==
  ASSUME NEW q \in Seq(Call), NEW c \in Call, NEW t, MacPart(q, t),
         c.method \notin { "mac", "deterministic_mac" }
  PROVE  MacPart(Append(q, c), t)
<1> DEFINE d == LastIn(q, { "deterministic_mac" })
           l == LastIn(q, { "mac" })
<1>1. /\ LastIn(Append(q, c), { "deterministic_mac" }) = d
      /\ LastIn(Append(q, c), { "mac" }) = l
  BY CallsGrow
<1>2. d \in 0..Len(q) /\ l \in 0..Len(q) /\ Len(q) \in Nat
  BY LastCall
<1> HIDE DEF d, l
<1>3. d > l => Append(q, c)[d] = q[d]
  BY <1>2, OneMore
<1> QED
  BY <1>1, <1>3 DEF MacPart, d, l

LEMMA MacGiven ==
  ASSUME NEW q \in Seq(Call), NEW c \in Call, NEW t, c.method = "mac"
  PROVE  MacPart(Append(q, c), t)
<1>1. /\ LastIn(Append(q, c), { "deterministic_mac" }) = LastIn(q, { "deterministic_mac" })
      /\ LastIn(Append(q, c), { "mac" }) = Len(q) + 1
  BY CallsGrow
<1>2. LastIn(q, { "deterministic_mac" }) \in 0..Len(q) /\ Len(q) \in Nat
  BY LastCall
<1>3. ~ (LastIn(q, { "deterministic_mac" }) > Len(q) + 1)
  BY <1>2
<1> QED
  BY <1>1, <1>3 DEF MacPart

LEMMA MacDerived ==
  ASSUME NEW q \in Seq(Call), NEW c \in Call, c.method = "deterministic_mac", c.arg \in Seed
  PROVE  MacPart(Append(q, c), to_string(deterministic(HashOf[c.arg])))
<1>1. LastIn(Append(q, c), { "deterministic_mac" }) = Len(q) + 1
  BY CallsGrow
<1> QED
  BY <1>1, OneMore DEF MacPart

(* A call that names no boot mode leaves the one there is.                 *)
LEMMA BootKept ==
  ASSUME NEW q \in Seq(Call), NEW c \in Call, NEW mode, BootPart(q, mode),
         c.method \notin LinuxCall \cup EfiCall
  PROVE  BootPart(Append(q, c), mode)
<1> DEFINE r == Append(q, c)
<1>1. LastIn(r, LinuxCall) = LastIn(q, LinuxCall) /\ LastIn(r, EfiCall) = LastIn(q, EfiCall)
  BY CallsGrow
<1>2. /\ LastIn(q, LinuxCall) \in 0..Len(q) + 1 /\ LastIn(q, EfiCall) \in 0..Len(q) + 1
  BY LastCall
<1>3. \A m \in LinuxCall \cup EfiCall, n \in 0..Len(q) + 1 : ArgIn(r, m, n) = ArgIn(q, m, n)
  BY ArgGrows
<1>4. { "boot", "initrd", "cmdline", "efi_variable_store" } \subseteq LinuxCall \cup EfiCall
  BY DEF LinuxCall, EfiCall
<1> HIDE DEF r
<1> QED
  BY <1>1, <1>2, <1>3, <1>4 DEF BootPart, r

(* A Linux call sets its field, and keeps the others unless an EFI call    *)
(* came in between.                                                        *)
LEMMA LinuxCalled ==
  ASSUME NEW q \in Seq(Call), NEW c \in Call, NEW mode, BootPart(q, mode), c.method \in LinuxCall
  PROVE  LET old == IF mode.kind = "Linux" THEN mode ELSE Linux(None, None, None)
         IN  BootPart(Append(q, c),
                      Linux(IF c.method = "boot" THEN c.arg ELSE old.kernel,
                            IF c.method = "initrd" THEN c.arg ELSE old.initrd,
                            IF c.method = "cmdline" THEN c.arg ELSE old.cmdline))
<1> DEFINE r == Append(q, c)
           l == LastIn(q, LinuxCall)
           e == LastIn(q, EfiCall)
           old == IF mode.kind = "Linux" THEN mode ELSE Linux(None, None, None)
<1>1. l \in 0..Len(q) /\ e \in 0..Len(q) /\ Len(q) \in Nat
  BY LastCall
<1>2. LastIn(r, LinuxCall) = Len(q) + 1 /\ LastIn(r, EfiCall) = e
  BY CallsGrow DEF LinuxCall, EfiCall
<1>3. \A m \in LinuxCall :
        ArgIn(r, m, e) = IF c.method = m THEN c.arg ELSE ArgIn(q, m, e)
  BY <1>1, ArgGrows
<1>4. old = Linux(ArgIn(q, "boot", e), ArgIn(q, "initrd", e), ArgIn(q, "cmdline", e))
  <2>1. CASE e > l
    <3>1. \A m \in LinuxCall : LastIn(q, { m }) <= l /\ LastIn(q, { m }) \in Nat
      BY LastGrows, LastCall
    <3>2. ASSUME NEW m \in LinuxCall
          PROVE  ArgIn(q, m, e) = None
      <4>1. LastIn(q, { m }) <= e
        BY <1>1, <2>1, <3>1
      <4>2. e \in Nat
        BY <1>1
      <4> HIDE DEF e
      <4> QED
        BY <4>1, <4>2, NoArgAfter
    <3>3. mode.kind = "Efi"
      BY <2>1 DEF BootPart, Efi
    <3> QED
      BY <3>2, <3>3 DEF LinuxCall
  <2>2. CASE ~ (e > l)
    BY <2>2 DEF BootPart, Linux
  <2> QED
    BY <2>1, <2>2
<1>5. ~ (LastIn(r, EfiCall) > LastIn(r, LinuxCall))
  BY <1>1, <1>2
<1>6. /\ old.kernel = ArgIn(q, "boot", e) /\ old.initrd = ArgIn(q, "initrd", e)
      /\ old.cmdline = ArgIn(q, "cmdline", e)
  BY <1>4 DEF Linux
<1> HIDE DEF r, l, e, old
<1> QED
  BY <1>2, <1>3, <1>5, <1>6 DEF BootPart, LinuxCall, r, old

(* ... and so does an EFI call.                                            *)
LEMMA EfiCalled ==
  ASSUME NEW q \in Seq(Call), NEW c \in Call, NEW mode, BootPart(q, mode), c.method \in EfiCall
  PROVE  LET old == IF mode.kind = "Efi" THEN mode ELSE Efi(None)
         IN  BootPart(Append(q, c),
                      IF c.method = "efi_variable_store" THEN Efi(c.arg) ELSE old)
<1> DEFINE r == Append(q, c)
           l == LastIn(q, LinuxCall)
           e == LastIn(q, EfiCall)
           m == "efi_variable_store"
           old == IF mode.kind = "Efi" THEN mode ELSE Efi(None)
<1>1. l \in 0..Len(q) /\ e \in 0..Len(q) /\ Len(q) \in Nat
  BY LastCall
<1>2. LastIn(r, EfiCall) = Len(q) + 1 /\ LastIn(r, LinuxCall) = l
  BY CallsGrow DEF LinuxCall, EfiCall
<1>3. ArgIn(r, m, l) = IF c.method = m THEN c.arg ELSE ArgIn(q, m, l)
  BY <1>1, ArgGrows
<1>4. old = Efi(ArgIn(q, m, l))
  <2>1. CASE e > l
    BY <2>1 DEF BootPart, Efi
  <2>2. CASE ~ (e > l)
    <3>1. LastIn(q, { m }) <= e /\ LastIn(q, { m }) \in Nat
      BY LastGrows, LastCall DEF EfiCall
    <3>2. LastIn(q, { m }) <= l
      BY <1>1, <2>2, <3>1
    <3>3. ArgIn(q, m, l) = None
      BY <1>1, <3>2, NoArgAfter
    <3>4. mode.kind = "Linux"
      BY <2>2 DEF BootPart, Linux
    <3> QED
      BY <3>3, <3>4
  <2> QED
    BY <2>1, <2>2
<1>5. LastIn(r, EfiCall) > LastIn(r, LinuxCall)
  BY <1>1, <1>2
<1> HIDE DEF r, l, e, old
<1> QED
  BY <1>2, <1>3, <1>4, <1>5 DEF BootPart, r, old

-----------------------------------------------------------------------------
(* The methods of the builder.                                             *)

(* The invariant, said of the sequence of calls.                           *)
Said(q, mode, ds, dirs, log, id, t) ==
  /\ BootPart(q, mode) /\ DiskPart(q, ds) /\ DirPart(q, dirs) /\ MacPart(q, t)
  /\ log = ArgIn(q, "serial_file", 0) /\ id = ArgIn(q, "machine_identifier_path", 0)

LEMMA InvSaid ==
  /\ BuilderInv <=>
       /\ TypeOK /\ VerdictInv
       /\ Said(calls, boot_mode, disks, shared_dirs, serial, machine_identifier_path, mac)
  /\ BuilderInv' <=>
       /\ TypeOK' /\ VerdictInv'
       /\ Said(calls', boot_mode', disks', shared_dirs', serial', machine_identifier_path', mac')
  BY DEF BuilderInv, Said, BootIsAsCalled, DevicesAreAsCalled, MacInv, BootPart, DiskPart, DirPart,
         MacPart, ArgIn, LastIn, RankIn, CallsIn, LastArg, LastOf, Rank, CallsOf, Device, Dir

(* Any call that is one of those below keeps the invariant.                *)
LEMMA CallStep ==
  ASSUME BuilderInv, NEW m, NEW a, NEW c \in Call, c.method = m, c.arg = a, Made(c),
         IF m \in LinuxCall \cup EfiCall
           THEN BootPart(calls', boot_mode') /\ boot_mode' \in BootMode
           ELSE boot_mode' = boot_mode,
         cpus' \in Nat, memory_mib' \in Nat,
         IF m \in DiskCall
           THEN a \in Path /\ disks' = Append(disks, Device(c))
           ELSE disks' = disks,
         IF m = "shared_dir"
           THEN Dir(c) \in Shared /\ shared_dirs' = Append(shared_dirs, Dir(c))
           ELSE shared_dirs' = shared_dirs,
         IF m = "serial_file" THEN a \in Path /\ serial' = a ELSE serial' = serial,
         IF m = "machine_identifier_path"
           THEN a \in Path /\ machine_identifier_path' = a
           ELSE machine_identifier_path' = machine_identifier_path,
         IF m \in { "mac", "deterministic_mac" }
           THEN MacPart(calls', mac') /\ mac' \in Text
           ELSE mac' = mac
  PROVE  BuilderInv'
<1>1. /\ calls \in Seq(Call) /\ c \in Call /\ c.method = m /\ c.arg = a
      /\ calls' = Append(calls, c) /\ Len(calls) < MaxCalls /\ Len(calls) \in Nat
      /\ result = "none" /\ result' = "none"
  BY DEF BuilderInv, TypeOK, Made
<1>2. Said(calls, boot_mode, disks, shared_dirs, serial, machine_identifier_path, mac)
  BY InvSaid
<1>3. Device(c) \in [ path : Path, read_only : BOOLEAN ] \/ m \notin DiskCall
  BY DEF Device
<1>4. /\ disks \in Seq([ path : Path, read_only : BOOLEAN ]) /\ shared_dirs \in Seq(Shared)
      /\ disks' \in Seq([ path : Path, read_only : BOOLEAN ]) /\ shared_dirs' \in Seq(Shared)
  <2>1. disks \in Seq([ path : Path, read_only : BOOLEAN ]) /\ shared_dirs \in Seq(Shared)
    BY DEF BuilderInv, TypeOK
  <2>2. disks' \in Seq([ path : Path, read_only : BOOLEAN ])
    <3>1. CASE m \in DiskCall
      <4>1. disks' = Append(disks, Device(c)) /\ Device(c) \in [ path : Path, read_only : BOOLEAN ]
        BY <1>1, <1>3, <3>1
      <4> QED
        BY <2>1, <4>1, AppendProperties
    <3>2. CASE m \notin DiskCall
      BY <2>1, <3>2
    <3> QED
      BY <3>1, <3>2
  <2>3. shared_dirs' \in Seq(Shared)
    BY <2>1, AppendProperties
  <2> QED
    BY <2>1, <2>2, <2>3
<1>5. BootPart(calls', boot_mode')
  BY <1>1, <1>2, BootKept DEF Said
<1>6. DiskPart(calls', disks')
  <2>1. CASE m \in DiskCall
    <3>1. disks' = Append(disks, Device(c)) /\ Device(c) \in [ path : Path, read_only : BOOLEAN ]
      BY <1>1, <1>3, <2>1
    <3> QED
      BY <1>1, <1>2, <1>4, <2>1, <3>1, DiskAdded DEF Said
  <2>2. CASE m \notin DiskCall
    BY <1>1, <1>2, <2>2, DisksKept DEF Said
  <2> QED
    BY <2>1, <2>2
<1>7. DirPart(calls', shared_dirs')
  <2>1. CASE m = "shared_dir"
    BY <1>1, <1>2, <1>4, <2>1, DirAdded DEF Said
  <2>2. CASE m # "shared_dir"
    BY <1>1, <1>2, <2>2, DirsKept DEF Said
  <2> QED
    BY <2>1, <2>2
<1>8. MacPart(calls', mac')
  BY <1>1, <1>2, MacKept DEF Said
<1>9. /\ serial' = ArgIn(calls', "serial_file", 0)
      /\ machine_identifier_path' = ArgIn(calls', "machine_identifier_path", 0)
  <2>1. \A k \in { "serial_file", "machine_identifier_path" } :
          ArgIn(calls', k, 0) = IF m = k THEN a ELSE ArgIn(calls, k, 0)
    BY <1>1, ArgGrows
  <2> QED
    BY <1>2, <2>1 DEF Said
<1>10. calls' \in Seq(Call) /\ Len(calls') <= MaxCalls
  <2>1. calls' \in Seq(Call) /\ Len(calls') = Len(calls) + 1
    BY <1>1, OneMore
  <2> QED
    BY <1>1, <2>1, BuilderAssumption
<1>11. TypeOK' /\ VerdictInv'
  BY <1>1, <1>4, <1>10 DEF BuilderInv, TypeOK, VerdictInv
<1> QED
  BY <1>5, <1>6, <1>7, <1>8, <1>9, <1>11, InvSaid DEF Said

(* What the Linux methods start from.                                      *)
LEMMA SoFar ==
  ASSUME boot_mode \in BootMode
  PROVE  /\ LinuxSoFar = Linux(LinuxSoFar.kernel, LinuxSoFar.initrd, LinuxSoFar.cmdline)
         /\ LinuxSoFar.kernel \in Path \cup { None } /\ LinuxSoFar.initrd \in Path \cup { None }
         /\ LinuxSoFar.cmdline \in CommandLine \cup { None }
<1>1. CASE boot_mode.kind = "Linux"
  <2>1. PICK k \in Path \cup { None }, i \in Path \cup { None }, c \in CommandLine \cup { None } :
          boot_mode = Linux(k, i, c)
    BY <1>1 DEF BootMode, Efi
  <2> QED
    BY <1>1, <2>1 DEF LinuxSoFar, Linux
<1>2. CASE boot_mode.kind # "Linux"
  BY <1>2 DEF LinuxSoFar, Linux
<1> QED
  BY <1>1, <1>2

LEMMA LinuxModes ==
  \A k, i \in Path \cup { None }, c \in CommandLine \cup { None } : Linux(k, i, c) \in BootMode
  BY DEF BootMode

(* boot, initrd and cmdline.                                               *)
LEMMA LinuxStep ==
  ASSUME BuilderInv, NEW m \in LinuxCall, NEW a, Called(m, a), UNCHANGED << counts, devices >>,
         m = "cmdline" => a \in CommandLine, m # "cmdline" => a \in Path,
         boot_mode' = Linux(IF m = "boot" THEN a ELSE LinuxSoFar.kernel,
                            IF m = "initrd" THEN a ELSE LinuxSoFar.initrd,
                            IF m = "cmdline" THEN a ELSE LinuxSoFar.cmdline)
  PROVE  BuilderInv'
<1> DEFINE c == CallOf(m, a)
<1>1. /\ calls \in Seq(Call) /\ c \in Call /\ calls' = Append(calls, c)
      /\ c.method = m /\ c.arg = a /\ boot_mode \in BootMode /\ BootPart(calls, boot_mode)
  BY InvSaid DEF BuilderInv, TypeOK, Called, CallOf, Made, Call, LinuxCall, Said
<1>2. boot_mode' \in BootMode
  <2>1. /\ (IF m = "boot" THEN a ELSE LinuxSoFar.kernel) \in Path \cup { None }
        /\ (IF m = "initrd" THEN a ELSE LinuxSoFar.initrd) \in Path \cup { None }
        /\ (IF m = "cmdline" THEN a ELSE LinuxSoFar.cmdline) \in CommandLine \cup { None }
    BY <1>1, SoFar
  <2> QED
    BY <2>1, LinuxModes
<1> HIDE DEF c
<1>3. BootPart(calls', boot_mode')
  BY <1>1, LinuxCalled DEF LinuxSoFar
<1>4. /\ cpus' \in Nat /\ memory_mib' \in Nat /\ disks' = disks /\ shared_dirs' = shared_dirs
      /\ serial' = serial /\ machine_identifier_path' = machine_identifier_path /\ mac' = mac
  BY DEF counts, devices, BuilderInv, TypeOK
<1>5. /\ m \in LinuxCall \cup EfiCall /\ m \notin DiskCall
      /\ m \notin { "shared_dir", "serial_file", "machine_identifier_path", "mac",
                     "deterministic_mac" }
  BY DEF LinuxCall, DiskCall
<1> QED
  BY <1>1, <1>2, <1>3, <1>4, <1>5, CallStep DEF c, Called

LEMMA BootStep ==
  ASSUME BuilderInv, NEW k \in Path, boot(k)
  PROVE  BuilderInv'
<1>1. boot_mode' = Linux(k, LinuxSoFar.initrd, LinuxSoFar.cmdline)
  BY SoFar DEF boot, Linux, BuilderInv, TypeOK
<1> QED
  BY <1>1, LinuxStep DEF boot, LinuxCall

LEMMA InitrdStep ==
  ASSUME BuilderInv, NEW k \in Path, initrd(k)
  PROVE  BuilderInv'
<1>1. boot_mode' = Linux(LinuxSoFar.kernel, k, LinuxSoFar.cmdline)
  BY SoFar DEF initrd, Linux, BuilderInv, TypeOK
<1> QED
  BY <1>1, LinuxStep DEF initrd, LinuxCall

LEMMA CmdlineStep ==
  ASSUME BuilderInv, NEW c \in CommandLine, cmdline(c)
  PROVE  BuilderInv'
<1>1. boot_mode' = Linux(LinuxSoFar.kernel, LinuxSoFar.initrd, c)
  BY SoFar DEF cmdline, Linux, BuilderInv, TypeOK
<1> QED
  BY <1>1, LinuxStep DEF cmdline, LinuxCall

(* efi_boot and efi_variable_store.                                        *)
LEMMA EfiStep ==
  ASSUME BuilderInv,
         NEW m \in EfiCall, NEW a \in Path \cup { None }, Called(m, a),
         UNCHANGED << counts, devices >>,
         boot_mode' = IF m = "efi_variable_store" THEN Efi(a)
                      ELSE IF boot_mode.kind = "Efi" THEN boot_mode ELSE Efi(None)
  PROVE  BuilderInv'
<1> DEFINE c == CallOf(m, a)
<1>1. /\ calls \in Seq(Call) /\ c \in Call /\ calls' = Append(calls, c)
      /\ c.method = m /\ c.arg = a /\ boot_mode \in BootMode /\ BootPart(calls, boot_mode)
  BY InvSaid DEF BuilderInv, TypeOK, Called, CallOf, Made, Call, EfiCall, Said
<1>2. boot_mode' \in BootMode
  BY <1>1 DEF BootMode
<1> HIDE DEF c
<1>3. BootPart(calls', boot_mode')
  BY <1>1, EfiCalled
<1>4. /\ cpus' \in Nat /\ memory_mib' \in Nat /\ disks' = disks /\ shared_dirs' = shared_dirs
      /\ serial' = serial /\ machine_identifier_path' = machine_identifier_path /\ mac' = mac
  BY DEF counts, devices, BuilderInv, TypeOK
<1>5. /\ m \in LinuxCall \cup EfiCall /\ m \notin DiskCall
      /\ m \notin { "shared_dir", "serial_file", "machine_identifier_path", "mac",
                     "deterministic_mac" }
  BY DEF EfiCall, DiskCall
<1> QED
  BY <1>1, <1>2, <1>3, <1>4, <1>5, CallStep DEF c, Called

(* The methods that set one field, or append to it.                        *)
LEMMA DiskStep ==
  ASSUME BuilderInv, NEW d \in Path, NEW ro \in BOOLEAN, disk(d, ro)
  PROVE  BuilderInv'
<1> DEFINE m == IF ro THEN "disk_readonly" ELSE "disk"
<1>1. /\ m \in DiskCall /\ m \notin LinuxCall \cup EfiCall
      /\ m \notin { "shared_dir", "serial_file", "machine_identifier_path", "mac",
                     "deterministic_mac" }
      /\ CallOf(m, d) \in Call /\ CallOf(m, d).method = m /\ CallOf(m, d).arg = d
      /\ Device(CallOf(m, d)) = [ path |-> d, read_only |-> ro ]
  BY DEF LinuxCall, EfiCall, DiskCall, Call, CallOf, Device
<1>2. Made(CallOf(m, d)) /\ disks' = Append(disks, [ path |-> d, read_only |-> ro ])
  BY DEF disk, Called
<1> HIDE DEF m
<1>3. /\ cpus' \in Nat /\ memory_mib' \in Nat /\ boot_mode' = boot_mode
      /\ shared_dirs' = shared_dirs /\ serial' = serial
      /\ machine_identifier_path' = machine_identifier_path /\ mac' = mac
  BY DEF disk, counts, BuilderInv, TypeOK
<1> QED
  BY <1>1, <1>2, <1>3, CallStep

LEMMA FieldStep ==
  ASSUME BuilderInv, NEW f \in Path, serial_file(f) \/ set_machine_identifier_path(f)
  PROVE  BuilderInv'
<1>1. /\ cpus' \in Nat /\ memory_mib' \in Nat /\ boot_mode' = boot_mode /\ disks' = disks
      /\ mac' = mac /\ shared_dirs' = shared_dirs
  BY DEF serial_file, set_machine_identifier_path, counts, BuilderInv, TypeOK
<1>2. \A m \in { "serial_file", "machine_identifier_path" } :
        /\ m \notin DiskCall \cup LinuxCall \cup EfiCall
        /\ m \notin { "mac", "deterministic_mac", "shared_dir" }
        /\ CallOf(m, f) \in Call /\ CallOf(m, f).method = m /\ CallOf(m, f).arg = f
  BY DEF LinuxCall, EfiCall, DiskCall, Call, CallOf
<1>3. CASE serial_file(f)
  BY <1>1, <1>2, <1>3, CallStep DEF serial_file, Called
<1>4. CASE set_machine_identifier_path(f)
  BY <1>1, <1>2, <1>4, CallStep DEF set_machine_identifier_path, Called
<1> QED
  BY <1>3, <1>4

LEMMA SharedDirStep ==
  ASSUME BuilderInv, NEW t \in Tag, NEW f \in Path, NEW ro \in BOOLEAN, shared_dir(t, f, ro)
  PROVE  BuilderInv'
<1> DEFINE c == DirCall(t, f, ro)
<1>1. /\ c \in Call /\ c.method = "shared_dir" /\ c.arg = f
      /\ Dir(c) = [ tag |-> t, host_path |-> f, read_only |-> ro ] /\ Dir(c) \in Shared
  BY DEF DirCall, CallOf, Call, Dir, Shared
<1>2. Made(c) /\ shared_dirs' = Append(shared_dirs, Dir(c))
  BY <1>1 DEF shared_dir
<1>3. /\ cpus' \in Nat /\ memory_mib' \in Nat /\ boot_mode' = boot_mode /\ disks' = disks
      /\ serial' = serial /\ machine_identifier_path' = machine_identifier_path /\ mac' = mac
  BY DEF shared_dir, counts, BuilderInv, TypeOK
<1>4. "shared_dir" \notin DiskCall \cup LinuxCall \cup EfiCall
  BY DEF LinuxCall, EfiCall, DiskCall
<1> HIDE DEF c
<1> QED
  BY <1>1, <1>2, <1>3, <1>4, CallStep

(* The first bytes of an address, as they are derived.                     *)
LEMMA Derived ==
  ASSUME NEW h \in [1..8 -> Byte]
  PROVE  /\ deterministic(h) \in Address
         /\ deterministic(h) = << 82, 85, 85 >> \o SubSeq(h, 1, 3)
<1>1. \A i \in 1..8 : h[i] \in Byte
  OBVIOUS
<1>2. deterministic(h) \in Address
  <2>1. 82 \in Byte /\ 85 \in Byte
    BY DEF Byte
  <2>2. h[1] \in Byte /\ h[2] \in Byte /\ h[3] \in Byte
    BY <1>1
  <2> DEFINE a == << 82, 85, 85, h[1], h[2], h[3] >>
  <2>3. a \in [1..6 -> Byte]
    BY <2>1, <2>2
  <2> QED
    BY <2>3 DEF deterministic, Address
<1>3. h \in Seq(Byte) /\ Len(h) = 8
  <2>1. h = [ i \in 1..8 |-> h[i] ]
    OBVIOUS
  <2> QED
    BY <1>1, <2>1, IsASeq
<1>4. SubSeq(h, 1, 3) = << h[1], h[2], h[3] >>
  <2> DEFINE t == SubSeq(h, 1, 3)
  <2>1. /\ t \in Seq(Byte) /\ Len(t) = (IF 1 <= 3 THEN (3 - 1) + 1 ELSE 0)
        /\ \A i \in 1..(3 - 1) + 1 : t[i] = h[1 + i - 1]
    BY <1>1, <1>3, SubSeqProperties
  <2> HIDE DEF t
  <2>2. Len(t) = 3 /\ t[1] = h[1] /\ t[2] = h[2] /\ t[3] = h[3]
    BY <2>1
  <2> DEFINE u == << h[1], h[2], h[3] >>
  <2>3. u \in Seq(Byte) /\ Len(u) = 3 /\ u[1] = h[1] /\ u[2] = h[2] /\ u[3] = h[3]
    BY <1>1
  <2> HIDE DEF u
  <2>4. t = u
    BY <2>1, <2>2, <2>3, SeqEqual
  <2> QED
    BY <2>4 DEF t, u
<1> QED
  BY <1>2, <1>4 DEF deterministic

LEMMA MacStep ==
  ASSUME BuilderInv,
         \/ \E t \in Spelled : set_mac(t)
         \/ \E s \in Seed : deterministic_mac(s)
  PROVE  BuilderInv'
<1>1. \A m \in { "mac", "deterministic_mac" } :
        /\ m \notin DiskCall \cup LinuxCall \cup EfiCall
        /\ m \notin { "serial_file", "shared_dir", "machine_identifier_path" }
  BY DEF LinuxCall, EfiCall, DiskCall
<1>2. calls \in Seq(Call)
  BY DEF BuilderInv, TypeOK
<1>3. ASSUME NEW t \in Spelled, set_mac(t)
      PROVE  BuilderInv'
  <2> DEFINE c == CallOf("mac", t)
  <2>1. c \in Call /\ c.method = "mac" /\ c.arg = t /\ calls' = Append(calls, c)
    BY <1>3 DEF Call, CallOf, set_mac, Called, Made
  <2>2. mac' = t /\ t \in Text
    BY <1>3, BuilderAssumption DEF set_mac
  <2>3. MacPart(calls', mac')
    BY <1>2, <2>1, MacGiven
  <2>4. /\ cpus' \in Nat /\ memory_mib' \in Nat /\ boot_mode' = boot_mode /\ disks' = disks
        /\ shared_dirs' = shared_dirs /\ serial' = serial
        /\ machine_identifier_path' = machine_identifier_path /\ Made(c)
    BY <1>3 DEF set_mac, Called, counts, BuilderInv, TypeOK
  <2> QED
    BY <1>1, <2>1, <2>2, <2>3, <2>4, CallStep
<1>4. ASSUME NEW s \in Seed, deterministic_mac(s)
      PROVE  BuilderInv'
  <2> DEFINE c == CallOf("deterministic_mac", s)
  <2>1. c \in Call /\ c.method = "deterministic_mac" /\ c.arg = s /\ calls' = Append(calls, c)
    BY <1>4 DEF Call, CallOf, deterministic_mac, Called, Made
  <2>2. mac' = to_string(deterministic(HashOf[s]))
    BY <1>4 DEF deterministic_mac
  <2>3. mac' \in Text
    <3>1. HashOf[s] \in [1..8 -> Byte]
      BY BuilderAssumption
    <3>2. deterministic(HashOf[s]) \in Address
      BY <3>1, Derived
    <3> QED
      BY <2>2, <3>2, TextOfAddress
  <2>4. MacPart(calls', mac')
    BY <1>2, <2>1, <2>2, MacDerived
  <2>5. /\ cpus' \in Nat /\ memory_mib' \in Nat /\ boot_mode' = boot_mode /\ disks' = disks
        /\ shared_dirs' = shared_dirs /\ serial' = serial
        /\ machine_identifier_path' = machine_identifier_path /\ Made(c)
    BY <1>4 DEF deterministic_mac, Called, counts, BuilderInv, TypeOK
  <2> QED
    BY <1>1, <2>1, <2>3, <2>4, <2>5, CallStep
<1> QED
  BY <1>3, <1>4

LEMMA CountStep ==
  ASSUME BuilderInv,
         nat_network \/ \E n \in Count : set_cpus(n) \/ set_memory_mib(n)
  PROVE  BuilderInv'
<1>1. \A m \in { "nat_network", "cpus", "memory_mib" } :
        /\ m \notin DiskCall \cup LinuxCall \cup EfiCall
        /\ m \notin { "serial_file", "shared_dir", "machine_identifier_path", "mac",
                       "deterministic_mac" }
        /\ CallOf(m, None) \in Call /\ CallOf(m, None).method = m /\ CallOf(m, None).arg = None
  BY DEF LinuxCall, EfiCall, DiskCall, Call, CallOf
<1>2. /\ cpus' \in Nat /\ memory_mib' \in Nat /\ boot_mode' = boot_mode /\ disks' = disks
      /\ shared_dirs' = shared_dirs /\ serial' = serial
      /\ machine_identifier_path' = machine_identifier_path /\ mac' = mac
  BY BuilderAssumption
     DEF nat_network, set_cpus, set_memory_mib, counts, devices, BuilderInv, TypeOK
<1>3. PICK m \in { "nat_network", "cpus", "memory_mib" } : Made(CallOf(m, None))
  BY DEF nat_network, set_cpus, set_memory_mib, Called
<1> QED
  BY <1>1, <1>2, <1>3, CallStep

(* build() changes nothing but the verdict.                                *)
LEMMA BuildStep ==
  ASSUME BuilderInv, build
  PROVE  BuilderInv'
<1>1. UNCHANGED << boot_mode, cpus, memory_mib, disks, mac, serial, shared_dirs,
                   machine_identifier_path, calls >>
  BY DEF build, counts, devices
<1>2. Verdict' = Verdict /\ result' = Verdict
  BY <1>1 DEF build, Verdict, StoreHasNoParent
<1>3. Verdict \in { "ok", "Validation", "BootFilesNotFound", "DiskNotFound" }
  BY DEF Verdict
<1>4. TypeOK' /\ VerdictInv'
  BY <1>1, <1>2, <1>3 DEF BuilderInv, TypeOK, VerdictInv
<1> QED
  BY <1>1, <1>4, InvSaid

(* A new builder.                                                          *)
LEMMA NewBuilder ==
  ASSUME NEW q, q = << >>
  PROVE  Said(q, Linux(None, None, None), << >>, << >>, None, None, << >>)
<1>1. q \in Seq(Call) /\ Len(q) = 0
  BY EmptySeq
<1>2. \A M : CallsIn(q, M) = { }
  BY <1>1 DEF CallsIn
<1>3. ASSUME NEW M
      PROVE  LastIn(q, M) = 0
  <2>1. LastIn(q, M) \in 0..Len(q)
    BY <1>1, LastCall
  <2> QED
    BY <1>1, <2>1
<1>4. Cardinality({ }) = 0 /\ Len(<< >>) = 0
  BY FS_EmptySet, EmptySeq
<1>5. DiskPart(q, << >>) /\ DirPart(q, << >>)
  BY <1>2, <1>4 DEF DiskPart, DirPart
<1>6. \A m : ArgIn(q, m, 0) = None
  BY <1>3 DEF ArgIn
<1>7. BootPart(q, Linux(None, None, None))
  BY <1>3, <1>6 DEF BootPart
<1>8. MacPart(q, << >>)
  BY <1>3 DEF MacPart
<1> QED
  BY <1>5, <1>6, <1>7, <1>8 DEF Said

LEMMA NewType ==
  /\ Linux(None, None, None) \in BootMode
  /\ << >> \in Seq([ path : Path, read_only : BOOLEAN ]) /\ << >> \in Seq(Shared)
  /\ << >> \in Seq(Call) /\ Len(<< >>) = 0 /\ 0 <= MaxCalls
  BY LinuxModes, EmptySeq, BuilderAssumption

LEMMA BeginStep ==
  ASSUME BuilderInv, begin
  PROVE  BuilderInv'
<1>1. TypeOK' /\ VerdictInv'
  BY NewType DEF begin, TypeOK, VerdictInv
<1> QED
  BY <1>1, NewBuilder, InvSaid DEF begin

LEMMA InitBuilderInv == Init => BuilderInv
<1> SUFFICES ASSUME Init PROVE BuilderInv
  OBVIOUS
<1>1. TypeOK /\ VerdictInv
  BY NewType DEF Init, TypeOK, VerdictInv
<1> QED
  BY <1>1, NewBuilder, InvSaid DEF Init

LEMMA NextBuilderInv ==
  ASSUME BuilderInv, [Next]_vars
  PROVE  BuilderInv'
<1>1. CASE UNCHANGED vars
  <2>1. UNCHANGED << boot_mode, cpus, memory_mib, disks, mac, serial, shared_dirs,
                     machine_identifier_path, calls, result >>
    BY <1>1 DEF vars, counts, devices
  <2>2. TypeOK' /\ VerdictInv'
    BY <2>1 DEF BuilderInv, TypeOK, VerdictInv, Verdict, StoreHasNoParent
  <2> QED
    BY <2>1, <2>2, InvSaid
<1>2. CASE \E s \in Path : efi_variable_store(s)
  BY <1>2, EfiStep DEF efi_variable_store, EfiCall
<1>3. CASE efi_boot
  BY <1>3, EfiStep DEF efi_boot, EfiCall
<1> QED
  BY <1>1, <1>2, <1>3, BootStep, InitrdStep, CmdlineStep, DiskStep, FieldStep, SharedDirStep, MacStep,
     CountStep, BuildStep, BeginStep DEF Next

(* What the invariant says of an address, and of a configuration that was  *)
(* accepted.                                                               *)
LEMMA InvReadBack == BuilderInv => MacIsReadBack
<1> SUFFICES ASSUME BuilderInv, LastOf({ "deterministic_mac" }) > LastOf({ "mac" })
             PROVE  LET s == LastOf({ "deterministic_mac" })
                    IN  /\ Parses(mac)
                        /\ parse(mac) = << 82, 85, 85 >> \o SubSeq(HashOf[calls[s].arg], 1, 3)
  BY DEF MacIsReadBack
<1> DEFINE s == LastOf({ "deterministic_mac" })
<1>1. calls[s].arg \in Seed /\ mac = to_string(deterministic(HashOf[calls[s].arg]))
  BY DEF BuilderInv, MacInv
<1>2. HashOf[calls[s].arg] \in [1..8 -> Byte]
  BY <1>1, BuilderAssumption
<1>3. /\ deterministic(HashOf[calls[s].arg]) \in Address
      /\ deterministic(HashOf[calls[s].arg])
           = << 82, 85, 85 >> \o SubSeq(HashOf[calls[s].arg], 1, 3)
  BY <1>2, Derived
<1> QED
  BY <1>1, <1>3, ReadBack

LEMMA InvAccepted == BuilderInv => AcceptedFilesArePresent
<1> SUFFICES ASSUME BuilderInv, result = "ok" PROVE AcceptedFilesArePresent
  BY DEF AcceptedFilesArePresent
<1> DEFINE l == LastIn(calls, LinuxCall)
           e == LastIn(calls, EfiCall)
<1>1. /\ calls \in Seq(Call) /\ Verdict = "ok" /\ disks \in Seq([ path : Path, read_only : BOOLEAN ])
      /\ BootPart(calls, boot_mode) /\ DiskPart(calls, disks)
  BY InvSaid DEF BuilderInv, VerdictInv, TypeOK, Said
<1>2. /\ disks # << >> /\ \A i \in DOMAIN disks : disks[i].path \in Present
      /\ boot_mode.kind = "Linux" => boot_mode.kernel \in Present /\ boot_mode.initrd \in Present
      /\ boot_mode.kind = "Efi" => boot_mode.variable_store \notin Parentless
  BY <1>1 DEF Verdict, BootFiles, StoreHasNoParent
<1>3. l \in Nat /\ e \in Nat
  BY <1>1, LastCall
<1>4. ASSUME NEW i \in CallsIn(calls, DiskCall)
      PROVE  calls[i].arg \in Present
  <2>1. RankIn(calls, DiskCall, i) \in 1..Len(disks)
    <3>1. PICK c : c \in Call
      BY <1>1, <1>4 DEF CallsIn
    <3> QED
      BY <1>1, <1>4, <3>1, RanksGrow DEF DiskPart
  <2>2. disks[RankIn(calls, DiskCall, i)] = Device(calls[i])
    BY <1>1, <1>4 DEF DiskPart
  <2>3. disks[RankIn(calls, DiskCall, i)].path \in Present
    BY <1>1, <1>2, <2>1
  <2> QED
    BY <2>2, <2>3 DEF Device
<1>5. CallsIn(calls, DiskCall) # { }
  <2>1. Len(disks) # 0
    BY <1>1, <1>2
  <2> QED
    BY <1>1, <2>1, FS_EmptySet DEF DiskPart
<1>6. ASSUME e <= l
      PROVE  ArgIn(calls, "boot", 0) \in Present /\ ArgIn(calls, "initrd", 0) \in Present
  <2>1. boot_mode = Linux(ArgIn(calls, "boot", e), ArgIn(calls, "initrd", e),
                          ArgIn(calls, "cmdline", e))
    BY <1>1, <1>3, <1>6 DEF BootPart
  <2>2. ArgIn(calls, "boot", e) \in Present /\ ArgIn(calls, "initrd", e) \in Present
    BY <1>2, <2>1 DEF Linux
  <2>3. ASSUME NEW m, ArgIn(calls, m, e) \in Present
        PROVE  ArgIn(calls, m, 0) \in Present
    <3>1. None \notin Present
      BY BuilderAssumption
    <3>2. LastIn(calls, { m }) > e /\ LastIn(calls, { m }) \in Nat
      BY <1>1, <2>3, <3>1, LastCall DEF ArgIn
    <3>3. LastIn(calls, { m }) > 0
      BY <1>3, <3>2
    <3> QED
      BY <2>3, <3>2, <3>3 DEF ArgIn
  <2> QED
    BY <2>2, <2>3
<1>7. ASSUME e > l
      PROVE  ArgIn(calls, "efi_variable_store", l) \notin Parentless
  <2>1. boot_mode = Efi(ArgIn(calls, "efi_variable_store", l))
    BY <1>1, <1>7 DEF BootPart
  <2> QED
    BY <1>2, <2>1 DEF Efi
<1> QED
  BY <1>4, <1>5, <1>6, <1>7
     DEF AcceptedFilesArePresent, CallsOf, CallsIn, LastOf, LastIn, LastArg, ArgIn

-----------------------------------------------------------------------------
(* The theorems.                                                           *)

(* The inductive invariant holds after any number of calls, of any number  *)
(* of builders (VmConfigBuilder).                                          *)
THEOREM BuilderInvariance == Spec => []BuilderInv
<1>1. BuilderInv /\ [Next]_vars => BuilderInv'
  BY NextBuilderInv
<1> QED
  BY InitBuilderInv, <1>1, PTL DEF Spec

(* Type correctness: the accumulator is a boot mode of one kind or the     *)
(* other, with the fields of that kind (BootMode).                         *)
THEOREM BuilderTypeCorrect == Spec => []TypeOK
<1>1. BuilderInv => TypeOK
  BY DEF BuilderInv
<1> QED
  BY BuilderInvariance, <1>1, PTL

(* The boot mode and its fields are what the calls say they are, whatever  *)
(* their order (boot, initrd, cmdline, efi_boot, efi_variable_store).      *)
THEOREM BootAsCalled == Spec => []BootIsAsCalled
<1>1. BuilderInv => BootIsAsCalled
  BY DEF BuilderInv
<1> QED
  BY BuilderInvariance, <1>1, PTL

(* No disk and no shared directory is lost, moved, renamed or made         *)
(* writable (disk, disk_readonly, shared_dir).                             *)
THEOREM DevicesAsCalled == Spec => []DevicesAreAsCalled
<1>1. BuilderInv => DevicesAreAsCalled
  BY DEF BuilderInv
<1> QED
  BY BuilderInvariance, <1>1, PTL

(* A derived MAC address is read back as it was derived, whatever the hash *)
(* (deterministic_mac, MacAddress::parse).                                 *)
THEOREM MacReadBack == Spec => []MacIsReadBack
  BY BuilderInvariance, InvReadBack, PTL

(* A configuration is accepted only when the disks, and the boot files     *)
(* that the calls name for the mode they end in, are there; shared         *)
(* directories are not looked for (build, validate).                       *)
THEOREM AcceptedFiles == Spec => []AcceptedFilesArePresent
  BY BuilderInvariance, InvAccepted, PTL
=============================================================================
