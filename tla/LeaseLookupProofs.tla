-------------------------- MODULE LeaseLookupProofs --------------------------
(***************************************************************************)
(* Theorems about LeaseLookup, for any file, server and timeout.  The      *)
(* first part is about reading a text line by line, the second about the   *)
(* text of the server's blocks and what is read of it, the third about     *)
(* wait_for_ip.                                                            *)
(***************************************************************************)
EXTENDS LeaseLookupInv, NumberSets, SequenceTheorems, TLAPS

Empty == [ leases |-> << >>, cur |-> Fields ]

(* f is what has been read after each of the first n lines.                *)
Reads(f, text, n) ==
  f = [ i \in 0..n |-> IF i = 0 THEN Empty ELSE ParseLine(f[i - 1], text[i]) ]

LEMMA ReadsExist ==
  ASSUME NEW text, NEW n \in Nat
  PROVE  \E f : Reads(f, text, n)
<1> DEFINE T == { k \in Nat : ~ \E f : Reads(f, text, k) }
<1> SUFFICES ASSUME T # { } PROVE FALSE
  OBVIOUS
<1>1. PICK k \in T : \A m \in T : k <= m
  BY LeastNumber
<1>2. CASE k = 0
  <2>1. Reads([ i \in 0..0 |-> Empty ], text, 0)
    BY DEF Reads
  <2> QED
    BY <1>2, <2>1
<1>3. CASE k # 0
  <2>1. k - 1 \in Nat /\ k - 1 \notin T
    BY <1>1, <1>3
  <2>2. PICK f : Reads(f, text, k - 1)
    BY <2>1
  <2> DEFINE g == [ i \in 0..k |-> IF i = k THEN ParseLine(f[k - 1], text[k]) ELSE f[i] ]
  <2>3. \A i \in 0..k - 1 : f[i] = IF i = 0 THEN Empty ELSE ParseLine(f[i - 1], text[i])
    BY <2>2 DEF Reads
  <2>4. \A i \in 0..k : g[i] = IF i = 0 THEN Empty ELSE ParseLine(g[i - 1], text[i])
    <3>1. ASSUME NEW i \in 0..k
          PROVE  g[i] = IF i = 0 THEN Empty ELSE ParseLine(g[i - 1], text[i])
      <4>1. CASE i = 0
        BY <1>3, <2>1, <2>3, <4>1
      <4>2. CASE i = k
        <5>1. g[k - 1] = f[k - 1]
          BY <2>1
        <5> QED
          BY <1>3, <4>2, <5>1
      <4>3. CASE i \in 1..k - 1
        <5>1. g[i] = f[i] /\ g[i - 1] = f[i - 1] /\ i \in 0..k - 1
          BY <2>1, <4>3
        <5> QED
          BY <2>3, <4>3, <5>1
      <4> QED
        BY <2>1, <4>1, <4>2, <4>3
    <3> QED
      BY <3>1
  <2>5. g = [ i \in 0..k |-> g[i] ]
    OBVIOUS
  <2> HIDE DEF g
  <2>6. Reads(g, text, k)
    BY <2>4, <2>5 DEF Reads
  <2> QED
    BY <2>6
<1> QED
  BY <1>2, <1>3

(* The reading of a text begins as that of what the text begins with.      *)
LEMMA ReadsAgree ==
  ASSUME NEW t, NEW u, NEW k \in Nat, \A i \in 1..k : t[i] = u[i],
         NEW f, NEW g, Reads(f, t, k), Reads(g, u, k + 1)
  PROVE  f[k] = g[k]
<1> DEFINE T == { i \in 0..k : f[i] # g[i] }
<1> SUFFICES ASSUME T # { } PROVE FALSE
  OBVIOUS
<1>1. PICK i \in T : \A j \in T : i <= j
  <2>1. T \subseteq Nat
    OBVIOUS
  <2> HIDE DEF T
  <2> QED
    BY <2>1, LeastNumber
<1>2. /\ f[i] = IF i = 0 THEN Empty ELSE ParseLine(f[i - 1], t[i])
      /\ g[i] = IF i = 0 THEN Empty ELSE ParseLine(g[i - 1], u[i])
  BY <1>1 DEF Reads
<1>3. i # 0
  BY <1>1, <1>2
<1>4. i - 1 \in 0..k /\ ~ (i <= i - 1) /\ i \in 1..k
  BY <1>3
<1>5. f[i - 1] = g[i - 1]
  BY <1>1, <1>4
<1> QED
  BY <1>1, <1>2, <1>3, <1>4, <1>5

LEMMA ParsedReads ==
  ASSUME NEW text, Len(text) \in Nat
  PROVE  \E f : Reads(f, text, Len(text)) /\ parsed(text) = f[Len(text)]
<1> DEFINE f == CHOOSE f : Reads(f, text, Len(text))
<1>1. Reads(f, text, Len(text))
  BY ReadsExist
<1>2. parsed(text) = f[Len(text)]
  BY DEF parsed, Reads, Empty
<1> QED
  BY <1>1, <1>2

(* Reading nothing, and reading one line more.                             *)
LEMMA ParsedEmpty == parsed(<< >>) = Empty
<1>1. Len(<< >>) = 0
  BY EmptySeq
<1>2. PICK f : Reads(f, << >>, 0) /\ parsed(<< >>) = f[0]
  BY <1>1, ParsedReads
<1> QED
  BY <1>2 DEF Reads

LEMMA ParsedAppend ==
  ASSUME NEW S, NEW text \in Seq(S), NEW l \in S
  PROVE  parsed(Append(text, l)) = ParseLine(parsed(text), l)
<1> DEFINE r == Append(text, l)
           n == Len(text)
<1>1. n \in Nat /\ Len(r) = n + 1 /\ r[n + 1] = l /\ \A i \in 1..n : r[i] = text[i]
  BY AppendProperties
<1> HIDE DEF r
<1>2. PICK f : Reads(f, text, n) /\ parsed(text) = f[n]
  BY <1>1, ParsedReads
<1>3. PICK g : Reads(g, r, n + 1) /\ parsed(r) = g[n + 1]
  BY <1>1, ParsedReads
<1> HIDE DEF n
<1>4. g[n] = f[n]
  <2>1. \A i \in 1..n : text[i] = r[i]
    BY <1>1
  <2> QED
    BY <1>1, <1>2, <1>3, <2>1, ReadsAgree
<1>5. g[n + 1] = ParseLine(g[n], r[n + 1])
  <2>1. n + 1 \in 0..n + 1 /\ n + 1 # 0 /\ (n + 1) - 1 = n
    BY <1>1
  <2> QED
    BY <1>3, <2>1 DEF Reads
<1> QED
  BY <1>1, <1>2, <1>3, <1>4, <1>5 DEF r

-----------------------------------------------------------------------------
(* The text of the server's blocks.                                        *)

(* f is the first n of some sequences, put one after the other.            *)
Joins(f, seqs, n) ==
  f = [ i \in 1..n |-> IF i = 1 THEN seqs[i] ELSE f[i - 1] \o seqs[i] ]

LEMMA JoinsExist ==
  ASSUME NEW seqs, NEW n \in Nat
  PROVE  \E f : Joins(f, seqs, n)
<1> DEFINE T == { k \in Nat : ~ \E f : Joins(f, seqs, k) }
<1> SUFFICES ASSUME T # { } PROVE FALSE
  OBVIOUS
<1>1. PICK k \in T : \A m \in T : k <= m
  BY LeastNumber
<1>2. CASE k = 0
  <2>1. Joins([ i \in 1..0 |-> Empty ], seqs, 0)
    BY DEF Joins
  <2> QED
    BY <1>2, <2>1
<1>3. CASE k # 0
  <2>1. k - 1 \in Nat /\ k - 1 \notin T
    BY <1>1, <1>3
  <2>2. PICK f : Joins(f, seqs, k - 1)
    BY <2>1
  <2> DEFINE g == [ i \in 1..k |-> IF i # k THEN f[i]
                                  ELSE IF i = 1 THEN seqs[i] ELSE f[i - 1] \o seqs[i] ]
  <2>3. \A i \in 1..k - 1 : f[i] = IF i = 1 THEN seqs[i] ELSE f[i - 1] \o seqs[i]
    BY <2>2 DEF Joins
  <2>4. \A i \in 1..k : g[i] = IF i = 1 THEN seqs[i] ELSE g[i - 1] \o seqs[i]
    <3>1. ASSUME NEW i \in 1..k
          PROVE  g[i] = IF i = 1 THEN seqs[i] ELSE g[i - 1] \o seqs[i]
      <4>1. i # 1 => g[i - 1] = f[i - 1]
        BY <2>1
      <4>2. CASE i = k
        BY <2>1, <4>1, <4>2
      <4>3. CASE i \in 1..k - 1
        <5>1. g[i] = f[i]
          BY <2>1, <4>3
        <5> QED
          BY <2>3, <4>1, <4>3, <5>1
      <4> QED
        BY <2>1, <4>2, <4>3
    <3> QED
      BY <3>1
  <2>5. g = [ i \in 1..k |-> g[i] ]
    OBVIOUS
  <2> HIDE DEF g
  <2>6. Joins(g, seqs, k)
    BY <2>4, <2>5 DEF Joins
  <2> QED
    BY <2>6
<1> QED
  BY <1>2, <1>3

LEMMA JoinsAgree ==
  ASSUME NEW t, NEW u, NEW k \in Nat, k > 0, \A i \in 1..k : t[i] = u[i],
         NEW f, NEW g, Joins(f, t, k), Joins(g, u, k + 1)
  PROVE  f[k] = g[k]
<1> DEFINE T == { i \in 1..k : f[i] # g[i] }
<1> SUFFICES ASSUME T # { } PROVE FALSE
  OBVIOUS
<1>1. PICK i \in T : \A j \in T : i <= j
  <2>1. T \subseteq Nat
    OBVIOUS
  <2> HIDE DEF T
  <2> QED
    BY <2>1, LeastNumber
<1>2. /\ f[i] = IF i = 1 THEN t[i] ELSE f[i - 1] \o t[i]
      /\ g[i] = IF i = 1 THEN u[i] ELSE g[i - 1] \o u[i]
  <2>1. i \in 1..k /\ i \in 1..k + 1
    BY <1>1
  <2> QED
    BY <2>1 DEF Joins
<1>3. i # 1 /\ t[i] = u[i]
  BY <1>1, <1>2
<1>4. i - 1 \in 1..k /\ ~ (i <= i - 1)
  BY <1>3
<1>5. f[i - 1] = g[i - 1]
  BY <1>1, <1>4
<1> QED
  BY <1>1, <1>2, <1>3, <1>5

LEMMA FlattenJoins ==
  ASSUME NEW seqs, Len(seqs) \in Nat, Len(seqs) # 0
  PROVE  \E f : Joins(f, seqs, Len(seqs)) /\ FlattenSeq(seqs) = f[Len(seqs)]
<1> DEFINE f == CHOOSE f : Joins(f, seqs, Len(seqs))
<1>1. Joins(f, seqs, Len(seqs))
  BY JoinsExist
<1>2. FlattenSeq(seqs) = f[Len(seqs)]
  BY DEF FlattenSeq, Joins
<1> QED
  BY <1>1, <1>2

LEMMA FlattenAppend ==
  ASSUME NEW S, NEW seqs \in Seq(Seq(S)), NEW e \in Seq(S)
  PROVE  FlattenSeq(Append(seqs, e)) = FlattenSeq(seqs) \o e
<1> DEFINE r == Append(seqs, e)
           n == Len(seqs)
<1>1. n \in Nat /\ Len(r) = n + 1 /\ r[n + 1] = e /\ \A i \in 1..n : r[i] = seqs[i]
  BY AppendProperties
<1> HIDE DEF r
<1>2. PICK g : Joins(g, r, n + 1) /\ FlattenSeq(r) = g[n + 1]
  BY <1>1, FlattenJoins
<1>3. CASE n = 0
  <2>1. seqs = << >> /\ FlattenSeq(seqs) = << >>
    BY <1>3 DEF FlattenSeq
  <2>2. g[n + 1] = e
    BY <1>1, <1>2, <1>3 DEF Joins
  <2>3. << >> \o e = e
    BY ConcatEmptySeq
  <2> QED
    BY <1>2, <2>1, <2>2, <2>3 DEF r
<1>4. CASE n # 0
  <2>1. PICK f : Joins(f, seqs, n) /\ FlattenSeq(seqs) = f[n]
    BY <1>1, <1>4, FlattenJoins
  <2> HIDE DEF n
  <2>2. f[n] = g[n]
    <3>1. \A i \in 1..n : seqs[i] = r[i]
      BY <1>1
    <3>2. n > 0
      BY <1>1, <1>4
    <3> QED
      BY <1>1, <1>2, <2>1, <3>1, <3>2, JoinsAgree
  <2>3. g[n + 1] = g[n] \o r[n + 1]
    <3>1. n + 1 \in 1..n + 1 /\ n + 1 # 1 /\ (n + 1) - 1 = n
      BY <1>1, <1>4
    <3> QED
      BY <1>2, <3>1 DEF Joins
  <2> QED
    BY <1>1, <1>2, <2>1, <2>2, <2>3 DEF r
<1> QED
  BY <1>3, <1>4

(* The lines of the file.                                                  *)
FileLine == [ key : { "{", "}", "name", "ip", "hw", "other" },
              val : Name \cup Ip \cup HwText \cup { None } ]

LEMMA BlockFields ==
  ASSUME NEW b \in Block
  PROVE  /\ b = [ name |-> b.name, ip |-> b.ip, hw |-> b.hw ]
         /\ b.name \in Name \cup { None } /\ b.ip \in Ip \cup { None }
         /\ b.hw \in HwText \cup { None }
  BY LeaseAssumption

LEMMA TwoLines ==
  ASSUME NEW S, NEW x \in S, NEW y \in S
  PROVE  << x, y >> \in Seq(S)
  OBVIOUS

LEMMA OneLine ==
  ASSUME NEW S, NEW x \in S
  PROVE  << x >> \in Seq(S) /\ Len(<< x >>) = 1 /\ << x >>[1] = x
  OBVIOUS

(* A field is a line, which closes no block, or nothing.                   *)
LEMMA GivenLines ==
  ASSUME NEW k \in { "name", "ip", "hw" }, NEW v \in Name \cup Ip \cup HwText \cup { None }
  PROVE  /\ Given(k, v) \in Seq(FileLine)
         /\ \A i \in 1..Len(Given(k, v)) : Given(k, v)[i].key # "}"
         /\ v # None => Given(k, v) = << Line(k, v) >> /\ Line(k, v) \in FileLine
<1> DEFINE l == Line(k, v)
<1>1. l \in FileLine /\ l.key # "}"
  BY DEF Line, FileLine
<1>2. CASE v = None
  <2>1. Given(k, v) = << >>
    BY <1>2 DEF Given
  <2> QED
    BY <1>2, <2>1
<1>3. CASE v # None
  <2>1. Given(k, v) = << l >>
    BY <1>3 DEF Given
  <2> HIDE DEF l
  <2>2. << l >> \in Seq(FileLine) /\ Len(<< l >>) = 1 /\ << l >>[1] = l
    BY <1>1, OneLine
  <2>3. \A i \in 1..Len(<< l >>) : << l >>[i].key # "}"
    <3>1. \A i \in 1..1 : i = 1
      OBVIOUS
    <3> QED
      BY <1>1, <2>2, <3>1
  <2> QED
    BY <1>1, <1>3, <2>1, <2>2, <2>3 DEF l
<1> QED
  BY <1>2, <1>3

Opening  == Line("{", None)
Other    == Line("other", None)
Closing  == Line("}", None)

LEMMA FixedLines ==
  /\ Opening \in FileLine /\ Other \in FileLine /\ Closing \in FileLine
  /\ Opening.key = "{" /\ Other.key = "other" /\ Closing.key = "}"
  BY DEF Opening, Other, Closing, Line, FileLine

(* What a block begins with.                                               *)
Opened(b) ==
  << Opening >> \o Given("name", b.name) \o Given("ip", b.ip) \o Given("hw", b.hw)

Unclosed(q) == q \in Seq(FileLine) /\ \A i \in 1..Len(q) : q[i].key # "}"

LEMMA ConcatUnclosed ==
  ASSUME NEW q, NEW r, Unclosed(q), Unclosed(r)
  PROVE  Unclosed(q \o r)
<1>1. /\ q \o r \in Seq(FileLine) /\ Len(q \o r) = Len(q) + Len(r)
      /\ \A i \in 1..Len(q) + Len(r) :
           (q \o r)[i] = IF i <= Len(q) THEN q[i] ELSE r[i - Len(q)]
      /\ Len(q) \in Nat /\ Len(r) \in Nat
  BY ConcatProperties, LenProperties DEF Unclosed
<1>2. ASSUME NEW i \in 1..Len(q) + Len(r)
      PROVE  (q \o r)[i].key # "}"
  <2>1. CASE i <= Len(q)
    <3>1. i \in 1..Len(q)
      BY <1>1, <2>1
    <3> QED
      BY <1>1, <2>1, <3>1 DEF Unclosed
  <2>2. CASE ~ (i <= Len(q))
    <3>1. i - Len(q) \in 1..Len(r)
      BY <1>1, <2>2
    <3> QED
      BY <1>1, <2>2, <3>1 DEF Unclosed
  <2> QED
    BY <2>1, <2>2
<1> QED
  BY <1>1, <1>2 DEF Unclosed

LEMMA TwoMore ==
  ASSUME NEW S, NEW q \in Seq(S), NEW x \in S, NEW y \in S
  PROVE  q \o << x, y >> = Append(Append(q, x), y)
<1> DEFINE u == << x, y >>
           r == Append(q, x)
           a == q \o u
           b == Append(r, y)
<1>1. u \in Seq(S) /\ Len(u) = 2 /\ u[1] = x /\ u[2] = y /\ Len(q) \in Nat
  OBVIOUS
<1> HIDE DEF u
<1>2. /\ r \in Seq(S) /\ Len(r) = Len(q) + 1 /\ r[Len(q) + 1] = x
      /\ \A i \in 1..Len(q) : r[i] = q[i]
  BY AppendProperties
<1> HIDE DEF r
<1>3. /\ b \in Seq(S) /\ Len(b) = Len(r) + 1 /\ b[Len(r) + 1] = y
      /\ \A i \in 1..Len(r) : b[i] = r[i]
  BY <1>2, AppendProperties
<1>4. /\ a \in Seq(S) /\ Len(a) = Len(q) + Len(u)
      /\ \A i \in 1..Len(q) + Len(u) : a[i] = IF i <= Len(q) THEN q[i] ELSE u[i - Len(q)]
  BY <1>1, ConcatProperties
<1> HIDE DEF a, b
<1>5. Len(a) = Len(b) /\ Len(a) = Len(q) + 2
  BY <1>1, <1>2, <1>3, <1>4
<1>6. ASSUME NEW i \in 1..Len(a)
      PROVE  a[i] = b[i]
  <2>1. CASE i \in 1..Len(q)
    BY <1>1, <1>2, <1>3, <1>4, <2>1
  <2>2. CASE i = Len(q) + 1
    <3>1. a[i] = u[1]
      BY <1>1, <1>4, <2>2
    <3> QED
      BY <1>1, <1>2, <1>3, <2>2, <3>1
  <2>3. CASE i = Len(q) + 2
    <3>1. a[i] = u[2]
      BY <1>1, <1>4, <2>3
    <3> QED
      BY <1>1, <1>2, <1>3, <2>3, <3>1
  <2> QED
    BY <1>1, <1>5, <2>1, <2>2, <2>3
<1> QED
  BY <1>3, <1>4, <1>5, <1>6, SeqEqual DEF a, b, u, r

(* A block is closed by its last line only.                                *)
LEMMA TextParts ==
  ASSUME NEW b \in Block
  PROVE  /\ Unclosed(Append(Opened(b), Other))
         /\ Unclosed(Opened(b))
         /\ Text(b) = Append(Append(Opened(b), Other), Closing)
         /\ Text(b) \in Seq(FileLine)
<1>1. /\ Unclosed(Given("name", b.name)) /\ Unclosed(Given("ip", b.ip))
      /\ Unclosed(Given("hw", b.hw))
  BY BlockFields, GivenLines DEF Unclosed
<1>2. Unclosed(<< Opening >>) /\ Unclosed(<< Other >>)
  <2>1. ASSUME NEW x \in FileLine, x.key # "}"
        PROVE  Unclosed(<< x >>)
    <3>1. << x >> \in Seq(FileLine) /\ Len(<< x >>) = 1 /\ << x >>[1] = x
      BY OneLine
    <3>2. \A i \in 1..1 : i = 1
      OBVIOUS
    <3> QED
      BY <2>1, <3>1, <3>2 DEF Unclosed
  <2> QED
    BY <2>1, FixedLines
<1>3. Unclosed(Opened(b))
  BY <1>1, <1>2, ConcatUnclosed DEF Opened
<1>4. Opened(b) \in Seq(FileLine)
  BY <1>3 DEF Unclosed
<1>5. Append(Opened(b), Other) = Opened(b) \o << Other >>
  BY <1>4, FixedLines, AppendIsConcat
<1>6. Unclosed(Append(Opened(b), Other))
  BY <1>2, <1>3, <1>5, ConcatUnclosed
<1>7. Text(b) = Opened(b) \o << Other, Closing >>
  BY DEF Text, Opened, Opening, Other, Closing
<1>8. Text(b) = Append(Append(Opened(b), Other), Closing)
  <2>1. Other \in FileLine /\ Closing \in FileLine
    BY FixedLines
  <2>2. Opened(b) \o << Other, Closing >> = Append(Append(Opened(b), Other), Closing)
    BY <1>4, <2>1, TwoMore
  <2> QED
    BY <1>7, <2>2
<1>9. Text(b) \in Seq(FileLine)
  BY <1>6, <1>8, FixedLines, AppendProperties DEF Unclosed
<1> QED
  BY <1>3, <1>6, <1>8, <1>9

-----------------------------------------------------------------------------
(* What is read of it.                                                     *)

(* A lease, as it is read.                                                 *)
Stripped(b) == [b EXCEPT !.hw = StripType(@)]

(* What has been read: leases, and the fields of the block so far.         *)
Read(leases, n, i, h) ==
  [ leases |-> leases, cur |-> [ name |-> n, ip |-> i, hw |-> h ] ]

(* What a line does to it, by its key.                                     *)
LEMMA KeyOpening ==
  ASSUME NEW acc
  PROVE  ParseLine(acc, Opening) = acc /\ ParseLine(acc, Other) = acc
  BY DEF ParseLine, Opening, Other, Line

LEMMA KeyClosing ==
  ASSUME NEW leases, NEW n, NEW i, NEW h
  PROVE  ParseLine(Read(leases, n, i, h), Closing) =
           Read(IF i # None /\ h # None
                  THEN Append(leases, [ name |-> n, ip |-> i, hw |-> h ]) ELSE leases,
                None, None, None)
  BY DEF ParseLine, Closing, Line, Read, Fields

LEMMA KeyField ==
  ASSUME NEW leases, NEW n, NEW i, NEW h, NEW v
  PROVE  /\ ParseLine(Read(leases, n, i, h), Line("name", v)) = Read(leases, v, i, h)
         /\ ParseLine(Read(leases, n, i, h), Line("ip", v)) = Read(leases, n, v, h)
         /\ ParseLine(Read(leases, n, i, h), Line("hw", v)) = Read(leases, n, i, StripType(v))
  BY DEF ParseLine, Line, Read

LEMMA StripNone ==
  ASSUME NEW v \in HwText \cup { None }
  PROVE  StripType(v) = None <=> v = None
  BY LeaseAssumption DEF StripType, HwText

(* A field that was read before, or is read now.                           *)
LEMMA ReadGiven ==
  ASSUME NEW t \in Seq(FileLine), NEW k \in { "name", "ip", "hw" },
         NEW v \in Name \cup Ip \cup HwText \cup { None }
  PROVE  parsed(t \o Given(k, v)) = IF v = None THEN parsed(t) ELSE ParseLine(parsed(t), Line(k, v))
<1>1. CASE v = None
  BY <1>1, ConcatEmptySeq DEF Given
<1>2. CASE v # None
  <2>1. Given(k, v) = << Line(k, v) >> /\ Line(k, v) \in FileLine
    BY <1>2, GivenLines
  <2>2. t \o << Line(k, v) >> = Append(t, Line(k, v))
    BY <2>1, AppendIsConcat
  <2> QED
    BY <1>2, <2>1, <2>2, ParsedAppend
<1> QED
  BY <1>1, <1>2

(* A whole block adds its lease, if it has one, and leaves nothing behind. *)
LEMMA ReadBlock ==
  ASSUME NEW t \in Seq(FileLine), NEW b \in Block, NEW leases,
         parsed(t) = Read(leases, None, None, None)
  PROVE  parsed(t \o Text(b)) =
           Read(IF HasLease(b) THEN Append(leases, Stripped(b)) ELSE leases,
                None, None, None)
<1> DEFINE g1 == Given("name", b.name)
           g2 == Given("ip", b.ip)
           g3 == Given("hw", b.hw)
           t0 == t \o << Opening >>
           t1 == t0 \o g1
           t2 == t1 \o g2
           t3 == t2 \o g3
<1>1. /\ b = [ name |-> b.name, ip |-> b.ip, hw |-> b.hw ]
      /\ b.name \in Name \cup { None } /\ b.ip \in Ip \cup { None }
      /\ b.hw \in HwText \cup { None }
  BY BlockFields
<1>2. g1 \in Seq(FileLine) /\ g2 \in Seq(FileLine) /\ g3 \in Seq(FileLine)
  BY <1>1, GivenLines
<1>3. << Opening >> \in Seq(FileLine)
  BY FixedLines, OneLine
<1> HIDE DEF g1, g2, g3
<1>4. /\ t0 \in Seq(FileLine) /\ t1 \in Seq(FileLine) /\ t2 \in Seq(FileLine)
      /\ t3 \in Seq(FileLine)
  <2>1. t0 \in Seq(FileLine)
    BY <1>3, ConcatProperties
  <2>2. t1 \in Seq(FileLine)
    BY <1>2, <2>1, ConcatProperties
  <2>3. t2 \in Seq(FileLine)
    BY <1>2, <2>2, ConcatProperties
  <2> QED
    BY <1>2, <2>1, <2>2, <2>3, ConcatProperties
<1>5. parsed(t0) = Read(leases, None, None, None)
  <2>1. t0 = Append(t, Opening)
    BY FixedLines, AppendIsConcat
  <2> QED
    <3>1. parsed(t0) = ParseLine(parsed(t), Opening)
      BY <2>1, FixedLines, ParsedAppend
    <3>2. ParseLine(parsed(t), Opening) = parsed(t)
      BY KeyOpening
    <3> QED
      BY <3>1, <3>2
<1>6. parsed(t1) = Read(leases, b.name, None, None)
  <2>1. parsed(t1) = IF b.name = None THEN parsed(t0) ELSE ParseLine(parsed(t0), Line("name", b.name))
    BY <1>1, <1>4, ReadGiven DEF g1
  <2> QED
    <3>1. ParseLine(parsed(t0), Line("name", b.name)) =
            Read(leases, b.name, None, None)
      BY <1>5, KeyField
    <3> QED
      BY <1>5, <2>1, <3>1
<1>7. parsed(t2) = Read(leases, b.name, b.ip, None)
  <2>1. parsed(t2) = IF b.ip = None THEN parsed(t1) ELSE ParseLine(parsed(t1), Line("ip", b.ip))
    BY <1>1, <1>4, ReadGiven DEF g2
  <2> QED
    <3>1. ParseLine(parsed(t1), Line("ip", b.ip)) =
            Read(leases, b.name, b.ip, None)
      BY <1>6, KeyField
    <3> QED
      BY <1>6, <2>1, <3>1
<1>8. parsed(t3) = Read(leases, b.name, b.ip, StripType(b.hw))
  <2>1. parsed(t3) = IF b.hw = None THEN parsed(t2) ELSE ParseLine(parsed(t2), Line("hw", b.hw))
    BY <1>1, <1>4, ReadGiven DEF g3
  <2>2. b.hw = None => StripType(b.hw) = None
    BY <1>1, StripNone
  <2> QED
    <3>1. ParseLine(parsed(t2), Line("hw", b.hw)) =
            Read(leases, b.name, b.ip, StripType(b.hw))
      BY <1>7, KeyField
    <3> QED
      BY <1>7, <2>1, <2>2, <3>1
<1>9. t \o Text(b) = Append(Append(t3, Other), Closing)
  <2> DEFINE o == << Opening >> \o g1 \o g2 \o g3
             oc == << Other, Closing >>
  <2>1. t3 = t \o o
    <3>1. << Opening >> \o g1 \in Seq(FileLine) /\ << Opening >> \o g1 \o g2 \in Seq(FileLine)
      BY <1>2, <1>3, ConcatProperties
    <3>2. t1 = t \o (<< Opening >> \o g1)
      BY <1>2, <1>3, ConcatAssociative
    <3>3. t2 = t \o (<< Opening >> \o g1 \o g2)
      BY <1>2, <3>1, <3>2, ConcatAssociative
    <3>4. ASSUME NEW p \in Seq(FileLine)
          PROVE  (t \o p) \o g3 = t \o (p \o g3)
      <4>1. t \in Seq(FileLine) /\ g3 \in Seq(FileLine)
        BY <1>2
      <4> QED
        BY <3>4, <4>1, ConcatAssociative
    <3> QED
      BY <3>1, <3>3, <3>4
  <2>2. o \in Seq(FileLine) /\ oc \in Seq(FileLine)
    <3>1. o \in Seq(FileLine)
      <4>1. << Opening >> \o g1 \in Seq(FileLine)
        BY <1>2, <1>3, ConcatProperties
      <4>2. << Opening >> \o g1 \o g2 \in Seq(FileLine)
        BY <1>2, <4>1, ConcatProperties
      <4> QED
        BY <1>2, <4>2, ConcatProperties
    <3>2. oc \in Seq(FileLine)
      BY FixedLines, TwoLines
    <3> QED
      BY <3>1, <3>2
  <2>3. Text(b) = o \o oc
    BY DEF Text, Opening, Other, Closing, g1, g2, g3
  <2> HIDE DEF t3, o, oc
  <2>4. t \o Text(b) = t3 \o oc
    BY <2>1, <2>2, <2>3, ConcatAssociative
  <2>5. t3 \o oc = Append(Append(t3, Other), Closing)
    <3>1. Other \in FileLine /\ Closing \in FileLine
      BY FixedLines
    <3>2. t3 \o << Other, Closing >> = Append(Append(t3, Other), Closing)
      <4>1. ASSUME NEW q \in Seq(FileLine)
            PROVE  q \o << Other, Closing >> = Append(Append(q, Other), Closing)
        BY <3>1, TwoMore
      <4>2. t3 \in Seq(FileLine)
        BY <1>4
      <4> QED
        BY <4>1, <4>2
    <3> QED
      BY <3>2 DEF oc
  <2> QED
    BY <2>4, <2>5
<1> HIDE DEF t3
<1>10. parsed(Append(t3, Other)) = parsed(t3)
  <2>1. parsed(Append(t3, Other)) = ParseLine(parsed(t3), Other)
    BY <1>4, FixedLines, ParsedAppend
  <2>2. ParseLine(parsed(t3), Other) = parsed(t3)
    BY KeyOpening
  <2> QED
    BY <2>1, <2>2
<1>11. parsed(t \o Text(b)) = ParseLine(parsed(t3), Closing)
  <2>1. Append(t3, Other) \in Seq(FileLine)
    BY <1>4, FixedLines, AppendProperties
  <2> QED
    BY <1>9, <1>10, <2>1, FixedLines, ParsedAppend
<1>12. /\ HasLease(b) <=> b.ip # None /\ StripType(b.hw) # None
       /\ Stripped(b) = [ name |-> b.name, ip |-> b.ip, hw |-> StripType(b.hw) ]
  BY <1>1, StripNone DEF HasLease, Stripped
<1>13. parsed(t \o Text(b)) =
         Read(IF b.ip # None /\ StripType(b.hw) # None
                THEN Append(leases, [ name |-> b.name, ip |-> b.ip, hw |-> StripType(b.hw) ])
                ELSE leases,
              None, None, None)
  BY <1>8, <1>11, KeyClosing
<1> QED
  BY <1>12, <1>13

(* Lines that close no block leave the leases.                             *)
Keeps(text, leases) == \E n, i, h : parsed(text) = Read(leases, n, i, h)

LEMMA ReadUnclosed ==
  ASSUME NEW t \in Seq(FileLine), NEW l \in FileLine, l.key # "}", NEW leases, Keeps(t, leases)
  PROVE  Keeps(Append(t, l), leases)
<1> USE DEF Keeps
<1> PICK n, i, h : parsed(t) = Read(leases, n, i, h)
  OBVIOUS
<1>1. parsed(Append(t, l)) = ParseLine(parsed(t), l)
  BY ParsedAppend
<1>2. l = Line(l.key, l.val) /\ l.key \in { "{", "name", "ip", "hw", "other" }
  BY DEF FileLine, Line
<1>3. CASE l.key = "ip"
  BY <1>1, <1>2, <1>3, KeyField
<1>4. CASE l.key = "hw"
  BY <1>1, <1>2, <1>4, KeyField
<1>5. CASE l.key = "name"
  BY <1>1, <1>2, <1>5, KeyField
<1>6. CASE l.key \in { "{", "other" }
  <2>1. \A acc : ParseLine(acc, l) = acc
    BY <1>6 DEF ParseLine
  <2> QED
    BY <1>1, <2>1
<1> QED
  BY <1>2, <1>3, <1>4, <1>5, <1>6

-----------------------------------------------------------------------------
(* What the file begins with.                                              *)

(* The first k elements of a sequence, and one more.                       *)
LEMMA OneMore ==
  ASSUME NEW S, NEW s \in Seq(S), NEW k \in Nat, k < Len(s)
  PROVE  SubSeq(s, 1, k + 1) = Append(SubSeq(s, 1, k), s[k + 1])
<1>1. Len(s) \in Nat /\ 1 \in 1..Len(s) /\ k + 1 \in 1..Len(s) /\ (k + 1) - 1 = k
  BY LenProperties
<1>2. SubSeq(s, 1, k + 1) = SubSeq(s, 1, k) \o << s[k + 1] >>
  BY <1>1, SubSeqRecursiveSecond
<1>3. \A i \in 1..k : s[i] \in S
  BY <1>1, LenProperties
<1>4. SubSeq(s, 1, k) \in Seq(S)
  BY <1>3, SubSeqProperties
<1>5. s[k + 1] \in S
  BY <1>1, LenProperties
<1> QED
  BY <1>2, <1>4, <1>5, AppendIsConcat

(* The first k elements.                                                   *)
LEMMA First ==
  ASSUME NEW S, NEW s \in Seq(S), NEW k \in 0..Len(s)
  PROVE  /\ SubSeq(s, 1, k) \in Seq(S) /\ Len(SubSeq(s, 1, k)) = k
         /\ \A i \in 1..k : SubSeq(s, 1, k)[i] = s[i]
<1>1. Len(s) \in Nat /\ k \in Nat
  BY LenProperties
<1>2. \A i \in 1..k : s[i] \in S
  BY <1>1, LenProperties
<1>3. /\ SubSeq(s, 1, k) \in Seq(S)
      /\ Len(SubSeq(s, 1, k)) = IF 1 <= k THEN k - 1 + 1 ELSE 0
      /\ \A i \in 1..k - 1 + 1 : SubSeq(s, 1, k)[i] = s[1 + i - 1]
  BY <1>1, <1>2, SubSeqProperties
<1> QED
  BY <1>1, <1>3

LEMMA TextEmpty == TextOf(<< >>) = << >>
<1> DEFINE m == [ i \in DOMAIN << >> |-> Text(<< >>[i]) ]
<1>1. m = << >>
  OBVIOUS
<1>2. Len(<< >>) = 0
  BY EmptySeq
<1> HIDE DEF m
<1>3. FlattenSeq(m) = << >>
  BY <1>1, <1>2 DEF FlattenSeq
<1> QED
  BY <1>3 DEF TextOf, m

LEMMA TextAppend ==
  ASSUME NEW bs \in Seq(Block), NEW b \in Block
  PROVE  TextOf(Append(bs, b)) = TextOf(bs) \o Text(b)
<1> DEFINE c == Append(bs, b)
           n == Len(bs)
           m == [ i \in 1..n |-> Text(bs[i]) ]
           w == [ i \in 1..n + 1 |-> Text(c[i]) ]
           S == Seq(FileLine)
           e == Text(b)
           a == Append(m, e)
<1>1. /\ c \in Seq(Block) /\ Len(c) = n + 1 /\ c[n + 1] = b /\ n \in Nat
      /\ \A i \in 1..n : c[i] = bs[i] /\ bs[i] \in Block
      /\ DOMAIN bs = 1..n /\ DOMAIN c = 1..n + 1
  BY AppendProperties, LenProperties
<1>2. TextOf(bs) = FlattenSeq(m) /\ TextOf(c) = FlattenSeq(w)
  BY <1>1 DEF TextOf
<1>3. e \in S /\ \A i \in 1..n : m[i] \in S
  BY <1>1, TextParts
<1>4. m \in Seq(S) /\ Len(m) = n
  <2>1. m \in [ 1..n -> S ]
    BY <1>3
  <2> HIDE DEF m, S
  <2> QED
    BY <1>1, <2>1
<1> HIDE DEF c
<1>5. \A i \in 1..n + 1 : w[i] = IF i = n + 1 THEN e ELSE m[i]
  <2>1. ASSUME NEW i \in 1..n + 1
        PROVE  w[i] = IF i = n + 1 THEN e ELSE m[i]
    <3>1. CASE i = n + 1
      BY <1>1, <3>1
    <3>2. CASE i \in 1..n
      BY <1>1, <3>2
    <3> QED
      BY <1>1, <3>1, <3>2
  <2> QED
    BY <2>1
<1>6. w \in Seq(S) /\ Len(w) = n + 1
  <2>1. \A i \in 1..n + 1 : w[i] \in S
    <3> HIDE DEF w, m, e, S, n
    <3>1. \A i \in 1..n + 1 : i = n + 1 \/ i \in 1..n
      BY <1>1
    <3> QED
      BY <1>3, <1>5, <3>1
  <2>2. w \in [ 1..n + 1 -> S ]
    BY <2>1
  <2> HIDE DEF w, S
  <2> QED
    BY <1>1, <2>2
<1> HIDE DEF w, m, e, S, n
<1>7. /\ a \in Seq(S) /\ Len(a) = n + 1 /\ a[n + 1] = e
      /\ \A i \in 1..n : a[i] = m[i]
  BY <1>3, <1>4, AppendProperties
<1>8. w = a
  <2> HIDE DEF a
  <2>1. ASSUME NEW i \in 1..n + 1
        PROVE  w[i] = a[i]
    <3>1. i = n + 1 \/ (i # n + 1 /\ i \in 1..n)
      BY <1>1
    <3> QED
      BY <1>5, <1>7, <3>1
  <2> QED
    BY <1>6, <1>7, <2>1, SeqEqual
<1>9. FlattenSeq(a) = FlattenSeq(m) \o e
  BY <1>3, <1>4, FlattenAppend DEF S
<1> QED
  BY <1>2, <1>8, <1>9 DEF c, e

(* The text of the first k blocks.                                         *)
TextTo(bs, k) == TextOf(SubSeq(bs, 1, k))

LEMMA FrontNext ==
  ASSUME NEW bs \in Seq(Block), NEW k \in Nat, k < Len(bs)
  PROVE  /\ bs[k + 1] \in Block
         /\ TextTo(bs, k + 1) = TextTo(bs, k) \o Text(bs[k + 1])
<1>1. Len(bs) \in Nat /\ k \in 0..Len(bs) /\ k + 1 \in 1..Len(bs)
  BY LenProperties
<1>2. bs[k + 1] \in Block
  BY <1>1, LenProperties
<1>3. SubSeq(bs, 1, k) \in Seq(Block)
  BY <1>1, First
<1>4. SubSeq(bs, 1, k + 1) = Append(SubSeq(bs, 1, k), bs[k + 1])
  BY OneMore
<1> QED
  BY <1>2, <1>3, <1>4, TextAppend DEF TextTo

LEMMA FrontEnds ==
  ASSUME NEW bs \in Seq(Block)
  PROVE  TextTo(bs, 0) = << >> /\ TextTo(bs, Len(bs)) = TextOf(bs)
<1>1. SubSeq(bs, 1, 0) = << >>
  BY SubSeqEmpty
<1>2. SubSeq(bs, 1, Len(bs)) = bs
  BY SubSeqFull
<1> QED
  BY <1>1, <1>2, TextEmpty DEF TextTo

LEMMA FrontLines ==
  ASSUME NEW bs \in Seq(Block), NEW k \in 0..Len(bs)
  PROVE  TextTo(bs, k) \in Seq(FileLine)
<1> DEFINE T == { j \in 0..Len(bs) : TextTo(bs, j) \in Seq(FileLine) }
<1>1. Len(bs) \in Nat
  BY LenProperties
<1>2. << >> \in Seq(FileLine)
  OBVIOUS
<1>3. 0 \in T
  <2>1. TextTo(bs, 0) \in Seq(FileLine)
    BY <1>2, FrontEnds, Zenon
  <2> QED
    BY <1>1, <2>1
<1>4. ASSUME NEW j \in Nat, j < Len(bs), j \in T
      PROVE  j + 1 \in T
  <2>1. TextTo(bs, j) \in Seq(FileLine) /\ j + 1 \in 0..Len(bs)
    BY <1>1, <1>4
  <2>2. bs[j + 1] \in Block /\ TextTo(bs, j + 1) = TextTo(bs, j) \o Text(bs[j + 1])
    BY <1>4, FrontNext
  <2>3. Text(bs[j + 1]) \in Seq(FileLine)
    BY <2>2, TextParts
  <2> QED
    BY <2>1, <2>2, <2>3, ConcatProperties
<1> HIDE DEF T
<1>5. \A j \in 0..Len(bs) : j \in T
  BY <1>1, <1>3, <1>4, Upward
<1> QED
  BY <1>5 DEF T

(* The file begins with the text of its first blocks.                      *)
Begins(p, q) == Len(p) <= Len(q) /\ \A i \in 1..Len(p) : q[i] = p[i]

LEMMA FrontBegins ==
  ASSUME NEW bs \in Seq(Block), NEW k \in 0..Len(bs)
  PROVE  Begins(TextTo(bs, k), TextOf(bs))
<1> DEFINE T == { j \in 0..Len(bs) - k : Begins(TextTo(bs, k), TextTo(bs, k + j)) }
           p == TextTo(bs, k)
<1>1. Len(bs) \in Nat /\ k \in Nat /\ Len(bs) - k \in Nat
  BY LenProperties
<1>2. p \in Seq(FileLine) /\ Len(p) \in Nat
  BY FrontLines, LenProperties
<1>3. 0 \in T
  BY <1>1, <1>2 DEF Begins
<1>4. ASSUME NEW j \in Nat, j < Len(bs) - k, j \in T
      PROVE  j + 1 \in T
  <2> DEFINE q == TextTo(bs, k + j)
             r == TextTo(bs, (k + j) + 1)
             e == Text(bs[(k + j) + 1])
  <2>1. k + j \in Nat /\ k + j < Len(bs) /\ k + j \in 0..Len(bs) /\ j + 1 \in 0..Len(bs) - k
    BY <1>1, <1>4
  <2>2. bs[(k + j) + 1] \in Block /\ r = q \o e
    BY <2>1, FrontNext
  <2>3. e \in Seq(FileLine) /\ q \in Seq(FileLine)
    BY <2>1, <2>2, FrontLines, TextParts
  <2>4. Begins(p, q)
    BY <1>4
  <2> HIDE DEF p, q, r, e
  <2>5. /\ Len(r) = Len(q) + Len(e) /\ Len(q) \in Nat /\ Len(e) \in Nat
        /\ \A i \in 1..Len(q) + Len(e) : r[i] = IF i <= Len(q) THEN q[i] ELSE e[i - Len(q)]
    BY <2>2, <2>3, ConcatProperties, LenProperties
  <2>6. Begins(p, r)
    BY <1>2, <2>4, <2>5 DEF Begins
  <2>7. k + (j + 1) = (k + j) + 1
    BY <1>1
  <2> QED
    BY <2>1, <2>6, <2>7 DEF p, r
<1> HIDE DEF T
<1>5. \A j \in 0..Len(bs) - k : j \in T
  BY <1>1, <1>3, <1>4, Upward
<1>6. Len(bs) - k \in T /\ k + (Len(bs) - k) = Len(bs)
  BY <1>1, <1>5
<1> QED
  BY <1>6, FrontEnds DEF T

-----------------------------------------------------------------------------
(* What is read of it.                                                     *)

Lease == { Stripped(b) : b \in Block }

(* The blocks with a lease among the first k.                              *)
WholeOf(bs, k) == { i \in 1..k : HasLease(bs[i]) }
RankOf(bs, k, i) == Cardinality({ j \in WholeOf(bs, k) : j <= i })

(* The leases of the first k blocks, in their order.                       *)
LeasesOf(leases, bs, k) ==
  /\ leases \in Seq(Lease) /\ Len(leases) = Cardinality(WholeOf(bs, k))
  /\ \A i \in WholeOf(bs, k) : leases[RankOf(bs, k, i)] = Stripped(bs[i])

LEMMA NoLeases ==
  ASSUME NEW bs
  PROVE  LeasesOf(<< >>, bs, 0)
<1>1. WholeOf(bs, 0) = { }
  BY DEF WholeOf
<1>2. << >> \in Seq(Lease) /\ Len(<< >>) = 0
  OBVIOUS
<1> QED
  BY <1>1, <1>2, FS_EmptySet DEF LeasesOf

LEMMA LeaseAdded ==
  ASSUME NEW bs \in Seq(Block), NEW k \in Nat, k < Len(bs), NEW leases, LeasesOf(leases, bs, k)
  PROVE  LeasesOf(IF HasLease(bs[k + 1]) THEN Append(leases, Stripped(bs[k + 1])) ELSE leases,
                  bs, k + 1)
<1> DEFINE W == WholeOf(bs, k)
           V == WholeOf(bs, k + 1)
           x == Stripped(bs[k + 1])
           a == Append(leases, x)
<1>1. W \subseteq 1..k /\ V \subseteq 1..k + 1 /\ k + 1 \notin W
  BY DEF WholeOf
<1>2. \A i \in 1..k : ~ (k + 1 <= i) /\ i <= k
  OBVIOUS
<1>3. CASE ~ HasLease(bs[k + 1])
  <2>1. V = W
    <3>1. \A i \in 1..k + 1 : i \in 1..k \/ i = k + 1
      OBVIOUS
    <3>2. \A i \in 1..k : i \in 1..k + 1
      OBVIOUS
    <3> QED
      BY <1>3, <3>1, <3>2 DEF WholeOf
  <2> HIDE DEF V, W
  <2> QED
    BY <1>3, <2>1 DEF LeasesOf, RankOf, V, W
<1>4. CASE HasLease(bs[k + 1])
  <2>1. V = W \cup { k + 1 }
    <3>1. \A i \in 1..k + 1 : i \in 1..k \/ i = k + 1
      OBVIOUS
    <3>2. (\A i \in 1..k : i \in 1..k + 1) /\ k + 1 \in 1..k + 1
      OBVIOUS
    <3> QED
      BY <1>4, <3>1, <3>2 DEF WholeOf
  <2>2. x \in Lease
    <3>1. bs[k + 1] \in Block
      BY FrontNext
    <3> QED
      BY <3>1 DEF Lease
  <2>3. /\ leases \in Seq(Lease) /\ Len(leases) = Cardinality(W)
        /\ \A i \in W : leases[Cardinality({ j \in W : j <= i })] = Stripped(bs[i])
    BY DEF LeasesOf, RankOf
  <2> HIDE DEF V, W, x
  <2>4. /\ a \in Seq(Lease) /\ Len(a) = Len(leases) + 1 /\ a[Len(leases) + 1] = x
        /\ \A i \in 1..Len(leases) : a[i] = leases[i]
    BY <2>2, <2>3, AppendProperties
  <2> HIDE DEF a
  <2>5. IsFiniteSet(W) /\ Cardinality(W) \in Nat
    <3>1. IsFiniteSet(1..k)
      BY FS_Interval
    <3> QED
      BY <1>1, <3>1, FS_Subset, FS_CardinalityType
  <2>6. Cardinality(V) = Cardinality(W) + 1
    BY <1>1, <2>1, <2>5, FS_AddElement
  <2>7. ASSUME NEW i \in V
        PROVE  a[Cardinality({ j \in V : j <= i })] = Stripped(bs[i])
    <3>1. CASE i = k + 1
      <4>1. { j \in V : j <= i } = V
        <5>1. \A j \in 1..k + 1 : j <= k + 1
          OBVIOUS
        <5> QED
          BY <1>1, <3>1, <5>1
      <4>2. Cardinality({ j \in V : j <= i }) = Len(leases) + 1
        BY <2>3, <2>6, <4>1
      <4> QED
        BY <2>4, <3>1, <4>2 DEF x
    <3>2. CASE i \in W
      <4>1. { j \in V : j <= i } = { j \in W : j <= i }
        <5>1. i \in 1..k /\ ~ (k + 1 <= i)
          BY <1>1, <1>2, <3>2
        <5> QED
          BY <2>1, <5>1
      <4>2. Cardinality({ j \in W : j <= i }) \in 1..Cardinality(W)
        BY <1>1, <3>2, UpTo
      <4> QED
        BY <2>3, <2>4, <3>2, <4>1, <4>2
    <3> QED
      BY <2>1, <3>1, <3>2
  <2>8. LeasesOf(a, bs, k + 1)
    BY <2>3, <2>4, <2>6, <2>7 DEF LeasesOf, RankOf, V
  <2> QED
    BY <1>4, <2>8 DEF a, x
<1> QED
  BY <1>3, <1>4

LEMMA FrontLeases ==
  ASSUME NEW bs \in Seq(Block), NEW k \in 0..Len(bs)
  PROVE  \E leases : /\ LeasesOf(leases, bs, k)
                     /\ parsed(TextTo(bs, k)) = Read(leases, None, None, None)
<1> DEFINE R(j) == \E leases : /\ LeasesOf(leases, bs, j)
                               /\ parsed(TextTo(bs, j)) = Read(leases, None, None, None)
           T == { j \in 0..Len(bs) : R(j) }
<1>1. Len(bs) \in Nat
  BY LenProperties
<1>2. 0 \in T
  <2>1. parsed(TextTo(bs, 0)) = Read(<< >>, None, None, None)
    <3>1. TextTo(bs, 0) = << >>
      BY FrontEnds
    <3>2. parsed(<< >>) = Empty
      BY ParsedEmpty
    <3>3. Empty = Read(<< >>, None, None, None)
      BY DEF Empty, Read, Fields
    <3> QED
      BY <3>1, <3>2, <3>3
  <2>2. R(0)
    BY <2>1, NoLeases
  <2> QED
    BY <1>1, <2>2
<1>3. ASSUME NEW j \in Nat, j < Len(bs), j \in T
      PROVE  j + 1 \in T
  <2>1. PICK leases : /\ LeasesOf(leases, bs, j)
                      /\ parsed(TextTo(bs, j)) = Read(leases, None, None, None)
    BY <1>3
  <2>2. j \in 0..Len(bs) /\ j + 1 \in 0..Len(bs)
    BY <1>1, <1>3
  <2>3. bs[j + 1] \in Block /\ TextTo(bs, j + 1) = TextTo(bs, j) \o Text(bs[j + 1])
    BY <1>3, FrontNext
  <2>4. TextTo(bs, j) \in Seq(FileLine)
    BY <2>2, FrontLines
  <2> DEFINE more == IF HasLease(bs[j + 1]) THEN Append(leases, Stripped(bs[j + 1])) ELSE leases
  <2>5. parsed(TextTo(bs, j + 1)) = Read(more, None, None, None)
    BY <2>1, <2>3, <2>4, ReadBlock
  <2>6. LeasesOf(more, bs, j + 1)
    BY <1>3, <2>1, LeaseAdded
  <2>7. R(j + 1)
    <3> HIDE DEF more
    <3> QED
      BY <2>5, <2>6
  <2> HIDE DEF R
  <2> QED
    BY <2>2, <2>7
<1> HIDE DEF T
<1>4. \A j \in 0..Len(bs) : j \in T
  BY <1>1, <1>2, <1>3, Upward
<1>5. R(k)
  BY <1>4 DEF T
<1> QED
  BY <1>5

-----------------------------------------------------------------------------
(* What a reader sees of the file.                                         *)

LEMMA FileText ==
  ASSUME NEW bs \in Seq(Block)
  PROVE  TextOf(bs) \in Seq(FileLine) /\ Len(TextOf(bs)) \in Nat
<1>1. Len(bs) \in Nat /\ Len(bs) \in 0..Len(bs)
  BY LenProperties
<1>2. TextTo(bs, Len(bs)) \in Seq(FileLine)
  BY <1>1, FrontLines
<1> QED
  BY <1>2, FrontEnds, LenProperties

LEMMA WrittenIs ==
  ASSUME TypeOK
  PROVE  /\ Written \in 0..Len(blocks) /\ Len(TextTo(blocks, Written)) <= filled
         /\ Written < Len(blocks) => filled < Len(TextTo(blocks, Written + 1))
<1> DEFINE S == { k \in 0..Len(blocks) : Len(TextTo(blocks, k)) <= filled }
<1>1. Len(blocks) \in Nat /\ blocks \in Seq(Block)
  BY LenProperties DEF TypeOK
<1>2. filled \in Nat
  BY <1>1, FileText DEF TypeOK
<1>3. S \subseteq 0..Len(blocks) /\ 0 \in S
  <2>1. Len(TextTo(blocks, 0)) = 0
    BY <1>1, FrontEnds, EmptySeq
  <2> QED
    BY <1>1, <1>2, <2>1
<1>4. Written = Max(S)
  BY DEF Written, TextTo
<1> HIDE DEF S
<1>5. Written \in S /\ \A k \in S : Written >= k
  BY <1>1, <1>3, <1>4, MaxOf
<1>6. Written \in 0..Len(blocks) /\ Len(TextTo(blocks, Written)) <= filled
  BY <1>5 DEF S
<1>7. ASSUME Written < Len(blocks)
      PROVE  filled < Len(TextTo(blocks, Written + 1))
  <2>1. Written + 1 \in 0..Len(blocks) /\ ~ (Written >= Written + 1)
    BY <1>1, <1>6, <1>7
  <2>2. ~ (Len(TextTo(blocks, Written + 1)) <= filled)
    BY <1>5, <2>1 DEF S
  <2>3. Len(TextTo(blocks, Written + 1)) \in Nat
    BY <1>1, <2>1, FrontLines, LenProperties
  <2> QED
    BY <1>2, <2>2, <2>3
<1> QED
  BY <1>6, <1>7

(* The lines after the whole blocks close none.                            *)
LEMMA RestUnclosed ==
  ASSUME TypeOK, NEW i \in Nat, Len(TextTo(blocks, Written)) < i, i <= filled
  PROVE  TextOf(blocks)[i] \in FileLine /\ TextOf(blocks)[i].key # "}"
<1> DEFINE all == TextOf(blocks)
           w == Written
           p == TextTo(blocks, w)
           q == TextTo(blocks, w + 1)
           e == Text(blocks[w + 1])
           o == Append(Opened(blocks[w + 1]), Other)
<1>1. blocks \in Seq(Block) /\ Len(blocks) \in Nat
  BY LenProperties DEF TypeOK
<1>2. all \in Seq(FileLine) /\ Len(all) \in Nat /\ filled \in 0..Len(all)
  BY <1>1, FileText DEF TypeOK
<1>3. w \in 0..Len(blocks) /\ (w < Len(blocks) => filled < Len(q))
  BY WrittenIs
<1>4. i \in 1..Len(all)
  <2>1. Len(p) \in Nat
    BY <1>1, <1>3, FrontLines, LenProperties
  <2> QED
    BY <1>2, <2>1
<1>5. all[i] \in FileLine
  BY <1>2, <1>4, LenProperties
<1>6. w < Len(blocks)
  <2>1. w # Len(blocks)
    <3>1. SUFFICES ASSUME w = Len(blocks) PROVE FALSE
      OBVIOUS
    <3>2. p = all
      BY <1>1, <3>1, FrontEnds
    <3> HIDE DEF p, all
    <3> QED
      BY <1>2, <3>2 DEF p
  <2> QED
    BY <1>1, <1>3, <2>1
<1>7. blocks[w + 1] \in Block /\ q = p \o e
  BY <1>1, <1>3, <1>6, FrontNext
<1>8. /\ e = Append(o, Closing) /\ Unclosed(o) /\ Closing \in FileLine
      /\ e \in Seq(FileLine)
  BY <1>7, TextParts, FixedLines
<1>9. p \in Seq(FileLine)
  BY <1>1, <1>3, FrontLines
<1>10. Begins(q, all)
  <2>1. w + 1 \in 0..Len(blocks)
    BY <1>1, <1>3, <1>6
  <2> QED
    BY <1>1, <2>1, FrontBegins
<1>11. filled < Len(q) /\ Len(p) < i
  BY <1>3, <1>6
<1> HIDE DEF all, p, q, e, o
<1>12. /\ Len(q) = Len(p) + Len(e) /\ Len(p) \in Nat /\ Len(e) \in Nat
       /\ \A j \in 1..Len(p) + Len(e) : q[j] = IF j <= Len(p) THEN p[j] ELSE e[j - Len(p)]
  BY <1>7, <1>8, <1>9, ConcatProperties, LenProperties
<1>13. /\ Len(e) = Len(o) + 1 /\ Len(o) \in Nat
       /\ \A j \in 1..Len(o) : e[j] = o[j]
  <2>1. o \in Seq(FileLine)
    BY <1>8 DEF Unclosed
  <2> QED
    BY <1>8, <2>1, AppendProperties, LenProperties
<1>14. i \in 1..Len(q) /\ all[i] = q[i]
  BY <1>2, <1>4, <1>10, <1>11, <1>12 DEF Begins
<1>15. i - Len(p) \in 1..Len(o) /\ ~ (i <= Len(p))
  BY <1>2, <1>4, <1>11, <1>12, <1>13
<1>16. q[i] = o[i - Len(p)]
  BY <1>12, <1>13, <1>14, <1>15
<1>17. o[i - Len(p)].key # "}"
  BY <1>8, <1>15 DEF Unclosed
<1> QED
  BY <1>5, <1>14, <1>16, <1>17 DEF all

LEMMA SeenLeases ==
  ASSUME TypeOK, NEW leases, parsed(TextTo(blocks, Written)) = Read(leases, None, None, None)
  PROVE  Keeps(SubSeq(TextOf(blocks), 1, filled), leases)
<1> DEFINE all == TextOf(blocks)
           p == TextTo(blocks, Written)
           R(j) == Keeps(SubSeq(all, 1, Len(p) + j), leases)
           d == filled - Len(p)
           T == { j \in 0..d : R(j) }
<1>1. blocks \in Seq(Block) /\ Len(blocks) \in Nat
  BY LenProperties DEF TypeOK
<1>2. all \in Seq(FileLine) /\ Len(all) \in Nat /\ filled \in 0..Len(all)
  BY <1>1, FileText DEF TypeOK
<1>3. Written \in 0..Len(blocks) /\ Len(p) <= filled
  BY WrittenIs
<1>4. p \in Seq(FileLine) /\ Len(p) \in Nat /\ Begins(p, all)
  BY <1>1, <1>3, FrontLines, FrontBegins, LenProperties
<1>5. d \in Nat /\ Len(p) + d = filled /\ Len(p) \in 0..Len(all)
  <2> HIDE DEF p, all
  <2> QED
    BY <1>2, <1>3, <1>4
<1> HIDE DEF all, p
<1>6. 0 \in T
  <2>1. /\ SubSeq(all, 1, Len(p)) \in Seq(FileLine) /\ Len(SubSeq(all, 1, Len(p))) = Len(p)
        /\ \A i \in 1..Len(p) : SubSeq(all, 1, Len(p))[i] = all[i]
    BY <1>2, <1>5, First
  <2>2. SubSeq(all, 1, Len(p)) = p
    <3>1. \A i \in 1..Len(p) : all[i] = p[i]
      BY <1>4 DEF Begins
    <3> QED
      BY <1>4, <2>1, <3>1, SeqEqual
  <2>3. Len(p) + 0 = Len(p)
    BY <1>4
  <2>4. R(0)
    BY <2>2, <2>3 DEF p, Keeps
  <2> HIDE DEF R
  <2> QED
    BY <1>5, <2>4
<1>7. ASSUME NEW j \in Nat, j < d, j \in T
      PROVE  j + 1 \in T
  <2> DEFINE m == Len(p) + j
             s == SubSeq(all, 1, m)
             l == all[m + 1]
  <2>1. Keeps(s, leases)
    BY <1>7
  <2>2. /\ j + 1 \in 0..d /\ m \in Nat /\ m < Len(all) /\ m \in 0..Len(all)
        /\ Len(p) + (j + 1) = m + 1 /\ m + 1 <= filled /\ Len(p) < m + 1
    BY <1>2, <1>4, <1>5, <1>7
  <2> HIDE DEF m
  <2>3. l \in FileLine /\ l.key # "}"
    <3>1. m + 1 \in Nat
      BY <2>2
    <3> QED
      BY <2>2, <3>1, RestUnclosed DEF all, p
  <2>4. SubSeq(all, 1, m + 1) = Append(s, l) /\ s \in Seq(FileLine)
    BY <1>2, <2>2, OneMore, First
  <2> HIDE DEF s, l
  <2>5. Keeps(Append(s, l), leases)
    BY <2>1, <2>3, <2>4, ReadUnclosed
  <2>6. R(j + 1)
    BY <2>2, <2>4, <2>5
  <2> HIDE DEF R
  <2> QED
    BY <2>2, <2>6
<1> HIDE DEF T
<1>8. \A j \in 0..d : j \in T
  <2> HIDE DEF d
  <2> QED
    BY <1>5, <1>6, <1>7, Upward
<1>9. R(d)
  BY <1>5, <1>8 DEF T
<1> QED
  BY <1>5, <1>9 DEF all

(* What is left of a line that is cut off closes no block.                 *)
LEMMA CutLines ==
  ASSUME NEW l, NEW c \in Cut(l)
  PROVE  c \in FileLine /\ c.key # "}"
<1> DEFINE K(k, V) == { Line(k, v) : v \in V }
<1>1. Cut(l) \subseteq K("other", { None }) \cup K("name", Name) \cup K("ip", Ip) \cup K("hw", HwText)
  <2>1. CASE l.key = "name"
    BY <2>1 DEF Cut
  <2>2. CASE l.key = "ip"
    BY <2>2 DEF Cut
  <2>3. CASE l.key = "hw"
    BY <2>3 DEF Cut
  <2>4. CASE l.key \notin { "name", "ip", "hw" }
    BY <2>4 DEF Cut
  <2> QED
    BY <2>1, <2>2, <2>3, <2>4
<1>2. PICK k \in { "other", "name", "ip", "hw" }, v \in Name \cup Ip \cup HwText \cup { None } :
        c = Line(k, v)
  BY <1>1
<1> QED
  BY <1>2 DEF Line, FileLine

(* Whatever a reader sees, it gets the leases of the whole blocks.         *)
LEMMA ContentLeases ==
  ASSUME TypeOK, NEW text \in Contents
  PROVE  LeasesOf(parse_leases(text), blocks, Written)
<1> DEFINE all == TextOf(blocks)
           seen == SubSeq(all, 1, filled)
<1>1. blocks \in Seq(Block)
  BY DEF TypeOK
<1>2. all \in Seq(FileLine) /\ filled \in 0..Len(all)
  BY <1>1, FileText DEF TypeOK
<1>3. Written \in 0..Len(blocks)
  BY WrittenIs
<1>4. PICK leases : /\ LeasesOf(leases, blocks, Written)
                    /\ parsed(TextTo(blocks, Written)) = Read(leases, None, None, None)
  BY <1>1, <1>3, FrontLeases
<1>5. Keeps(seen, leases)
  BY <1>4, SeenLeases
<1>6. seen \in Seq(FileLine)
  BY <1>2, First
<1>7. text = seen \/ \E l : \E c \in Cut(l) : text = Append(seen, c)
  BY DEF Contents
<1> HIDE DEF seen
<1>8. Keeps(text, leases)
  <2>1. CASE text = seen
    BY <1>5, <2>1
  <2>2. ASSUME NEW l, NEW c \in Cut(l), text = Append(seen, c)
        PROVE  Keeps(text, leases)
    <3>1. c \in FileLine /\ c.key # "}"
      BY CutLines
    <3> QED
      BY <1>5, <1>6, <2>2, <3>1, ReadUnclosed
  <2> QED
    BY <1>7, <2>1, <2>2
<1>9. parse_leases(text) = leases
  BY <1>8 DEF parse_leases, Read, Keeps
<1> QED
  BY <1>4, <1>9

-----------------------------------------------------------------------------
(* The lease that is found.                                                *)

(* The leases that match a text are those of the blocks that have it,      *)
(* and the last of them is that of the last block.                         *)
LEMMA FoundIs ==
  ASSUME NEW bs \in Seq(Block), NEW k \in 0..Len(bs), NEW leases, LeasesOf(leases, bs, k),
         NEW m \in HwText, ~ m.typed
  PROVE  LET mine == { i \in WholeOf(bs, k) : bs[i].hw.text = m.text }
             ip   == find_lease_by_mac(leases, m)
         IN  IF mine = { } THEN ip = None
             ELSE Max(mine) \in mine /\ ip = bs[Max(mine)].ip /\ ip \in Ip
<1> DEFINE W == WholeOf(bs, k)
           mine == { i \in W : bs[i].hw.text = m.text }
           hits == { r \in DOMAIN leases : Lower(leases[r].hw) = Lower(m) }
           N == Cardinality(W)
           rank(i) == Cardinality({ j \in W : j <= i })
<1>1. k \in Nat /\ Len(bs) \in Nat /\ W \subseteq 1..k
  BY LenProperties DEF WholeOf
<1>2. \A i \in W : bs[i] \in Block /\ HasLease(bs[i])
  <2>1. ASSUME NEW i \in W
        PROVE  bs[i] \in Block /\ HasLease(bs[i])
    <3>1. i \in 1..Len(bs) /\ HasLease(bs[i])
      BY <1>1 DEF WholeOf
    <3> QED
      BY <3>1, LenProperties
  <2> QED
    BY <2>1
<1>3. /\ leases \in Seq(Lease) /\ Len(leases) = N /\ DOMAIN leases = 1..N
      /\ \A i \in W : leases[rank(i)] = Stripped(bs[i])
  BY LenProperties DEF LeasesOf, RankOf
<1> HIDE DEF W
<1>4. N \in Nat
  <2>1. IsFiniteSet(1..k)
    BY <1>1, FS_Interval
  <2> QED
    BY <1>1, <2>1, FS_Subset, FS_CardinalityType
<1>5. /\ \A i \in W : rank(i) \in 1..N
      /\ \A i \in W, j \in W : j < i => rank(j) < rank(i)
  BY <1>1, UpTo
<1>6. \A r \in 1..N : \E i \in W : rank(i) = r
  <2>1. ASSUME NEW r \in 1..N
        PROVE  \E i \in W : rank(i) = r
    <3>1. r \in 1..Cardinality(W)
      BY <2>1
    <3>2. k \in Nat /\ W \subseteq 1..k
      BY <1>1
    <3> HIDE DEF N
    <3> QED
      BY <3>1, <3>2, RankOnto, ZenonT(30)
  <2> QED
    BY <2>1
<1>7. \A i \in W : /\ bs[i].hw \in HwText /\ bs[i].ip \in Ip
                   /\ Stripped(bs[i]).hw = StripType(bs[i].hw) /\ Stripped(bs[i]).ip = bs[i].ip
  <2>1. ASSUME NEW b \in Block, HasLease(b)
        PROVE  /\ b.hw \in HwText /\ b.ip \in Ip
               /\ Stripped(b).hw = StripType(b.hw) /\ Stripped(b).ip = b.ip
    <3>1. /\ b = [ name |-> b.name, ip |-> b.ip, hw |-> b.hw ]
          /\ b.ip \in Ip \cup { None } /\ b.hw \in HwText \cup { None }
      BY BlockFields
    <3>2. b.hw # None /\ b.ip # None
      BY <2>1 DEF HasLease
    <3> QED
      BY <3>1, <3>2 DEF Stripped
  <2> QED
    BY <1>2, <2>1
<1>8. ASSUME NEW h \in HwText
      PROVE  Lower(StripType(h)) = Lower(m) <=> h.text = m.text
  <2>1. StripType(h) \in HwText /\ StripType(h).typed = FALSE /\ StripType(h).text = h.text
    BY DEF StripType, HwText
  <2>2. \A v \in HwText : Lower(v) = [ typed |-> v.typed, upper |-> FALSE, text |-> v.text ]
    BY DEF Lower, HwText
  <2>3. Lower(StripType(h)) = [ typed |-> FALSE, upper |-> FALSE, text |-> h.text ]
    BY <2>1, <2>2
  <2>4. m.typed = FALSE
    BY DEF HwText
  <2>5. Lower(m) = [ typed |-> FALSE, upper |-> FALSE, text |-> m.text ]
    BY <2>2, <2>4
  <2>6. Lower(StripType(h)) = Lower(m) => h.text = m.text
    <3>1. Lower(StripType(h)).text = h.text
      BY <2>3
    <3>2. Lower(m).text = m.text
      BY <2>5
    <3> QED
      BY <3>1, <3>2
  <2> QED
    BY <2>3, <2>5, <2>6
<1>9. \A i \in W : rank(i) \in hits <=> i \in mine
  <2>1. ASSUME NEW i \in W
        PROVE  rank(i) \in hits <=> i \in mine
    <3>1. rank(i) \in DOMAIN leases /\ leases[rank(i)].hw = StripType(bs[i].hw)
      BY <1>3, <1>5, <1>7
    <3>2. Lower(StripType(bs[i].hw)) = Lower(m) <=> bs[i].hw.text = m.text
      BY <1>7, <1>8
    <3> HIDE DEF rank
    <3> QED
      BY <3>1, <3>2
  <2> QED
    BY <2>1
<1>10. hits \subseteq 0..N /\ mine \subseteq W
  BY <1>3, <1>4
<1>11. find_lease_by_mac(leases, m) = IF hits = { } THEN None ELSE leases[Max(hits)].ip
  BY DEF find_lease_by_mac
<1>12. \A r \in hits : r \in 1..N
  BY <1>3
<1> HIDE DEF hits, mine, rank, N
<1>13. CASE hits = { }
  <2>1. mine = { }
    BY <1>9, <1>10, <1>13
  <2> QED
    BY <1>11, <1>13, <2>1 DEF mine, W
<1>14. CASE hits # { }
  <2>1. Max(hits) \in hits /\ \A r \in hits : Max(hits) >= r
    BY <1>4, <1>10, <1>14, MaxOf
  <2>2. PICK i \in W : rank(i) = Max(hits)
    BY <1>6, <1>12, <2>1
  <2>3. i \in mine
    BY <1>9, <2>1, <2>2
  <2>4. \A j \in mine : i >= j
    <3>1. ASSUME NEW j \in mine, ~ (i >= j)
          PROVE  FALSE
      <4>1. j \in W /\ i < j
        BY <1>1, <1>10, <3>1
      <4>2. rank(i) < rank(j) /\ rank(j) \in hits /\ rank(j) \in 1..N /\ rank(i) \in 1..N
        BY <1>5, <1>9, <3>1, <4>1
      <4>3. rank(i) >= rank(j)
        BY <2>1, <2>2, <4>2
      <4> QED
        BY <1>4, <4>2, <4>3
    <3> QED
      BY <3>1
  <2>5. mine \subseteq 0..k
    BY <1>1, <1>10
  <2>6. Max(mine) = i
    BY <1>1, <2>3, <2>4, <2>5, MaxIs
  <2>7. leases[Max(hits)].ip = bs[i].ip /\ bs[i].ip \in Ip
    BY <1>3, <1>7, <2>2
  <2>8. mine # { } /\ Max(mine) \in mine /\ find_lease_by_mac(leases, m) = bs[Max(mine)].ip
        /\ find_lease_by_mac(leases, m) \in Ip
    BY <1>11, <1>14, <2>3, <2>6, <2>7
  <2> QED
    BY <2>8 DEF mine, W
<1> QED
  BY <1>13, <1>14

(* What wait_for_ip finds is an address of the VM, and that of its last    *)
(* lease when the file is whole; it finds none only where there is none.   *)
LEMMA LookFinds ==
  ASSUME TypeOK, mac # None, NEW ip \in lookup_ip_by_mac(mac)
  PROVE  /\ ip # None => /\ ip \in Ip
                         /\ \E i \in Mine : /\ blocks[i].ip = ip
                                            /\ Written = Len(blocks) => i = Max(Mine)
         /\ ip = None => ~ (Written = Len(blocks) /\ Mine # { })
<1> DEFINE mine == { i \in WholeOf(blocks, Written) : blocks[i].hw.text = mac.text }
<1>1. PICK text \in Contents : ip = find_lease_by_mac(parse_leases(text), mac)
  BY DEF lookup_ip_by_mac
<1>2. blocks \in Seq(Block) /\ mac \in HwText /\ ~ mac.typed
  BY DEF TypeOK
<1>3. Written \in 0..Len(blocks) /\ LeasesOf(parse_leases(text), blocks, Written)
  BY WrittenIs, ContentLeases
<1>4. IF mine = { } THEN ip = None
      ELSE Max(mine) \in mine /\ ip = blocks[Max(mine)].ip /\ ip \in Ip
  BY <1>1, <1>2, <1>3, FoundIs
<1>5. mine \subseteq Mine /\ (Written = Len(blocks) => mine = Mine)
  <2>1. DOMAIN blocks = 1..Len(blocks) /\ Len(blocks) \in Nat
    BY <1>2, LenProperties
  <2>2. \A i \in 1..Written : i \in 1..Len(blocks)
    BY <1>3, <2>1
  <2> QED
    BY <2>1, <2>2 DEF Mine, WholeOf
<1>6. None \notin Ip
  BY LeaseAssumption
<1> HIDE DEF mine
<1> QED
  BY <1>4, <1>5, <1>6

-----------------------------------------------------------------------------
(* wait_for_ip.                                                            *)

LEMMA Removed ==
  ASSUME NEW S, NEW s \in Seq(S), NEW i \in DOMAIN s
  PROVE  RemoveAt(s, i) \in Seq(S) /\ Len(RemoveAt(s, i)) = Len(s) - 1
<1> DEFINE p == SubSeq(s, 1, i - 1)
           q == SubSeq(s, i + 1, Len(s))
<1>1. i \in 1..Len(s) /\ Len(s) \in Nat
  BY LenProperties
<1>2. i - 1 \in 0..Len(s)
  BY <1>1
<1>3. p \in Seq(S) /\ Len(p) = i - 1
  BY <1>2, First
<1>4. q \in Seq(S) /\ Len(q) = Len(s) - i
  <2>1. \A j \in i + 1..Len(s) : s[j] \in S
    <3>1. \A j \in i + 1..Len(s) : j \in 1..Len(s)
      BY <1>1
    <3> QED
      BY <3>1, LenProperties
  <2>2. i + 1 \in Int /\ Len(s) \in Int
    BY <1>1
  <2>3. q \in Seq(S) /\ Len(q) = IF i + 1 <= Len(s) THEN Len(s) - (i + 1) + 1 ELSE 0
    BY <2>1, <2>2, SubSeqProperties
  <2> HIDE DEF q
  <2> QED
    BY <1>1, <2>3
<1> HIDE DEF p, q
<1>5. p \o q \in Seq(S) /\ Len(p \o q) = Len(p) + Len(q)
  BY <1>3, <1>4, ConcatProperties
<1>6. Len(p) + Len(q) = Len(s) - 1
  BY <1>1, <1>3, <1>4
<1>7. RemoveAt(s, i) = p \o q
  BY DEF RemoveAt, p, q
<1> QED
  BY <1>5, <1>6, <1>7

LEMMA LeaseInit == Init => LeaseInv
<1> SUFFICES ASSUME Init PROVE LeaseInv
  OBVIOUS
<1>1. TextOf(blocks) = << >> /\ Len(<< >>) = 0 /\ Len(blocks) = 0 /\ blocks \in Seq(Block)
  BY TextEmpty, EmptySeq DEF Init
<1>2. TypeOK
  <2>1. filled \in 0..Len(TextOf(blocks)) /\ Len(blocks) <= MaxBlocks
    <3>1. Len(TextOf(blocks)) = 0
      BY <1>1
    <3>2. filled = 0 /\ MaxBlocks \in Nat
      BY LeaseAssumption DEF Init
    <3> QED
      BY <1>1, <3>1, <3>2
  <2>2. result \in NoAddress \cup Ip
    BY DEF Init, NoAddress
  <2> QED
    <3>1. mac \in { None } \cup { h \in HwText : ~ h.typed }
      BY DEF Init
    <3>2. pc \in { "idle", "look", "check", "sleep" } /\ left \in Nat /\ nap \in 0..1
      BY DEF Init
    <3>3. newer \in BOOLEAN
      BY DEF Init
    <3> QED
      BY <1>1, <2>1, <2>2, <3>1, <3>2, <3>3, Zenon DEF TypeOK
<1>3. pc = "idle"
  BY DEF Init
<1> QED
  BY <1>2, <1>3 DEF LeaseInv, LookedInv

(* A step that leaves the file alone leaves what is written of it.         *)
LEMMA SameFile ==
  ASSUME UNCHANGED << blocks, filled >>
  PROVE  Written' = Written /\ (mac' = mac => Mine' = Mine)
         /\ TextOf(blocks)' = TextOf(blocks)
  BY DEF Written, Mine

LEMMA LeaseNext == LeaseInv /\ [Next]_vars => LeaseInv'
<1> SUFFICES ASSUME LeaseInv, [Next]_vars
             PROVE  LeaseInv'
  OBVIOUS
<1> USE DEF callVars
<1>t. TypeOK
  BY DEF LeaseInv
<1>m. pc # "idle" => mac # None
  BY DEF LeaseInv
<1>0. CASE UNCHANGED vars
  <2>1. UNCHANGED << blocks, filled, mac, pc, left, nap, result, newer >>
    BY <1>0 DEF vars
  <2>2. TypeOK'
    BY <1>t, <2>1 DEF TypeOK
  <2>3. LookedInv'
    BY <2>1, SameFile DEF LeaseInv, LookedInv
  <2> QED
    BY <1>m, <2>1, <2>2, <2>3 DEF LeaseInv
<1>1. ASSUME NEW t \in Timeouts, Begin(t)
      PROVE  LeaseInv'
  <2>1. TypeOK'
    BY <1>t, <1>1, LeaseAssumption DEF TypeOK, Begin, NoAddress
  <2>2. pc' # "check" /\ (pc' # "idle" => mac' # None)
    BY <1>1 DEF Begin
  <2> QED
    BY <2>1, <2>2 DEF LeaseInv, LookedInv
<1>2. CASE Look
  <2>1. PICK ip \in lookup_ip_by_mac(mac) :
          IF ip # None THEN result' = ip /\ pc' = "idle"
                       ELSE pc' = "check" /\ UNCHANGED result
    BY <1>2 DEF Look
  <2>2. /\ ip # None => ip \in Ip
        /\ ip = None => ~ (Written = Len(blocks) /\ Mine # { })
    BY <1>t, <1>m, <1>2, LookFinds DEF Look
  <2>3. UNCHANGED << blocks, filled, mac, left, nap >> /\ newer' = FALSE
    BY <1>2 DEF Look
  <2>4. TypeOK'
    BY <1>t, <2>1, <2>2, <2>3 DEF TypeOK
  <2>5. LookedInv'
    BY <2>1, <2>2, <2>3, SameFile DEF LookedInv
  <2>6. pc # "idle"
    BY <1>2 DEF Look
  <2> QED
    BY <1>m, <2>3, <2>4, <2>5, <2>6 DEF LeaseInv
<1>3. CASE LookFails
  <2>1. TypeOK'
    BY <1>t, <1>3 DEF TypeOK, LookFails
  <2>2. pc # "idle" /\ mac' = mac /\ newer'
    BY <1>3 DEF LookFails
  <2> QED
    BY <1>m, <2>1, <2>2 DEF LeaseInv, LookedInv
<1>4. CASE GiveUp
  <2>1. TypeOK'
    BY <1>t, <1>4 DEF TypeOK, GiveUp, NoAddress
  <2>2. pc' = "idle"
    BY <1>4 DEF GiveUp
  <2> QED
    BY <2>1, <2>2 DEF LeaseInv, LookedInv
<1>5. CASE Sleep
  <2>1. TypeOK'
    BY <1>t, <1>5 DEF TypeOK, Sleep
  <2>2. pc # "idle" /\ mac' = mac /\ pc' = "sleep"
    BY <1>5 DEF Sleep
  <2> QED
    BY <1>m, <2>1, <2>2 DEF LeaseInv, LookedInv
<1>6. CASE Wake
  <2>1. TypeOK'
    BY <1>t, <1>6 DEF TypeOK, Wake
  <2>2. pc # "idle" /\ mac' = mac /\ pc' = "look"
    BY <1>6 DEF Wake
  <2> QED
    BY <1>m, <2>1, <2>2 DEF LeaseInv, LookedInv
<1>7. CASE Tick
  <2>1. TypeOK'
    BY <1>t, <1>7 DEF TypeOK, Tick
  <2>2. UNCHANGED << blocks, filled, mac, pc, newer >>
    BY <1>7 DEF Tick
  <2>3. LookedInv'
    BY <2>2, SameFile DEF LeaseInv, LookedInv
  <2> QED
    BY <1>m, <2>1, <2>2, <2>3 DEF LeaseInv
<1>8. CASE Rewrite
  <2>1. blocks' \in Seq(Block) /\ Len(blocks') <= MaxBlocks
    <3>1. blocks \in Seq(Block) /\ Len(blocks) \in Nat /\ Len(blocks) <= MaxBlocks /\ MaxBlocks \in Nat
      BY <1>t, LenProperties, LeaseAssumption DEF TypeOK
    <3>2. ASSUME NEW b \in Block, Len(blocks) < MaxBlocks, blocks' = Append(blocks, b)
          PROVE  blocks' \in Seq(Block) /\ Len(blocks') <= MaxBlocks
      BY <3>1, <3>2, AppendProperties
    <3>3. ASSUME NEW i \in DOMAIN blocks, blocks' = RemoveAt(blocks, i)
          PROVE  blocks' \in Seq(Block) /\ Len(blocks') <= MaxBlocks
      <4>1. RemoveAt(blocks, i) \in Seq(Block) /\ Len(RemoveAt(blocks, i)) = Len(blocks) - 1
        BY <3>1, Removed
      <4> QED
        BY <3>1, <3>3, <4>1
    <3> QED
      BY <1>8, <3>2, <3>3 DEF Rewrite
  <2>2. UNCHANGED << mac, pc, left, nap, result >> /\ filled' = 0 /\ newer' = TRUE
    BY <1>8 DEF Rewrite
  <2>3. filled' \in 0..Len(TextOf(blocks'))
    BY <2>1, <2>2, FileText
  <2>4. TypeOK'
    BY <1>t, <2>1, <2>2, <2>3 DEF TypeOK
  <2> QED
    BY <1>m, <2>2, <2>4 DEF LeaseInv, LookedInv
<1>9. CASE Fill
  <2>1. UNCHANGED << blocks, mac, pc, left, nap, result >> /\ newer' = TRUE
    BY <1>9 DEF Fill
  <2>2. filled' \in 0..Len(TextOf(blocks))
    <3>1. blocks \in Seq(Block) /\ filled \in 0..Len(TextOf(blocks))
      BY <1>t DEF TypeOK
    <3>2. Len(TextOf(blocks)) \in Nat
      BY <3>1, FileText
    <3> QED
      BY <1>9, <3>1, <3>2 DEF Fill
  <2>3. TypeOK'
    BY <1>t, <2>1, <2>2 DEF TypeOK
  <2> QED
    BY <1>m, <2>1, <2>3 DEF LeaseInv, LookedInv
<1> QED
  BY <1>0, <1>1, <1>2, <1>3, <1>4, <1>5, <1>6, <1>7, <1>8, <1>9 DEF Next, Step

(* The inductive invariant of LeaseLookup holds in every state.            *)
THEOREM LeaseInvariance == Spec => []LeaseInv
  BY LeaseInit, LeaseNext, PTL DEF Spec

(* The variables of LeaseLookup keep their types: the server never has     *)
(* more lines in the file than it means to write, and what wait_for_ip     *)
(* returns is an address or one of its errors.                             *)
THEOREM LeaseTypeCorrect == Spec => []TypeOK
<1>1. LeaseInv => TypeOK
  BY DEF LeaseInv
<1> QED
  BY LeaseInvariance, <1>1, PTL

(* parse_leases returns the leases of the blocks that are whole, in their  *)
(* order and with their own fields, for every file and every part of it    *)
(* that a reader may see.                                                  *)
THEOREM ReadersSeeWholeLeases == Spec => []ParsedAreWritten
<1>1. LeaseInv => ParsedAreWritten
  <2> SUFFICES ASSUME LeaseInv PROVE ParsedAreWritten
    OBVIOUS
  <2>1. ASSUME NEW text \in Contents
        PROVE  LeasesOf(parse_leases(text), blocks, Written)
    BY ContentLeases DEF LeaseInv
  <2> QED
    BY <2>1 DEF ParsedAreWritten, LeasesOf, WholeOf, RankOf, Stripped
<1> QED
  BY LeaseInvariance, <1>1, PTL

(* wait_for_ip returns addresses leased under the configured text only,    *)
(* and the one that was granted last when the file is there as a whole.    *)
THEOREM AnswersAreCurrent == Spec => AnswerIsCurrent
<1> DEFINE A == result' \in Ip /\ result' # result =>
                  \E i \in Mine : /\ blocks[i].ip = result'
                                  /\ Written = Len(blocks) => i = Max(Mine)
<1>1. LeaseInv /\ [Next]_vars => [A]_vars
  <2> SUFFICES ASSUME LeaseInv, [Next]_vars, result' \in Ip, result' # result
               PROVE  A
    OBVIOUS
  <2> USE DEF callVars
  <2>1. result' \notin NoAddress
    BY ResultAssumption
  <2>2. Look
    BY <2>1 DEF Next, Step, Begin, LookFails, GiveUp, Sleep, Wake, Tick, Rewrite, Fill, vars,
                NoAddress
  <2>3. PICK ip \in lookup_ip_by_mac(mac) : ip # None /\ result' = ip
    BY <2>2 DEF Look
  <2>4. TypeOK /\ mac # None
    BY <2>2 DEF LeaseInv, Look
  <2> QED
    BY <2>3, <2>4, LookFinds
<1> QED
  BY LeaseInvariance, <1>1, PTL DEF Spec, AnswerIsCurrent

(* wait_for_ip gives up at its deadline only, and misses no lease under    *)
(* the configured text that was in the file when it last looked.           *)
THEOREM NoneMissed == Spec => NoLeaseMissed
<1> DEFINE A == result' = "OperationFailed" /\ result # result' =>
                  /\ left = 0
                  /\ Written = Len(blocks) /\ Mine # { } => newer
<1>1. LeaseInv /\ [Next]_vars => [A]_vars
  <2> SUFFICES ASSUME LeaseInv, [Next]_vars, result' = "OperationFailed", result # result'
               PROVE  A
    OBVIOUS
  <2> USE DEF callVars
  <2>1. ~ Look
    <3> SUFFICES ASSUME Look PROVE FALSE
      OBVIOUS
    <3>1. PICK ip \in lookup_ip_by_mac(mac) : ip # None /\ result' = ip
      BY DEF Look
    <3>2. TypeOK /\ mac # None
      BY DEF LeaseInv, Look
    <3>3. result' \in Ip
      BY <3>1, <3>2, LookFinds
    <3> QED
      BY <3>3, ResultAssumption DEF NoAddress
  <2>2. GiveUp
    BY <2>1 DEF Next, Step, Begin, LookFails, Sleep, Wake, Tick, Rewrite, Fill, vars
  <2> QED
    BY <2>2 DEF LeaseInv, LookedInv, GiveUp, TypeOK
<1> QED
  BY LeaseInvariance, <1>1, PTL DEF Spec, NoLeaseMissed
=============================================================================
