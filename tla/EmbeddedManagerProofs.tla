------------------------ MODULE EmbeddedManagerProofs ------------------------
(***************************************************************************)
(* Proofs about EmbeddedManager, for any number of processes, libraries of *)
(* definitions, names and suffixes of any length, and any MaxLength.       *)
(*                                                                         *)
(* The first half is about strings: where a name has two dashes in a row,  *)
(* hence where strings.Split cuts it, hence which names and IDs survive.   *)
(* The second half shows that Inv is inductive.                            *)
(***************************************************************************)
EXTENDS EmbeddedManager, FiniteSetTheorems, WellFoundedInduction, TLAPS

-----------------------------------------------------------------------------
(***************************************************************************)
(* Strings that are put together.                                          *)
(***************************************************************************)

\* String j has t after its first p characters.
Has(j, p, t) == p + Len(t) <= Len(j) /\ \A i \in 1 .. Len(t) : j[p + i] = t[i]

\* What follows s in s \o u, and what stays where it was.
LEMMA JoinFacts ==
    ASSUME NEW s \in String, NEW u \in String
    PROVE  /\ s \o u \in String /\ Len(s \o u) = Len(s) + Len(u)
           /\ Has(s \o u, 0, s) /\ Has(s \o u, Len(s), u)
BY DEF String, Has

\* What is in a string stays where it is when something is put behind it.
LEMMA PartStays ==
    ASSUME NEW s \in String, NEW u \in String, NEW t \in String, NEW p \in Nat, Has(s, p, t)
    PROVE  Has(s \o u, p, t)
BY DEF String, Has

\* j is s, of length m, with u, of length k, behind it.
Grows(s, m, u, k, j) ==
    /\ j \in String /\ Len(j) = m + k /\ Has(j, 0, s) /\ Has(j, m, u)
    /\ \A p \in Nat : \A t \in String : Has(s, p, t) => Has(j, p, t)

\* To put u behind s is to grow s by u.
LEMMA Grow ==
    ASSUME NEW s \in String, NEW u \in String,
           NEW m \in Nat, m = Len(s), NEW k \in Nat, k = Len(u)
    PROVE  Grows(s, m, u, k, s \o u)
BY JoinFacts, PartStays DEF Grows

\* The two dashes, and the versions in decimal.
LEMMA SmallStrings ==
    /\ Dashes \in String /\ Len(Dashes) = 2 /\ Dashes[1] = "-" /\ Dashes[2] = "-"
    /\ \A v \in {-1, 0, 1} :
          /\ Decimal(v) \in String /\ Len(Decimal(v)) \in 1 .. 2
          /\ v = -1 => /\ Len(Decimal(v)) = 2
                       /\ Decimal(v)[1] = "-" /\ Decimal(v)[2] = "1"
          /\ v # -1 => Len(Decimal(v)) = 1 /\ Decimal(v)[1] \in {"0", "1"}
<1>1. Dashes \in String /\ Len(Dashes) = 2 /\ Dashes[1] = "-" /\ Dashes[2] = "-"
  BY NamingAssumption DEF Dashes, String
<1>2. /\ Decimal(-1) = <<"-", "1">> /\ Decimal(0) = <<"0">> /\ Decimal(1) = <<"1">>
  BY DEF Decimal
<1>3. /\ <<"-", "1">> \in String /\ Len(<<"-", "1">>) = 2
      /\ <<"-", "1">>[1] = "-" /\ <<"-", "1">>[2] = "1"
  BY NamingAssumption DEF String
<1>4. <<"0">> \in String /\ Len(<<"0">>) = 1 /\ <<"0">>[1] = "0"
  BY NamingAssumption DEF String
<1>5. <<"1">> \in String /\ Len(<<"1">>) = 1 /\ <<"1">>[1] = "1"
  BY NamingAssumption DEF String
<1>6. ASSUME NEW v \in {-1, 0, 1}
      PROVE  /\ Decimal(v) \in String /\ Len(Decimal(v)) \in 1 .. 2
             /\ v = -1 => /\ Len(Decimal(v)) = 2
                          /\ Decimal(v)[1] = "-" /\ Decimal(v)[2] = "1"
             /\ v # -1 => Len(Decimal(v)) = 1 /\ Decimal(v)[1] \in {"0", "1"}
  <2>1. CASE v = -1
    BY <1>2, <1>3, <2>1
  <2>2. CASE v = 0
    BY <1>2, <1>4, <2>2
  <2>3. CASE v = 1
    BY <1>2, <1>5, <2>3
  <2> QED
    BY <2>1, <2>2, <2>3
<1> QED
  BY <1>1, <1>6

\* j is e, x, y and z with dashes between them: x comes after p1, y after p3,
\* z, of length b, after p5.
InFour(j, e, x, y, z, n, p1, p2, p3, p4, p5, b) ==
    /\ j \in String /\ Len(j) = p5 + b
    /\ Has(j, 0, e) /\ Has(j, n, Dashes) /\ Has(j, p1, x) /\ Has(j, p2, Dashes)
    /\ Has(j, p3, y) /\ Has(j, p4, Dashes) /\ Has(j, p5, z)

\* Four strings with dashes between them.
LEMMA FourParts ==
    ASSUME NEW e \in String, NEW x \in String, NEW y \in String, NEW z \in String,
           NEW n \in Nat, n = Len(e), NEW a \in Nat, a = Len(x),
           NEW v \in Nat, v = Len(y), NEW b \in Nat, b = Len(z),
           NEW p1 \in Nat, p1 = n + 2, NEW p2 \in Nat, p2 = p1 + a,
           NEW p3 \in Nat, p3 = p2 + 2, NEW p4 \in Nat, p4 = p3 + v,
           NEW p5 \in Nat, p5 = p4 + 2,
           NEW j, j = e \o Dashes \o x \o Dashes \o y \o Dashes \o z
    PROVE  InFour(j, e, x, y, z, n, p1, p2, p3, p4, p5, b)
<1> DEFINE D == Dashes
           j1 == e \o D
           j2 == j1 \o x
           j3 == j2 \o D
           j4 == j3 \o y
           j5 == j4 \o D
<1>1. D \in String /\ Len(D) = 2
  BY SmallStrings
<1>2. j = j5 \o z
  OBVIOUS
<1> HIDE DEF D
<1>3. j1 \in String /\ Len(j1) = p1 /\ Has(j1, 0, e) /\ Has(j1, n, D)
  <2>1. Grows(e, n, D, 2, j1) BY <1>1, Grow
  <2> QED BY <2>1 DEF Grows
<1> HIDE DEF j1
<1>4. /\ j2 \in String /\ Len(j2) = p2 /\ Has(j2, 0, e) /\ Has(j2, n, D) /\ Has(j2, p1, x)
  <2>1. Grows(j1, p1, x, a, j2) BY <1>3, Grow
  <2> QED BY <1>1, <1>3, <2>1 DEF Grows
<1> HIDE DEF j2
<1>5. /\ j3 \in String /\ Len(j3) = p3 /\ Has(j3, 0, e) /\ Has(j3, n, D) /\ Has(j3, p1, x)
      /\ Has(j3, p2, D)
  <2>1. Grows(j2, p2, D, 2, j3) BY <1>1, <1>4, Grow
  <2> QED BY <1>1, <1>4, <2>1 DEF Grows
<1> HIDE DEF j3
<1>6. /\ j4 \in String /\ Len(j4) = p4 /\ Has(j4, 0, e) /\ Has(j4, n, D) /\ Has(j4, p1, x)
      /\ Has(j4, p2, D) /\ Has(j4, p3, y)
  <2>1. Grows(j3, p3, y, v, j4) BY <1>5, Grow
  <2> QED BY <1>1, <1>5, <2>1 DEF Grows
<1> HIDE DEF j4
<1>7. /\ j5 \in String /\ Len(j5) = p5 /\ Has(j5, 0, e) /\ Has(j5, n, D) /\ Has(j5, p1, x)
      /\ Has(j5, p2, D) /\ Has(j5, p3, y) /\ Has(j5, p4, D)
  <2>1. Grows(j4, p4, D, 2, j5) BY <1>1, <1>6, Grow
  <2> QED BY <1>1, <1>6, <2>1 DEF Grows
<1> HIDE DEF j5
<1>8. /\ j \in String /\ Len(j) = p5 + b
      /\ Has(j, 0, e) /\ Has(j, n, D) /\ Has(j, p1, x) /\ Has(j, p2, D)
      /\ Has(j, p3, y) /\ Has(j, p4, D) /\ Has(j, p5, z)
  <2>1. Grows(j5, p5, z, b, j) BY <1>2, <1>7, Grow
  <2> QED BY <1>1, <1>7, <2>1 DEF Grows
<1> QED
  BY <1>8 DEF D, InFour
-----------------------------------------------------------------------------
(***************************************************************************)
(* The name of a state machine.                                            *)
(***************************************************************************)

\* What becomes of a character in the name of a state machine.
Allowed(c) == IF c = ":" THEN "-" ELSE c

\* The name m has what becomes of t after its first p characters.
Shows(m, p, t) == p + Len(t) <= Len(m) /\ \A i \in 1 .. Len(t) : m[p + i] = Allowed(t[i])

\* m is the name of d's state machine: the namespace ends at n, the name of the
\* definition is between p1 and p2, the version between p3 and p4, StartAt
\* between p5 and k.
IsLayout(d, m, n, p1, p2, p3, p4, p5, k) ==
    /\ n = Len(Environment) /\ p1 = n + 2 /\ p2 = p1 + Len(d.name) /\ p3 = p2 + 2
    /\ p4 = p3 + Len(Decimal(d.version)) /\ p5 = p4 + 2 /\ k = p5 + Len(d.startAt)
    /\ m \in String /\ Len(m) = k
    /\ Shows(m, 0, Environment) /\ Shows(m, n, Dashes)
    /\ Shows(m, p1, d.name) /\ Shows(m, p2, Dashes)
    /\ Shows(m, p3, Decimal(d.version)) /\ Shows(m, p4, Dashes)
    /\ Shows(m, p5, d.startAt)

\* A definition in parts.
LEMMA DefinitionFacts ==
    ASSUME NEW d \in Definition
    PROVE  /\ Environment \in String /\ d.name \in String /\ d.startAt \in String
           /\ d.version \in {-1, 0, 1} /\ Decimal(d.version) \in String
           /\ Len(Environment) \in Nat /\ Len(d.name) \in Nat /\ Len(d.startAt) \in Nat
           /\ Len(Decimal(d.version)) \in 1 .. 2
<1>1. /\ Environment \in String /\ d.name \in String /\ d.startAt \in String
      /\ d.version \in {-1, 0, 1}
  BY EmbeddedManagerAssumption DEF Definition
<1>2. Decimal(d.version) \in String /\ Len(Decimal(d.version)) \in 1 .. 2
  BY <1>1, SmallStrings
<1>3. \A s \in String : Len(s) \in Nat
  BY DEF String
<1> QED
  BY <1>1, <1>2, <1>3

\* Characters are replaced one by one.
LEMMA ReplacedStays ==
    ASSUME NEW j \in String, NEW m, m = [i \in 1 .. Len(j) |-> Allowed(j[i])]
    PROVE  /\ m \in String /\ Len(m) = Len(j)
           /\ \A p \in Nat : \A t \in String : Has(j, p, t) => Shows(m, p, t)
<1>1. \A i \in 1 .. Len(j) : Allowed(j[i]) \in Char
  BY NamingAssumption DEF String, Allowed
<1>2. m \in String /\ Len(m) = Len(j)
  BY <1>1 DEF String
<1>3. ASSUME NEW p \in Nat, NEW t \in String, Has(j, p, t) PROVE Shows(m, p, t)
  <2>1. Len(t) \in Nat /\ Len(j) \in Nat
    BY DEF String
  <2>2. p + Len(t) <= Len(m)
    BY <1>2, <1>3 DEF Has
  <2>3. ASSUME NEW i \in 1 .. Len(t) PROVE m[p + i] = Allowed(t[i])
    <3>1. p + i \in 1 .. Len(j) /\ j[p + i] = t[i]
      BY <1>3, <2>1 DEF Has
    <3> QED
      BY <3>1
  <2> QED
    BY <2>2, <2>3 DEF Shows
<1> QED
  BY <1>2, <1>3

\* Every name of a state machine is laid out like that.
LEMMA HasLayout ==
    ASSUME NEW d \in Definition
    PROVE  \E n \in Nat, p1 \in Nat, p2 \in Nat, p3 \in Nat, p4 \in Nat, p5 \in Nat, k \in Nat :
              IsLayout(d, Machine(d), n, p1, p2, p3, p4, p5, k)
<1> DEFINE n == Len(Environment)
           a == Len(d.name)
           v == Len(Decimal(d.version))
           b == Len(d.startAt)
           p1 == n + 2
           p2 == p1 + a
           p3 == p2 + 2
           p4 == p3 + v
           p5 == p4 + 2
           k == p5 + b
           e == Environment
           y == Decimal(d.version)
           j == e \o Dashes \o d.name \o Dashes \o y \o Dashes \o d.startAt
           m == Machine(d)
<1>1. /\ e \in String /\ d.name \in String /\ d.startAt \in String /\ y \in String
      /\ n \in Nat /\ a \in Nat /\ b \in Nat /\ v \in Nat
  BY DefinitionFacts
<1>2. m = [i \in 1 .. Len(j) |-> Allowed(j[i])]
  BY DEF Machine, StateMachineName, Allowed
<1>3. p1 = n + 2 /\ p2 = p1 + a /\ p3 = p2 + 2 /\ p4 = p3 + v /\ p5 = p4 + 2 /\ k = p5 + b
  OBVIOUS
<1>4. n = Len(e) /\ a = Len(d.name) /\ v = Len(y) /\ b = Len(d.startAt)
  OBVIOUS
<1> HIDE DEF n, a, v, b
<1>5. p1 \in Nat /\ p2 \in Nat /\ p3 \in Nat /\ p4 \in Nat /\ p5 \in Nat /\ k \in Nat
  BY <1>1
<1> HIDE DEF p1, p2, p3, p4, p5, k
<1>6. j = e \o Dashes \o d.name \o Dashes \o y \o Dashes \o d.startAt
  OBVIOUS
<1> HIDE DEF j, e, y, m
<1>7. /\ j \in String /\ Len(j) = p5 + b
      /\ Has(j, 0, e) /\ Has(j, n, Dashes) /\ Has(j, p1, d.name) /\ Has(j, p2, Dashes)
      /\ Has(j, p3, y) /\ Has(j, p4, Dashes) /\ Has(j, p5, d.startAt)
  <2>1. InFour(j, e, d.name, y, d.startAt, n, p1, p2, p3, p4, p5, b)
    BY <1>1, <1>3, <1>4, <1>5, <1>6, FourParts
  <2> QED
    BY <2>1 DEF InFour
<1>8. /\ m \in String /\ Len(m) = k
      /\ \A p \in Nat : \A t \in String : Has(j, p, t) => Shows(m, p, t)
  BY <1>2, <1>3, <1>7, ReplacedStays
<1>9. /\ Shows(m, 0, e) /\ Shows(m, n, Dashes) /\ Shows(m, p1, d.name) /\ Shows(m, p2, Dashes)
      /\ Shows(m, p3, y) /\ Shows(m, p4, Dashes) /\ Shows(m, p5, d.startAt)
  <2>1. Dashes \in String /\ 0 \in Nat
    BY SmallStrings
  <2> QED
    BY <1>1, <1>5, <1>7, <1>8, <2>1
<1>10. IsLayout(d, m, n, p1, p2, p3, p4, p5, k)
  BY <1>3, <1>4, <1>8, <1>9 DEF IsLayout, e, y
<1> QED
  BY <1>1, <1>5, <1>10 DEF m
-----------------------------------------------------------------------------
(***************************************************************************)
(* Where there are two dashes in a row.                                    *)
(***************************************************************************)

\* The dashes that were put there.
LEMMA ShownDashes ==
    ASSUME NEW m, NEW p \in Nat, Shows(m, p, Dashes)
    PROVE  m[p + 1] = "-" /\ m[p + 2] = "-"
<1>1. Len(Dashes) = 2 /\ Dashes[1] = "-" /\ Dashes[2] = "-"
  BY SmallStrings
<1>2. Allowed("-") = "-"
  BY DEF Allowed
<1>3. m[p + 1] = Allowed(Dashes[1]) /\ m[p + 2] = Allowed(Dashes[2])
  BY <1>1 DEF Shows
<1> QED
  BY <1>1, <1>2, <1>3

\* There is something between p and q, no two dashes, and none at the end.
Solid(m, p, q) == q > p /\ m[q] # "-" /\ \A j \in p + 1 .. q - 1 : ~Pair(m, j)

\* None are in a clean part, nor does one end with a dash.
LEMMA ShownClean ==
    ASSUME NEW t \in String, Clean(t), NEW m, NEW p \in Nat, NEW q \in Nat, q = p + Len(t),
           Shows(m, p, t)
    PROVE  /\ Solid(m, p, q)
           /\ \A i \in 1 .. Len(t) : m[p + i] = t[i]
<1>1. Len(t) \in Nat /\ Len(t) > 0
  BY DEF Clean, String
<1>2. ASSUME NEW i \in 1 .. Len(t) PROVE m[p + i] = t[i]
  <2>1. t[i] # ":"
    BY <1>1 DEF Clean, ToSet, String
  <2> QED
    BY <2>1 DEF Shows, Allowed
<1>3. m[q] # "-"
  <2>1. Len(t) \in 1 .. Len(t)
    BY <1>1
  <2>2. m[p + Len(t)] = t[Len(t)]
    BY <1>2, <2>1
  <2> QED
    BY <2>2 DEF Clean, Last
<1>4. ASSUME NEW j \in p + 1 .. q - 1, Pair(m, j) PROVE FALSE
  <2>1. PICK i \in 1 .. Len(t) - 1 : j = p + i
    <3>1. j - p \in 1 .. Len(t) - 1 /\ j = p + (j - p)
      BY <1>1
    <3> QED
      BY <3>1
  <2>2. i \in 1 .. Len(t) /\ i + 1 \in 1 .. Len(t) /\ p + i + 1 = p + (i + 1)
    BY <1>1
  <2>3. m[p + i] = t[i] /\ m[p + (i + 1)] = t[i + 1]
    BY <1>2, <2>2
  <2>4. t[i] = "-" /\ t[i + 1] = "-"
    BY <1>4, <2>1, <2>2, <2>3 DEF Pair
  <2> QED
    BY <2>1, <2>4 DEF Clean, Whole, Pair
<1> QED
  BY <1>1, <1>2, <1>3, <1>4 DEF Solid

\* The version ends with a digit and has no two dashes.
LEMMA ShownVersion ==
    ASSUME NEW v \in {-1, 0, 1}, NEW m, NEW p \in Nat, NEW q \in Nat, q = p + Len(Decimal(v)),
           Shows(m, p, Decimal(v))
    PROVE  /\ Solid(m, p, q)
           /\ \A i \in 1 .. Len(Decimal(v)) : m[p + i] = Decimal(v)[i]
           /\ v # -1 => q = p + 1
           /\ v = -1 => q = p + 2 /\ m[p + 1] = "-" /\ m[p + 2] = "1"
<1>1. CASE v = -1
  <2>1. Len(Decimal(v)) = 2 /\ Decimal(v)[1] = "-" /\ Decimal(v)[2] = "1"
    BY <1>1, SmallStrings
  <2>2. m[p + 1] = Allowed(Decimal(v)[1]) /\ m[p + 2] = Allowed(Decimal(v)[2])
    BY <2>1 DEF Shows
  <2>3. Allowed("-") = "-" /\ Allowed("1") = "1"
    BY DEF Allowed
  <2>4. m[p + 1] = "-" /\ m[p + 2] = "1" /\ q = p + 2
    BY <2>1, <2>2, <2>3
  <2>5. \A j \in p + 1 .. q - 1 : ~Pair(m, j)
    <3>1. \A j \in p + 1 .. q - 1 : j = p + 1 /\ j + 1 = p + 2
      BY <2>4
    <3> QED
      BY <2>4, <3>1 DEF Pair
  <2>6. \A i \in 1 .. 2 : i = 1 \/ i = 2
    OBVIOUS
  <2> QED
    BY <1>1, <2>1, <2>4, <2>5, <2>6 DEF Solid
<1>2. CASE v # -1
  <2>1. Len(Decimal(v)) = 1 /\ Decimal(v)[1] \in {"0", "1"}
    BY <1>2, SmallStrings
  <2>2. m[p + 1] = Allowed(Decimal(v)[1])
    BY <2>1 DEF Shows
  <2>3. Allowed("0") = "0" /\ Allowed("1") = "1"
    BY DEF Allowed
  <2>4. m[p + 1] = Decimal(v)[1] /\ m[p + 1] # "-" /\ q = p + 1
    BY <2>1, <2>2, <2>3
  <2>5. \A i \in 1 .. 1 : i = 1
    OBVIOUS
  <2> QED
    BY <1>2, <2>1, <2>4, <2>5 DEF Solid
<1> QED
  BY <1>1, <1>2

\* In the name of a clean definition, two dashes in a row behind the namespace
\* are a separator, or end one before a part that begins with a dash.
NamePairs(m, n, p1, p2, p3, p4, p5, k) ==
    /\ p1 = n + 2 /\ p2 > p1 /\ p3 = p2 + 2 /\ p4 > p3 /\ p5 = p4 + 2 /\ k > p5
    /\ \A j \in n + 1 .. k - 1 :
          Pair(m, j) => j \in {n + 1, n + 2, p2 + 1, p2 + 2, p4 + 1, p4 + 2}
    /\ Pair(m, n + 1) /\ Pair(m, p2 + 1) /\ Pair(m, p4 + 1)
    /\ m[p2] # "-" /\ m[p4] # "-" /\ m[k] # "-"

\* The name of a clean definition has such pairs only.
LEMMA PairsInName ==
    ASSUME NEW d \in Definition, CleanDef(d), NEW m, NEW n \in Nat, NEW p1 \in Nat,
           NEW p2 \in Nat, NEW p3 \in Nat, NEW p4 \in Nat, NEW p5 \in Nat, NEW k \in Nat,
           IsLayout(d, m, n, p1, p2, p3, p4, p5, k)
    PROVE  NamePairs(m, n, p1, p2, p3, p4, p5, k) /\ (d.version # -1 => p4 = p3 + 1)
<1>0. /\ d.name \in String /\ d.startAt \in String /\ d.version \in {-1, 0, 1}
  BY DefinitionFacts
<1>1. p1 = n + 2 /\ p3 = p2 + 2 /\ p5 = p4 + 2
  BY DEF IsLayout
<1>a. /\ Clean(d.name) /\ p2 = p1 + Len(d.name) /\ Shows(m, p1, d.name)
      /\ p4 = p3 + Len(Decimal(d.version)) /\ Shows(m, p3, Decimal(d.version))
      /\ Clean(d.startAt) /\ k = p5 + Len(d.startAt) /\ Shows(m, p5, d.startAt)
  BY DEF IsLayout, CleanDef
<1>2. Solid(m, p1, p2)
  BY <1>0, <1>a, ShownClean
<1>3. Solid(m, p3, p4) /\ (d.version # -1 => p4 = p3 + 1)
  <2> DEFINE v == d.version
  <2>1. v \in {-1, 0, 1} /\ p4 = p3 + Len(Decimal(v)) /\ Shows(m, p3, Decimal(v))
    BY <1>0, <1>a
  <2> HIDE DEF v
  <2>2. Solid(m, p3, p4) /\ (v # -1 => p4 = p3 + 1)
    BY <2>1, ShownVersion
  <2> QED
    BY <2>2 DEF v
<1>4. Solid(m, p5, k)
  BY <1>0, <1>a, ShownClean
<1>5. /\ m[n + 1] = "-" /\ m[n + 2] = "-" /\ m[p2 + 1] = "-" /\ m[p2 + 2] = "-"
      /\ m[p4 + 1] = "-" /\ m[p4 + 2] = "-"
  BY ShownDashes DEF IsLayout
<1>6. Pair(m, n + 1) /\ Pair(m, p2 + 1) /\ Pair(m, p4 + 1)
  BY <1>5 DEF Pair
<1>7. ~Pair(m, p2) /\ ~Pair(m, p4)
  BY <1>2, <1>3 DEF Pair, Solid
<1>8. ASSUME NEW j \in n + 1 .. k - 1, Pair(m, j)
      PROVE  j \in {n + 1, n + 2, p2 + 1, p2 + 2, p4 + 1, p4 + 2}
  <2>1. j \notin p1 + 1 .. p2 - 1 /\ j # p2 /\ j \notin p3 + 1 .. p4 - 1 /\ j # p4
        /\ j \notin p5 + 1 .. k - 1
    BY <1>2, <1>3, <1>4, <1>7, <1>8 DEF Solid
  <2> QED
    BY <1>1, <1>2, <1>3, <1>4, <2>1 DEF Solid
<1> QED
  BY <1>1, <1>2, <1>3, <1>4, <1>6, <1>8 DEF Solid, NamePairs

\* A definition that may not change does not share its state machine with one
\* that may, if its own name is clean.
LEMMA CleanIsFrozen ==
    ASSUME NEW d \in Definition, CleanDef(d), d.version # -1,
           NEW f \in Definition, Valid(f), f.version = -1
    PROVE  Machine(d) # Machine(f)
<1> SUFFICES ASSUME Machine(d) = Machine(f) PROVE FALSE
  OBVIOUS
<1> DEFINE m == Machine(d)
<1>1. PICK n \in Nat, p1 \in Nat, p2 \in Nat, p3 \in Nat, p4 \in Nat, p5 \in Nat, k \in Nat :
         IsLayout(d, m, n, p1, p2, p3, p4, p5, k)
  BY HasLayout
<1>2. PICK q0 \in Nat, q1 \in Nat, q2 \in Nat, q3 \in Nat, q4 \in Nat, q5 \in Nat, q6 \in Nat :
         IsLayout(f, m, q0, q1, q2, q3, q4, q5, q6)
  BY HasLayout
<1> HIDE DEF m
<1>3. q0 = n /\ q6 = k /\ q1 = n + 2 /\ q3 = q2 + 2 /\ q5 = q4 + 2 /\ k >= q5
  <2> DEFINE b == Len(f.startAt)
  <2>1. b \in Nat
    BY DefinitionFacts
  <2>2. n = Len(Environment) /\ k = Len(m)
    BY <1>1 DEF IsLayout
  <2>3. /\ q0 = Len(Environment) /\ q6 = Len(m) /\ q6 = q5 + b
        /\ q1 = q0 + 2 /\ q3 = q2 + 2 /\ q5 = q4 + 2
    BY <1>2 DEF IsLayout
  <2> HIDE DEF b
  <2>4. q0 = n /\ q6 = k
    BY <2>2, <2>3
  <2>5. k >= q5
    BY <2>1, <2>3, <2>4
  <2> QED
    BY <2>3, <2>4, <2>5
<1>4. q2 > q1
  <2>1. Len(f.name) \in Nat /\ Len(f.name) # 0
    BY DEF Valid, Definition, String
  <2>2. q2 = q1 + Len(f.name)
    BY <1>2 DEF IsLayout
  <2> QED
    BY <2>1, <2>2
<1>5. q4 = q3 + 2 /\ m[q3 + 1] = "-" /\ m[q3 + 2] = "1"
  BY <1>2, ShownVersion DEF IsLayout, Definition
<1>6. m[q2 + 1] = "-" /\ m[q2 + 2] = "-" /\ m[q4 + 1] = "-" /\ m[q4 + 2] = "-"
  BY <1>2, ShownDashes DEF IsLayout
<1>7. Pair(m, q2 + 1) /\ Pair(m, q2 + 2) /\ Pair(m, q4 + 1)
  <2>1. (q2 + 1) + 1 = q2 + 2 /\ (q2 + 2) + 1 = q3 + 1 /\ (q4 + 1) + 1 = q4 + 2
    BY <1>3
  <2> QED
    BY <1>5, <1>6, <2>1 DEF Pair
<1>8. NamePairs(m, n, p1, p2, p3, p4, p5, k) /\ p4 = p3 + 1
  BY <1>1, PairsInName
<1>9. /\ q2 + 1 \in {p2 + 1, p2 + 2, p4 + 1, p4 + 2}
      /\ q2 + 2 \in {p2 + 1, p2 + 2, p4 + 1, p4 + 2}
      /\ q4 + 1 \in {p2 + 1, p2 + 2, p4 + 1, p4 + 2}
  BY <1>3, <1>4, <1>5, <1>7, <1>8 DEF NamePairs
<1>10. m[p3 + 1] # "-"
  BY <1>8 DEF NamePairs
<1> QED
  BY <1>3, <1>5, <1>8, <1>9, <1>10 DEF NamePairs
-----------------------------------------------------------------------------
(***************************************************************************)
(* Taking names apart.                                                     *)
(***************************************************************************)

\* C are the beginnings of the runs of dashes in s, and no run is longer than three.
Marks(s, C) ==
    /\ C \subseteq 1 .. Len(s) - 1
    /\ \A c \in C : Pair(s, c) /\ (c = 1 \/ s[c - 1] # "-")
    /\ \A j \in 1 .. Len(s) - 1 : Pair(s, j) => j \in C \/ j - 1 \in C

\* strings.Split cuts at the beginning of each such run, and nowhere else.
LEMMA CutsAreMarks ==
    ASSUME NEW s \in String, NEW C, Marks(s, C)
    PROVE  Cuts(s) = C
<1>0. Len(s) \in Nat
  BY DEF String
<1>1. ASSUME NEW c \in C PROVE c \in Cuts(s)
  <2>1. c \in 1 .. Len(s) - 1 /\ Pair(s, c) /\ (c = 1 \/ s[c - 1] # "-")
    BY DEF Marks
  <2>2. c \in 1 .. c /\ (\A k \in c .. c : s[k] = "-") /\ (c - c) % 2 = 0
    <3>1. s[c] = "-"
      BY <2>1 DEF Pair
    <3>2. c \in Nat /\ c - c = 0 /\ \A k \in c .. c : k = c
      BY <1>0, <2>1
    <3> QED
      BY <2>1, <3>1, <3>2
  <2> QED
    BY <2>1, <2>2 DEF Cuts
<1>2. ASSUME NEW j \in Cuts(s) PROVE j \in C
  <2> SUFFICES ASSUME j \notin C PROVE FALSE
    OBVIOUS
  <2>1. j \in 1 .. Len(s) - 1 /\ Pair(s, j)
    BY DEF Cuts
  <2>2. PICK b \in 1 .. j : /\ b = 1 \/ s[b - 1] # "-"
                            /\ \A k \in b .. j : s[k] = "-"
                            /\ (j - b) % 2 = 0
    BY DEF Cuts
  <2>3. j - 1 \in C
    BY <2>1 DEF Marks
  <2>4. j - 1 \in 1 .. Len(s) - 1 /\ s[j - 1] = "-" /\ (j - 1 = 1 \/ s[(j - 1) - 1] # "-")
    BY <2>3 DEF Marks, Pair
  <2>5. b # j
    BY <1>0, <2>1, <2>2, <2>4
  <2>6. CASE b = j - 1
    <3>1. j - b = 1
      BY <1>0, <2>1, <2>6
    <3> QED
      BY <2>2, <3>1
  <2>7. CASE b < j - 1
    <3>1. (j - 1) - 1 \in b .. j /\ j - 1 # 1
      BY <1>0, <2>1, <2>4, <2>7
    <3> QED
      BY <2>2, <2>4, <3>1
  <2> QED
    BY <1>0, <2>1, <2>5, <2>6, <2>7
<1> QED
  BY <1>1, <1>2

\* t is the part of s from a to q.
IsPart(s, a, q, t) == SubSeq(s, a, q) = t

\* SubSeq takes out what is there.
LEMMA SubSeqIs ==
    ASSUME NEW s \in String, NEW t \in String, NEW p \in Nat, NEW a \in Nat, NEW q \in Nat,
           a = p + 1, q = p + Len(t), q <= Len(s), \A i \in 1 .. Len(t) : s[p + i] = t[i]
    PROVE  IsPart(s, a, q, t)
<1> DEFINE r == SubSeq(s, a, q)
<1>0. Len(s) \in Nat /\ Len(t) \in Nat /\ s \in Seq(Char) /\ t \in Seq(Char)
  BY DEF String
<1>1. r \in Seq(Char) /\ Len(r) = Len(t)
  BY <1>0
<1>2. ASSUME NEW i \in 1 .. Len(t) PROVE r[i] = t[i]
  BY <1>0, <1>2
<1> HIDE DEF r
<1>3. r = t
  BY <1>0, <1>1, <1>2
<1> QED
  BY <1>3 DEF r, IsPart

\* Where a string is cut, there are finitely many places.
LEMMA CutsFinite ==
    ASSUME NEW s \in String
    PROVE  /\ IsFiniteSet(Cuts(s)) /\ Cardinality(Cuts(s)) \in Nat
           /\ \A c \in Cuts(s) : c \in 1 .. Len(s) - 1
<1>1. IsFiniteSet(1 .. Len(s) - 1)
  <2>1. 1 \in Int /\ Len(s) - 1 \in Int
    BY DEF String
  <2> QED
    BY <2>1, FS_Interval
<1>2. Cuts(s) \subseteq 1 .. Len(s) - 1
  BY DEF Cuts
<1> QED
  BY <1>1, <1>2, FS_Subset, FS_CardinalityType

\* The k-th cut is j, if k cuts are not after j.
LEMMA CutIs ==
    ASSUME NEW C, IsFiniteSet(C), C \subseteq Nat, NEW k \in Nat, NEW c \in C,
           Cardinality({i \in C : i <= c}) = k
    PROVE  (CHOOSE j \in C : Cardinality({i \in C : i <= j}) = k) = c
<1>1. ASSUME NEW j \in C, NEW h \in C, j < h
      PROVE  Cardinality({i \in C : i <= j}) # Cardinality({i \in C : i <= h})
  <2> DEFINE J == {i \in C : i <= j}
             H == {i \in C : i <= h}
  <2>0. j \in Nat /\ h \in Nat /\ \A i \in C : i \in Nat
    OBVIOUS
  <2>1. J \subseteq H /\ h \in H /\ h \notin J
    <3>1. ASSUME NEW i \in J PROVE i \in H
      <4>1. i \in C /\ i <= j /\ i \in Nat
        BY <2>0
      <4>2. i <= h
        BY <1>1, <2>0, <4>1
      <4> QED
        BY <4>1, <4>2
    <3>2. h <= h /\ ~(h <= j)
      BY <1>1, <2>0
    <3> QED
      BY <3>1, <3>2
  <2>2. IsFiniteSet(H)
    <3>1. H \subseteq C
      OBVIOUS
    <3> HIDE DEF H
    <3> QED
      BY <3>1, FS_Subset
  <2> HIDE DEF J, H
  <2>3. Cardinality(J) # Cardinality(H)
    <3>1. J # H
      BY <2>1
    <3> QED
      BY <2>1, <2>2, <3>1, FS_Subset
  <2> QED
    BY <2>3 DEF J, H
<1>2. ASSUME NEW j \in C, Cardinality({i \in C : i <= j}) = k PROVE j = c
  <2>1. j \in Nat /\ c \in Nat
    OBVIOUS
  <2>2. ~(j < c) /\ ~(c < j)
    BY <1>1, <1>2
  <2> QED
    BY <2>1, <2>2
<1> QED
  BY <1>2

\* The last part begins after the last cut.
LEMMA SplitLast ==
    ASSUME NEW s \in String, NEW c \in Cuts(s), \A j \in Cuts(s) : j <= c
    PROVE  Len(Split(s)) >= 2 /\ Last(Split(s)) = SubSeq(s, c + 2, Len(s))
<1> DEFINE C == Cuts(s)
           n == Cardinality(C)
           cut(k) == CHOOSE j \in C : Cardinality({i \in C : i <= j}) = k
           part(k) == SubSeq(s, IF k = 1 THEN 1 ELSE cut(k - 1) + 2,
                                IF k = n + 1 THEN Len(s) ELSE cut(k) - 1)
<1>1. IsFiniteSet(C) /\ n \in Nat /\ C \subseteq Nat
  BY CutsFinite
<1>2. n # 0
  BY <1>1, FS_EmptySet
<1>3. {i \in C : i <= c} = C
  OBVIOUS
<1>4. cut(n) = c
  <2>1. Cardinality({i \in C : i <= c}) = n /\ c \in C
    BY <1>3
  <2> HIDE DEF C, n
  <2> QED
    BY <1>1, <2>1, CutIs
<1>5. Split(s) = [k \in 1 .. n + 1 |-> part(k)]
  BY DEF Split
<1> HIDE DEF C, n, cut, part
<1>6. Len(Split(s)) = n + 1 /\ Split(s)[n + 1] = part(n + 1)
  BY <1>1, <1>5
<1>7. (n + 1) - 1 = n /\ n + 1 # 1 /\ n + 1 >= 2
  BY <1>1, <1>2
<1>8. part(n + 1) = SubSeq(s, c + 2, Len(s))
  BY <1>4, <1>7 DEF part
<1> QED
  BY <1>6, <1>7, <1>8 DEF Last

\* With three cuts there are four parts.
InThree(s, c1, c2, c3) ==
    /\ Len(Split(s)) = 4
    /\ Split(s)[2] = SubSeq(s, c1 + 2, c2 - 1)
    /\ Split(s)[3] = SubSeq(s, c2 + 2, c3 - 1)

\* The second and the third of them are what is between the cuts.
LEMMA SplitThree ==
    ASSUME NEW s \in String, NEW c1 \in Nat, NEW c2 \in Nat, NEW c3 \in Nat,
           c1 < c2, c2 < c3, Cuts(s) = {c1, c2, c3}
    PROVE  InThree(s, c1, c2, c3)
<1> DEFINE C == Cuts(s)
           n == Cardinality(C)
           cut(k) == CHOOSE j \in C : Cardinality({i \in C : i <= j}) = k
           part(k) == SubSeq(s, IF k = 1 THEN 1 ELSE cut(k - 1) + 2,
                                IF k = n + 1 THEN Len(s) ELSE cut(k) - 1)
<1>1. IsFiniteSet(C) /\ C \subseteq Nat
  BY CutsFinite
<1>2. IsFiniteSet({c1}) /\ Cardinality({c1}) = 1
  BY FS_Singleton
<1>3. IsFiniteSet({c1, c2}) /\ Cardinality({c1, c2}) = 2
  <2>1. {c1, c2} = {c1} \cup {c2} /\ c2 \notin {c1}
    OBVIOUS
  <2>2. IsFiniteSet({c1} \cup {c2}) /\ Cardinality({c1} \cup {c2}) = 1 + 1
    BY <1>2, <2>1, FS_AddElement
  <2> QED
    BY <2>1, <2>2
<1>4. n = 3
  <2>1. C = {c1, c2} \cup {c3} /\ c3 \notin {c1, c2}
    OBVIOUS
  <2>2. Cardinality({c1, c2} \cup {c3}) = 2 + 1
    BY <1>3, <2>1, FS_AddElement
  <2> QED
    BY <2>1, <2>2
<1>5. /\ {i \in C : i <= c1} = {c1} /\ {i \in C : i <= c2} = {c1, c2}
      /\ {i \in C : i <= c3} = C
  OBVIOUS
<1>6. /\ Cardinality({i \in C : i <= c1}) = 1 /\ Cardinality({i \in C : i <= c2}) = 2
      /\ Cardinality({i \in C : i <= c3}) = 3 /\ c1 \in C /\ c2 \in C /\ c3 \in C
  BY <1>2, <1>3, <1>4, <1>5
<1>7. Split(s) = [k \in 1 .. n + 1 |-> part(k)]
  BY DEF Split
<1> HIDE DEF C, n
<1>8. cut(1) = c1 /\ cut(2) = c2 /\ cut(3) = c3
  BY <1>1, <1>6, CutIs
<1> HIDE DEF cut, part
<1>9. Len(Split(s)) = 4 /\ Split(s)[2] = part(2) /\ Split(s)[3] = part(3)
  BY <1>4, <1>7
<1>10. n + 1 = 4
  BY <1>4
<1>11. ASSUME NEW k \in Nat, NEW h \in Nat, k = h + 1, h > 0, k < 4
       PROVE  part(k) = SubSeq(s, cut(h) + 2, cut(k) - 1)
  <2>1. k - 1 = h /\ k # 1 /\ k # n + 1
    BY <1>10, <1>11
  <2> QED
    BY <2>1 DEF part
<1>12. part(2) = SubSeq(s, cut(1) + 2, cut(2) - 1) /\ part(3) = SubSeq(s, cut(2) + 2, cut(3) - 1)
  BY <1>11
<1> QED
  BY <1>8, <1>9, <1>12 DEF InThree
-----------------------------------------------------------------------------
(***************************************************************************)
(* Names that survive.                                                     *)
(***************************************************************************)

\* The name of a clean definition in a clean namespace is cut at its separators.
LEMMA NameMarks ==
    ASSUME NEW m \in String, NEW n \in Nat, NEW p1 \in Nat, NEW p2 \in Nat, NEW p3 \in Nat,
           NEW p4 \in Nat, NEW p5 \in Nat, NEW k \in Nat, Len(m) = k,
           Solid(m, 0, n), NamePairs(m, n, p1, p2, p3, p4, p5, k)
    PROVE  Marks(m, {n + 1, p2 + 1, p4 + 1})
<1> DEFINE C == {n + 1, p2 + 1, p4 + 1}
<1>1. /\ p1 = n + 2 /\ p2 > p1 /\ p3 = p2 + 2 /\ p4 > p3 /\ p5 = p4 + 2 /\ k > p5 /\ n > 0
      /\ Pair(m, n + 1) /\ Pair(m, p2 + 1) /\ Pair(m, p4 + 1)
      /\ m[p2] # "-" /\ m[p4] # "-" /\ m[n] # "-"
  BY DEF NamePairs, Solid
<1>2. C \subseteq 1 .. k - 1
  BY <1>1
<1>3. ASSUME NEW c \in C PROVE Pair(m, c) /\ (c = 1 \/ m[c - 1] # "-")
  <2>1. (n + 1) - 1 = n /\ (p2 + 1) - 1 = p2 /\ (p4 + 1) - 1 = p4
    OBVIOUS
  <2> QED
    BY <1>1, <2>1
<1>4. ASSUME NEW j \in 1 .. k - 1, Pair(m, j) PROVE j \in C \/ j - 1 \in C
  <2>1. j # n
    BY <1>1, <1>4 DEF Pair
  <2>2. j \notin 1 .. n - 1
    <3>1. \A i \in 0 + 1 .. n - 1 : ~Pair(m, i)
      BY DEF Solid
    <3> QED
      BY <1>4, <3>1
  <2>3. j \in n + 1 .. k - 1
    BY <2>1, <2>2
  <2>4. j \in {n + 1, n + 2, p2 + 1, p2 + 2, p4 + 1, p4 + 2}
    BY <1>4, <2>3 DEF NamePairs
  <2>5. (n + 2) - 1 = n + 1 /\ (p2 + 2) - 1 = p2 + 1 /\ (p4 + 2) - 1 = p4 + 1
    OBVIOUS
  <2> QED
    BY <2>4, <2>5
<1> HIDE DEF C
<1>5. Marks(m, C)
  BY <1>2, <1>3, <1>4 DEF Marks
<1> QED
  BY <1>5 DEF C

\* strconv.Atoi accepts a version.
LEMMA VersionIsInt ==
    ASSUME NEW v \in {-1, 0, 1}
    PROVE  IsInt(Decimal(v))
<1>1. CASE v = -1
  <2>1. Decimal(v) = <<"-", "1">>
    BY <1>1 DEF Decimal
  <2>2. <<"-", "1">> # <<>> /\ Head(<<"-", "1">>) = "-" /\ Tail(<<"-", "1">>) = <<"1">>
    OBVIOUS
  <2>3. <<"1">> # <<>> /\ ToSet(<<"1">>) = {"1"}
    BY DEF ToSet
  <2> QED
    BY <2>1, <2>2, <2>3 DEF IsInt
<1>2. CASE v = 0
  <2>1. Decimal(v) = <<"0">>
    BY <1>2 DEF Decimal
  <2>2. <<"0">> # <<>> /\ Head(<<"0">>) = "0" /\ ToSet(<<"0">>) = {"0"}
    BY DEF ToSet
  <2> QED
    BY <2>1, <2>2 DEF IsInt
<1>3. CASE v = 1
  <2>1. Decimal(v) = <<"1">>
    BY <1>3 DEF Decimal
  <2>2. <<"1">> # <<>> /\ Head(<<"1">>) = "1" /\ ToSet(<<"1">>) = {"1"}
    BY DEF ToSet
  <2> QED
    BY <2>1, <2>2 DEF IsInt
<1> QED
  BY <1>1, <1>2, <1>3

\* StateMachineNameParts gives back the name of a clean definition.
LEMMA NameSurvives ==
    ASSUME NEW d \in Definition, Clean(Environment), CleanDef(d)
    PROVE  HasNameParts(Machine(d)) /\ WDName(Machine(d)) = d.name
<1> DEFINE m == Machine(d)
<1>1. PICK n \in Nat, p1 \in Nat, p2 \in Nat, p3 \in Nat, p4 \in Nat, p5 \in Nat, k \in Nat :
         IsLayout(d, m, n, p1, p2, p3, p4, p5, k)
  BY HasLayout
<1> HIDE DEF m
<1>2. /\ m \in String /\ Len(m) = k
      /\ Shows(m, 0, Environment) /\ n = 0 + Len(Environment)
      /\ Shows(m, p1, d.name) /\ p2 = p1 + Len(d.name)
      /\ Shows(m, p3, Decimal(d.version)) /\ p4 = p3 + Len(Decimal(d.version))
  <2>1. Len(Environment) \in Nat
    BY DefinitionFacts
  <2>2. 0 + Len(Environment) = Len(Environment)
    BY <2>1
  <2> QED
    BY <1>1, <2>2 DEF IsLayout
<1>3. Environment \in String /\ d.name \in String /\ d.version \in {-1, 0, 1}
      /\ Decimal(d.version) \in String /\ Clean(d.name)
  BY DefinitionFacts DEF CleanDef
<1>4. Solid(m, 0, n)
  BY <1>2, <1>3, ShownClean
<1>5. NamePairs(m, n, p1, p2, p3, p4, p5, k)
  BY <1>1, PairsInName
<1>6. Cuts(m) = {n + 1, p2 + 1, p4 + 1}
  <2>1. Marks(m, {n + 1, p2 + 1, p4 + 1})
    BY <1>2, <1>4, <1>5, NameMarks
  <2> QED
    BY <1>2, <2>1, CutsAreMarks
<1>7. /\ p1 = n + 2 /\ p2 > p1 /\ p3 = p2 + 2 /\ p4 > p3 /\ p5 = p4 + 2 /\ k > p5
  BY <1>5 DEF NamePairs
<1>8. /\ Len(Split(m)) = 4
      /\ Split(m)[2] = SubSeq(m, p1 + 1, p2) /\ Split(m)[3] = SubSeq(m, p3 + 1, p4)
  <2> DEFINE c1 == n + 1
             c2 == p2 + 1
             c3 == p4 + 1
  <2>1. /\ c1 \in Nat /\ c2 \in Nat /\ c3 \in Nat /\ c1 < c2 /\ c2 < c3
        /\ c1 + 2 = p1 + 1 /\ c2 - 1 = p2 /\ c2 + 2 = p3 + 1 /\ c3 - 1 = p4
    BY <1>7
  <2>2. m \in String /\ Cuts(m) = {c1, c2, c3}
    BY <1>2, <1>6
  <2> HIDE DEF c1, c2, c3
  <2>3. InThree(m, c1, c2, c3)
    BY <2>1, <2>2, SplitThree
  <2> QED
    BY <2>1, <2>3 DEF InThree
<1>a. p1 + 1 \in Nat /\ p3 + 1 \in Nat /\ p2 <= Len(m) /\ p4 <= Len(m)
  <2>1. Len(m) = k
    BY <1>2
  <2>2. p2 <= k /\ p4 <= k
    BY <1>7
  <2> QED
    BY <2>1, <2>2
<1>9. SubSeq(m, p1 + 1, p2) = d.name
  <2> DEFINE t == d.name
             a == p1 + 1
  <2>1. t \in String /\ Clean(t) /\ p2 = p1 + Len(t) /\ Shows(m, p1, t) /\ m \in String
    BY <1>2, <1>3
  <2>2. a \in Nat /\ a = p1 + 1
    OBVIOUS
  <2> HIDE DEF t, a
  <2>3. \A i \in 1 .. Len(t) : m[p1 + i] = t[i]
    BY <2>1, ShownClean
  <2>4. IsPart(m, a, p2, t)
    BY <1>a, <2>1, <2>2, <2>3, SubSeqIs
  <2> QED
    BY <2>4 DEF t, a, IsPart
<1>10. SubSeq(m, p3 + 1, p4) = Decimal(d.version)
  <2> DEFINE v == d.version
             t == Decimal(v)
             a == p3 + 1
  <2>1. v \in {-1, 0, 1} /\ Shows(m, p3, Decimal(v)) /\ p4 = p3 + Len(Decimal(v)) /\ t \in String
    BY <1>2, <1>3
  <2>2. a \in Nat /\ a = p3 + 1
    OBVIOUS
  <2> HIDE DEF v, a
  <2>3. (\A i \in 1 .. Len(t) : m[p3 + i] = t[i]) /\ p4 = p3 + Len(t) /\ m \in String
    <3>1. \A i \in 1 .. Len(Decimal(v)) : m[p3 + i] = Decimal(v)[i]
      BY <2>1, ShownVersion
    <3>2. m \in String
      BY <1>2
    <3> QED
      BY <2>1, <3>1, <3>2
  <2> HIDE DEF t
  <2>4. IsPart(m, a, p4, t)
    BY <1>a, <2>1, <2>2, <2>3, SubSeqIs
  <2> QED
    BY <2>4 DEF t, v, a, IsPart
<1>11. IsInt(Decimal(d.version))
  BY <1>3, VersionIsInt
<1>12. HasNameParts(m) /\ WDName(m) = d.name
  BY <1>8, <1>9, <1>10, <1>11 DEF HasNameParts, WDName
<1> QED
  BY <1>12 DEF m

\* An ID that is not cut is what it is made of.
IsID(id, m, k, s) ==
    /\ id \in String /\ Len(id) = k + 2 + Len(s)
    /\ \A i \in 1 .. k : id[i] = m[i]
    /\ id[k + 1] = "-" /\ id[k + 2] = "-"
    /\ \A i \in 1 .. Len(s) : id[k + 2 + i] = s[i]

\* The name, the separator and the suffix, one behind the other.
LEMMA IDParts ==
    ASSUME NEW m \in String, NEW k \in Nat, k = Len(m), NEW s \in String
    PROVE  IsID(m \o Dashes \o s, m, k, s)
<1> DEFINE h == m \o Dashes
           id == h \o s
           b == Len(s)
           kk == k + 2
<1>1. Dashes \in String /\ Len(Dashes) = 2 /\ Dashes[1] = "-" /\ Dashes[2] = "-"
  BY SmallStrings
<1>2. Grows(m, k, Dashes, 2, h)
  BY <1>1, Grow
<1>3. h \in String /\ Len(h) = kk /\ Has(h, 0, m) /\ Has(h, k, Dashes) /\ kk \in Nat /\ b \in Nat
  BY <1>2 DEF Grows, String
<1>h. kk = k + 2 /\ b = Len(s)
  OBVIOUS
<1> HIDE DEF h, b, kk
<1>4. Grows(h, kk, s, b, id)
  BY <1>3, <1>h, Grow
<1>5. id \in String /\ Len(id) = kk + b /\ Has(id, 0, m) /\ Has(id, k, Dashes) /\ Has(id, kk, s)
  BY <1>1, <1>3, <1>4 DEF Grows
<1> HIDE DEF id
<1>6. \A i \in 1 .. k : id[i] = m[i]
  <2>1. \A i \in 1 .. k : id[0 + i] = m[i] /\ 0 + i = i
    BY <1>5 DEF Has
  <2> QED
    BY <2>1
<1>7. id[k + 1] = "-" /\ id[k + 2] = "-"
  <2>1. 1 \in 1 .. Len(Dashes) /\ 2 \in 1 .. Len(Dashes)
    BY <1>1
  <2> QED
    BY <1>1, <1>5, <2>1 DEF Has
<1>8. \A i \in 1 .. Len(s) : id[k + 2 + i] = s[i]
  BY <1>5, <1>h DEF Has
<1>9. IsID(id, m, k, s)
  BY <1>5, <1>6, <1>7, <1>8, <1>h DEF IsID
<1> QED
  BY <1>9 DEF id, h

\* It is cut at the separators of the name and at the one before the suffix.
LEMMA IDMarks ==
    ASSUME NEW m \in String, NEW k \in Nat, k = Len(m), NEW s \in String, Whole(s),
           NEW id, IsID(id, m, k, s), NEW C, Marks(m, C), k > 0, m[k] # "-"
    PROVE  Marks(id, C \cup {k + 1})
<1>1. Len(s) \in Nat /\ id \in String /\ Len(id) = k + 2 + Len(s)
  BY DEF IsID, String
<1>2. /\ C \subseteq 1 .. k - 1 /\ \A c \in C : Pair(m, c) /\ (c = 1 \/ m[c - 1] # "-")
      /\ \A j \in 1 .. k - 1 : Pair(m, j) => j \in C \/ j - 1 \in C
  BY DEF Marks
<1>3. ASSUME NEW j \in 1 .. k - 1 PROVE id[j] = m[j] /\ id[j + 1] = m[j + 1]
  <2>1. j \in 1 .. k /\ j + 1 \in 1 .. k
    OBVIOUS
  <2> QED
    BY <2>1 DEF IsID
<1>4. C \cup {k + 1} \subseteq 1 .. Len(id) - 1
  <2>1. k + 1 \in 1 .. Len(id) - 1
    BY <1>1
  <2>2. ASSUME NEW c \in C PROVE c \in 1 .. Len(id) - 1
    <3>1. c \in 1 .. k - 1
      BY <1>2
    <3> QED
      BY <1>1, <3>1
  <2> QED
    BY <2>1, <2>2
<1>5. ASSUME NEW c \in C PROVE Pair(id, c) /\ (c = 1 \/ id[c - 1] # "-")
  <2>1. c \in 1 .. k - 1 /\ Pair(m, c) /\ (c = 1 \/ m[c - 1] # "-")
    BY <1>2
  <2>2. Pair(id, c)
    BY <1>3, <2>1 DEF Pair
  <2>3. CASE c # 1
    <3>1. c - 1 \in 1 .. k - 1
      BY <2>1, <2>3
    <3> QED
      BY <1>3, <2>1, <2>2, <2>3, <3>1
  <2> QED
    BY <2>2, <2>3
<1>6. Pair(id, k + 1) /\ id[(k + 1) - 1] # "-"
  <2>1. (k + 1) - 1 = k /\ (k + 1) + 1 = k + 2 /\ k \in 1 .. k
    OBVIOUS
  <2>2. id[k] = m[k] /\ id[k + 1] = "-" /\ id[k + 2] = "-"
    BY <2>1 DEF IsID
  <2> QED
    BY <2>1, <2>2 DEF Pair
<1>7. ASSUME NEW j \in 1 .. Len(id) - 1, Pair(id, j)
      PROVE  j \in C \cup {k + 1} \/ j - 1 \in C \cup {k + 1}
  <2>1. CASE j \in 1 .. k - 1
    BY <1>2, <1>3, <1>7, <2>1 DEF Pair
  <2>2. j # k
    <3>1. (k + 1) - 1 = k
      OBVIOUS
    <3> QED
      BY <1>6, <1>7, <3>1 DEF Pair
  <2>3. CASE j = k + 1
    BY <2>3
  <2>4. CASE j = k + 2
    <3>1. j - 1 = k + 1
      BY <2>4
    <3> QED
      BY <3>1
  <2>5. ~(j > k + 2)
    <3> SUFFICES ASSUME j > k + 2 PROVE FALSE
      OBVIOUS
    <3> DEFINE x == j - (k + 2)
    <3>1. /\ x \in 1 .. Len(s) - 1 /\ x \in 1 .. Len(s) /\ x + 1 \in 1 .. Len(s)
          /\ k + 2 + x = j /\ k + 2 + (x + 1) = j + 1
      BY <1>1
    <3> HIDE DEF x
    <3>2. id[k + 2 + x] = s[x] /\ id[k + 2 + (x + 1)] = s[x + 1]
      BY <3>1 DEF IsID
    <3>3. Pair(s, x)
      BY <1>7, <3>1, <3>2 DEF Pair
    <3> QED
      BY <3>1, <3>3 DEF Whole
  <2> QED
    BY <1>1, <2>1, <2>2, <2>3, <2>4, <2>5
<1> QED
  BY <1>4, <1>5, <1>6, <1>7 DEF Marks
-----------------------------------------------------------------------------
(***************************************************************************)
(* IDs.                                                                    *)
(***************************************************************************)

\* An ID is a string that SFN accepts, and all of it is there if it fits.
IDFacts(id, m, s) ==
    /\ id \in String /\ Len(id) <= MaxLength
    /\ Len(id) = (IF Fits(m, s) THEN Len(m) + 2 + Len(s) ELSE MaxLength)
    /\ \A i \in 1 .. Len(id) : id[i] = (m \o Dashes \o s)[i]

\* workflowID yields such an ID.
LEMMA IDIsCut ==
    ASSUME NEW m \in String, NEW s \in String
    PROVE  IDFacts(WorkflowID(m, s), m, s)
<1> DEFINE full == m \o Dashes \o s
           l == Len(full)
           q == IF l > MaxLength THEN MaxLength ELSE l
           id == SubSeq(full, 1, q)
<1>1. IsID(full, m, Len(m), s) /\ Len(m) \in Nat /\ Len(s) \in Nat /\ MaxLength \in Nat
  <2>1. Len(m) \in Nat /\ Len(s) \in Nat
    BY DEF String
  <2> QED
    BY <2>1, IDParts, NamingAssumption
<1>2. full \in String /\ l = Len(m) + 2 + Len(s)
  BY <1>1 DEF IsID
<1>3. WorkflowID(m, s) = id
  BY DEF WorkflowID
<1>4. Fits(m, s) <=> ~(l > MaxLength)
  BY <1>1, <1>2 DEF Fits
<1>5. l \in Nat
  BY <1>1, <1>2
<1>l. l = Len(full)
  OBVIOUS
<1> HIDE DEF full, l
<1>6. q \in Nat /\ q <= l /\ q <= MaxLength /\ q = (IF Fits(m, s) THEN l ELSE MaxLength)
  BY <1>1, <1>4, <1>5
<1> HIDE DEF q
<1>7. id \in String /\ Len(id) = q /\ \A i \in 1 .. q : id[i] = full[i]
  BY <1>2, <1>5, <1>6, <1>l DEF String
<1> HIDE DEF id
<1>8. IDFacts(id, m, s)
  BY <1>2, <1>6, <1>7 DEF IDFacts, full
<1> QED
  BY <1>3, <1>8

\* An ID that fits is all there.
LEMMA FittingID ==
    ASSUME NEW m \in String, NEW s \in String, Fits(m, s), NEW k \in Nat, k = Len(m)
    PROVE  IsID(WorkflowID(m, s), m, k, s)
<1> DEFINE full == m \o Dashes \o s
           id == WorkflowID(m, s)
<1>1. IsID(full, m, k, s)
  BY IDParts
<1>2. IDFacts(id, m, s)
  BY IDIsCut
<1>3. id \in String /\ full \in String /\ Len(id) = Len(full) /\ \A i \in 1 .. Len(id) : id[i] = full[i]
  BY <1>1, <1>2 DEF IDFacts, IsID
<1> HIDE DEF id, full
<1>4. id = full
  BY <1>3 DEF String
<1> QED
  BY <1>1, <1>4 DEF id

\* parseWorkflowID finds the state machine of an ID that fits, if its name is clean.
LEMMA IDSurvives ==
    ASSUME NEW d \in Definition, Clean(Environment), CleanDef(d),
           NEW s \in String, Whole(s), Fits(Machine(d), s)
    PROVE  HasIDParts(WorkflowID(Machine(d), s)) /\ SMName(WorkflowID(Machine(d), s)) = Machine(d)
<1> DEFINE m == Machine(d)
           id == WorkflowID(m, s)
<1>1. PICK n \in Nat, p1 \in Nat, p2 \in Nat, p3 \in Nat, p4 \in Nat, p5 \in Nat, k \in Nat :
         IsLayout(d, m, n, p1, p2, p3, p4, p5, k)
  BY HasLayout
<1>f. Fits(m, s)
  OBVIOUS
<1> HIDE DEF m
<1>2. m \in String /\ Len(m) = k /\ Shows(m, 0, Environment) /\ n = 0 + Len(Environment)
  <2>1. Len(Environment) \in Nat
    BY DefinitionFacts
  <2>2. 0 + Len(Environment) = Len(Environment)
    BY <2>1
  <2> QED
    BY <1>1, <2>2 DEF IsLayout
<1>3. Environment \in String
  BY DefinitionFacts
<1>4. Solid(m, 0, n)
  BY <1>2, <1>3, ShownClean
<1>5. NamePairs(m, n, p1, p2, p3, p4, p5, k)
  BY <1>1, PairsInName
<1> DEFINE C == {n + 1, p2 + 1, p4 + 1}
<1>6. Marks(m, C)
  BY <1>2, <1>4, <1>5, NameMarks
<1>7. k > 0 /\ m[k] # "-"
  BY <1>5 DEF NamePairs
<1> HIDE DEF C
<1>8. IsID(id, m, k, s)
  BY <1>2, <1>f, FittingID
<1>9. id \in String /\ Len(id) = k + 2 + Len(s) /\ Len(s) \in Nat
  BY <1>8 DEF IsID, String
<1> HIDE DEF id
<1>10. Cuts(id) = C \cup {k + 1}
  <2>1. Marks(id, C \cup {k + 1})
    BY <1>2, <1>6, <1>7, <1>8, IDMarks
  <2> QED
    BY <1>9, <2>1, CutsAreMarks
<1>11. Len(Split(id)) >= 2 /\ Last(Split(id)) = SubSeq(id, k + 3, Len(id))
  <2> DEFINE c == k + 1
  <2>1. c \in Cuts(id) /\ c + 2 = k + 3
    BY <1>10
  <2>2. ASSUME NEW j \in Cuts(id) PROVE j <= c
    <3>1. CASE j \in C
      <4>1. C \subseteq 1 .. Len(m) - 1
        BY <1>6 DEF Marks
      <4>2. j \in 1 .. k - 1
        BY <1>2, <3>1, <4>1
      <4> QED
        BY <4>2
    <3>2. CASE j = k + 1
      BY <3>2
    <3> QED
      BY <1>10, <3>1, <3>2
  <2> HIDE DEF c
  <2>3. Len(Split(id)) >= 2 /\ Last(Split(id)) = SubSeq(id, c + 2, Len(id))
    BY <1>9, <2>1, <2>2, SplitLast
  <2> QED
    BY <2>1, <2>3
<1>12. Last(Split(id)) = s
  <2> DEFINE a == k + 3
             p == k + 2
             q == Len(id)
  <2>1. a \in Nat /\ p \in Nat /\ q \in Nat /\ a = p + 1 /\ q = p + Len(s) /\ q <= Len(id)
    BY <1>9
  <2>2. \A i \in 1 .. Len(s) : id[p + i] = s[i]
    BY <1>8 DEF IsID
  <2> HIDE DEF a, p, q
  <2>3. IsPart(id, a, q, s)
    BY <1>9, <2>1, <2>2, SubSeqIs
  <2> QED
    BY <1>11, <2>3 DEF IsPart, a, q
<1>13. Len(id) - Len(Last(Split(id))) - 2 = k
  BY <1>9, <1>12
<1>14. SubSeq(id, 1, k) = m
  <2>1. \A i \in 1 .. Len(m) : id[0 + i] = m[i]
    <3>1. \A i \in 1 .. k : id[i] = m[i] /\ 0 + i = i
      BY <1>8 DEF IsID
    <3> QED
      BY <1>2, <3>1
  <2>2. k <= Len(id) /\ k = 0 + Len(m) /\ 1 = 0 + 1
    BY <1>2, <1>9
  <2>3. IsPart(id, 1, k, m)
    BY <1>2, <1>9, <2>1, <2>2, SubSeqIs
  <2> QED
    BY <2>3 DEF IsPart
<1>15. HasIDParts(id) /\ SMName(id) = m
  BY <1>11, <1>13, <1>14 DEF HasIDParts, SMName
<1> QED
  BY <1>15 DEF id, m

\* An ID that fits and ends in a generated suffix is made of no other suffix.
LEMMA GeneratedIDsDiffer ==
    ASSUME NEW m \in String, NEW lib \in Libraries, NEW u \in UUID, Fits(m, u),
           NEW s \in lib.suffixes \cup UUID, WorkflowID(m, s) = WorkflowID(m, u)
    PROVE  s = u
<1> DEFINE k == Len(m)
           id == WorkflowID(m, u)
           full == m \o Dashes \o s
<1>1. s \in String /\ u \in String /\ Len(s) \in Nat /\ Len(u) \in Nat /\ k \in Nat
  BY EmbeddedManagerAssumption DEF String
<1>k. k = Len(m)
  OBVIOUS
<1> HIDE DEF k
<1>2. IsID(id, m, k, u)
  BY <1>1, <1>k, FittingID
<1>3. IDFacts(id, m, s)
  <2>1. IDFacts(WorkflowID(m, s), m, s)
    BY <1>1, IDIsCut
  <2> QED
    BY <2>1
<1>4. IsID(full, m, k, s)
  BY <1>1, <1>k, IDParts
<1> HIDE DEF id
<1>5. Len(u) <= Len(s)
  <2>1. Len(id) = k + 2 + Len(u) /\ MaxLength \in Nat
    BY <1>2, NamingAssumption DEF IsID
  <2>2. Len(id) <= MaxLength /\ Len(id) = (IF Fits(m, s) THEN k + 2 + Len(s) ELSE MaxLength)
    BY <1>3, <1>k DEF IDFacts
  <2>3. CASE Fits(m, s)
    BY <1>1, <2>1, <2>2, <2>3
  <2>4. CASE ~Fits(m, s)
    <3>1. ~(k + 2 + Len(s) <= MaxLength)
      BY <1>k, <2>4 DEF Fits
    <3>2. k + 2 + Len(u) = MaxLength
      BY <2>1, <2>2, <2>4
    <3> QED
      BY <1>1, <2>1, <3>1, <3>2
  <2> QED
    BY <2>3, <2>4
<1>6. ASSUME NEW i \in 1 .. Len(u) PROVE u[i] = s[i]
  <2>1. id[k + 2 + i] = u[i] /\ Len(id) = k + 2 + Len(u)
    BY <1>2 DEF IsID
  <2>2. i \in 1 .. Len(s) /\ k + 2 + i \in 1 .. Len(id)
    BY <1>1, <1>5, <2>1
  <2>3. id[k + 2 + i] = full[k + 2 + i]
    BY <1>3, <2>2 DEF IDFacts
  <2>4. full[k + 2 + i] = s[i]
    BY <1>4, <2>2 DEF IsID
  <2> QED
    BY <2>1, <2>3, <2>4
<1>7. IsPrefix(u, s)
  <2>1. SubSeq(s, 1, Len(u)) = u
    <3> DEFINE q == Len(u)
    <3>1. q = 0 + Len(u) /\ 1 = 0 + 1 /\ q \in Nat /\ q <= Len(s)
      BY <1>1, <1>5
    <3>2. \A i \in 1 .. Len(u) : s[0 + i] = u[i]
      <4>1. \A i \in 1 .. Len(u) : 0 + i = i
        BY <1>1
      <4> QED
        BY <1>6, <4>1
    <3> HIDE DEF q
    <3>3. IsPart(s, 1, q, u)
      BY <1>1, <3>1, <3>2, SubSeqIs
    <3> QED
      BY <3>3 DEF IsPart, q
  <2>2. SubSeq(u, 1, Len(u)) = u
    BY <1>1 DEF String
  <2> QED
    BY <1>5, <2>1, <2>2 DEF IsPrefix
<1>8. s \in UUID
  BY <1>7, EmbeddedManagerAssumption
<1>9. Len(s) = Len(u)
  BY <1>8, EmbeddedManagerAssumption
<1> QED
  BY <1>1, <1>6, <1>9 DEF String
-----------------------------------------------------------------------------
(***************************************************************************)
(* What a process finds under a name.                                      *)
(***************************************************************************)
LEMMA MinIsIn ==
    ASSUME NEW S, S \subseteq Nat, S # {}
    PROVE  Min(S) \in S
<1> DEFINE R == OpToRel(<, Nat)
<1>1. IsWellFoundedOn(R, Nat)
  BY NatLessThanWellFounded
<1>2. \A x \in Nat, y \in Nat : <<y, x>> \in R <=> y < x
  BY DEF OpToRel
<1> HIDE DEF R
<1>3. PICK x \in S : \A y \in S : ~(<<y, x>> \in R)
  BY <1>1, WFMin
<1>4. \A y \in S : x <= y
  <2> TAKE y \in S
  <2>1. x \in Nat /\ y \in Nat /\ ~(<<y, x>> \in R)
    BY <1>3
  <2>2. ~(y < x)
    BY <1>2, <2>1
  <2> QED
    BY <2>1, <2>2
<1>5. \E z \in S : \A y \in S : z <= y
  BY <1>4
<1> QED
  BY <1>5 DEF Min

\* What is found has the name.
LEMMA FirstIsNamed ==
    ASSUME TypeOK, NEW p \in Process, NEW name, Named(p, name) # {}
    PROVE  /\ Min(Named(p, name)) \in Named(p, name)
           /\ Min(Named(p, name)) \in DOMAIN defs[p]
           /\ GetWorkflowDefinitionByNameAndVersion(p, name) \in library.offers
           /\ GetWorkflowDefinitionByNameAndVersion(p, name).name = name
           /\ Valid(GetWorkflowDefinitionByNameAndVersion(p, name))
<1>1. defs[p] \in Seq(library.offers) /\ \A i \in DOMAIN defs[p] : Valid(defs[p][i])
  BY DEF TypeOK
<1>2. Named(p, name) \subseteq DOMAIN defs[p] /\ DOMAIN defs[p] \subseteq Nat
  BY <1>1 DEF Named
<1> DEFINE i == Min(Named(p, name))
<1>3. i \in Named(p, name)
  <2>1. Named(p, name) \subseteq Nat
    BY <1>2
  <2> QED
    BY <2>1, MinIsIn
<1> HIDE DEF i
<1>4. i \in DOMAIN defs[p] /\ defs[p][i].name = name
  BY <1>3 DEF Named
<1>5. defs[p][i] \in library.offers /\ Valid(defs[p][i])
  BY <1>1, <1>4
<1> QED
  BY <1>3, <1>4, <1>5 DEF i, GetWorkflowDefinitionByNameAndVersion

\* What the library offers.
LEMMA OfferFacts ==
    ASSUME TypeOK, NEW d \in library.offers
    PROVE  /\ d \in Definition /\ Machine(d) \in String
           /\ Valid(d) => d.states \in {"x", "y"}
<1>1. d \in Definition
  BY EmbeddedManagerAssumption DEF TypeOK
<1>2. Machine(d) \in String
  BY <1>1, HasLayout DEF IsLayout
<1>3. Valid(d) => d.states \in {"x", "y"}
  BY <1>1 DEF Valid, Definition
<1> QED
  BY <1>1, <1>2, <1>3

\* What callers choose and what is generated.
LEMMA SuffixFacts ==
    ASSUME TypeOK
    PROVE  /\ library.suffixes \subseteq String \ {Empty} /\ UUID \subseteq String \ {Empty}
           /\ library.suffixes \cap UUID = {}
<1>1. library.suffixes \subseteq String \ {Empty} /\ UUID \subseteq String \ {Empty}
  BY EmbeddedManagerAssumption DEF TypeOK
<1>2. ASSUME NEW u \in UUID, u \in library.suffixes PROVE FALSE
  <2>1. ~IsPrefix(u, u)
    BY <1>2, EmbeddedManagerAssumption DEF TypeOK
  <2>2. Len(u) \in Nat
    BY <1>1 DEF String
  <2> QED
    BY <2>1, <2>2 DEF IsPrefix
<1> QED
  BY <1>1, <1>2

\* Definitions that are not changed are found as before.
LEMMA DefinesStays ==
    ASSUME UNCHANGED defs
    PROVE  \A p \in Process : \A d : Defines(p, d) => Defines(p, d)'
BY DEF Defines, Named, GetWorkflowDefinitionByNameAndVersion

\* Whether a state machine can change is a matter of the library.
LEMMA FrozenStays ==
    ASSUME UNCHANGED library
    PROVE  \A m : Frozen(m)' <=> Frozen(m)
BY DEF Frozen
-----------------------------------------------------------------------------
(***************************************************************************)
(* Inv is an inductive invariant.                                          *)
(***************************************************************************)
LEMMA InitInv == Init => Inv
<1> SUFFICES ASSUME Init PROVE Inv
  OBVIOUS
<1>1. library \in Libraries /\ MaxDefs \in Nat
  BY EmbeddedManagerAssumption DEF Init
<1>2. library.yaml \subseteq Seq(library.offers) /\ \A ds \in library.yaml : Len(ds) <= MaxDefs
  BY <1>1, EmbeddedManagerAssumption
<1>3. \A p \in Process : defs[p] \in library.yaml /\ \A i \in DOMAIN defs[p] : Valid(defs[p][i])
  BY DEF Init
<1>4. defs \in [Process -> Seq(library.offers)]
  BY <1>2 DEF Init
<1>5. TypeOK
  BY <1>1, <1>2, <1>3, <1>4, FS_EmptySet DEF Init, TypeOK
<1>6. \A p \in Process : StartRight(p)
  BY DEF Init, StartRight, NoStart
<1>7. (\A e \in executions : ExecutionRight(e)) /\ (\A t \in told : ToldRight(t))
  BY DEF Init
<1> QED
  BY <1>5, <1>6, <1>7 DEF Inv

\* A definition that was found is found after another one was added or replaced.
LEMMA DefinesKept ==
    ASSUME TypeOK, NEW p \in Process, NewWorkflowDefinition(p),
           NEW q \in Process, NEW d, Defines(q, d)
    PROVE  Defines(q, d)'
<1>1. PICK f \in library.offers :
         /\ Valid(f)
         /\ IF Named(p, f.name) = {}
            THEN defs' = [defs EXCEPT ![p] = Append(@, f)]
            ELSE LET i == Min(Named(p, f.name)) IN
                 defs[p][i].version = -1 /\ defs' = [defs EXCEPT ![p][i] = f]
  BY DEF NewWorkflowDefinition
<1>2. defs \in [Process -> Seq(library.offers)] /\ defs[p] \in Seq(library.offers)
  BY DEF TypeOK
<1>3. CASE q # p
  <2>1. defs'[q] = defs[q]
    BY <1>1, <1>2, <1>3
  <2> QED
    BY <2>1 DEF Defines, Named, GetWorkflowDefinitionByNameAndVersion
<1>4. CASE q = p /\ Named(p, f.name) = {}
  <2>1. d.name # f.name
    BY <1>4 DEF Defines
  <2>2. defs'[p] = Append(defs[p], f)
    BY <1>1, <1>2, <1>4
  <2>3. /\ DOMAIN defs'[p] = DOMAIN defs[p] \cup {Len(defs[p]) + 1}
        /\ \A i \in DOMAIN defs[p] : defs'[p][i] = defs[p][i]
        /\ defs'[p][Len(defs[p]) + 1] = f
    BY <1>2, <2>2
  <2>4. Named(p, d.name)' = Named(p, d.name)
    BY <2>1, <2>3 DEF Named
  <2>5. GetWorkflowDefinitionByNameAndVersion(p, d.name)' = GetWorkflowDefinitionByNameAndVersion(p, d.name)
    <3>1. Min(Named(p, d.name)) \in DOMAIN defs[p]
      BY <1>4, FirstIsNamed DEF Defines
    <3> QED
      BY <2>3, <2>4, <3>1 DEF GetWorkflowDefinitionByNameAndVersion
  <2> QED
    BY <1>4, <2>4, <2>5 DEF Defines
<1>5. CASE q = p /\ Named(p, f.name) # {}
  <2> DEFINE i == Min(Named(p, f.name))
  <2>1. i \in Named(p, f.name) /\ i \in DOMAIN defs[p]
    BY <1>5, FirstIsNamed
  <2>2. defs[p][i].version = -1 /\ defs[p][i].name = f.name
        /\ defs' = [defs EXCEPT ![p][i] = f]
    BY <1>1, <1>5, <2>1 DEF Named
  <2>3. defs[p][i] = GetWorkflowDefinitionByNameAndVersion(p, f.name)
    BY DEF GetWorkflowDefinitionByNameAndVersion
  <2> HIDE DEF i
  <2>4. /\ DOMAIN defs'[p] = DOMAIN defs[p] /\ defs'[p][i] = f
        /\ \A h \in DOMAIN defs[p] : h # i => defs'[p][h] = defs[p][h]
    BY <1>2, <2>1, <2>2
  <2>5. Named(p, d.name)' = Named(p, d.name)
    BY <2>1, <2>2, <2>4 DEF Named
  <2>6. ASSUME d.version # -1
        PROVE  GetWorkflowDefinitionByNameAndVersion(p, d.name)' = d
    <3> DEFINE h == Min(Named(p, d.name))
    <3>1. h \in DOMAIN defs[p] /\ defs[p][h] = d
      BY <1>5, <2>6, FirstIsNamed DEF Defines, GetWorkflowDefinitionByNameAndVersion
    <3> HIDE DEF h
    <3>2. h # i
      BY <2>2, <2>6, <3>1
    <3>3. defs'[p][h] = d
      BY <2>4, <3>1, <3>2
    <3> QED
      BY <2>5, <3>3 DEF h, GetWorkflowDefinitionByNameAndVersion
  <2> QED
    BY <1>5, <2>5, <2>6 DEF Defines
<1> QED
  BY <1>3, <1>4, <1>5

\* s is r with f at place i.
IsReplaced(s, r, i, f) == s = [r EXCEPT ![i] = f]

\* A list with one element replaced is a list of the same length.
LEMMA Replaced ==
    ASSUME NEW S, NEW r \in Seq(S), NEW i \in DOMAIN r, NEW f \in S,
           NEW s, IsReplaced(s, r, i, f)
    PROVE  s \in Seq(S) /\ Len(s) = Len(r)
<1>1. DOMAIN r = 1 .. Len(r) /\ Len(r) \in Nat
  OBVIOUS
<1>2. s = [h \in 1 .. Len(r) |-> IF h = i THEN f ELSE r[h]]
  BY <1>1 DEF IsReplaced
<1>3. \A h \in 1 .. Len(r) : (IF h = i THEN f ELSE r[h]) \in S
  OBVIOUS
<1> QED
  BY <1>1, <1>2, <1>3

\* NewWorkflowDefinition: what was found before is found still.
LEMMA NewWorkflowDefinitionStep ==
    ASSUME Inv, NEW p \in Process, NewWorkflowDefinition(p)
    PROVE  Inv'
<1>0. TypeOK
  BY DEF Inv
<1>1. UNCHANGED <<library, start, unused, machines, executions, told>>
  BY DEF NewWorkflowDefinition
<1>2. TypeOK'
  <2>1. PICK f \in library.offers :
           /\ Valid(f)
           /\ IF Named(p, f.name) = {}
              THEN Len(defs[p]) < MaxDefs /\ defs' = [defs EXCEPT ![p] = Append(@, f)]
              ELSE defs' = [defs EXCEPT ![p][Min(Named(p, f.name))] = f]
    BY DEF NewWorkflowDefinition
  <2>2. /\ defs \in [Process -> Seq(library.offers)] /\ MaxDefs \in Nat
        /\ \A q \in Process : Len(defs[q]) <= MaxDefs /\ \A i \in DOMAIN defs[q] : Valid(defs[q][i])
    BY <1>0, EmbeddedManagerAssumption DEF TypeOK
  <2>3. PICK s \in Seq(library.offers) :
           /\ defs' = [defs EXCEPT ![p] = s] /\ Len(s) <= MaxDefs
           /\ \A i \in DOMAIN s : Valid(s[i])
    <3>1. CASE Named(p, f.name) = {}
      <4> DEFINE s == Append(defs[p], f)
      <4>1. s \in Seq(library.offers) /\ Len(s) <= MaxDefs /\ defs' = [defs EXCEPT ![p] = s]
        BY <2>1, <2>2, <3>1
      <4>2. \A i \in DOMAIN s : Valid(s[i])
        <5> TAKE i \in DOMAIN s
        <5>1. CASE i = Len(defs[p]) + 1
          BY <2>1, <2>2, <5>1
        <5>2. CASE i # Len(defs[p]) + 1
          BY <2>2, <5>2
        <5> QED
          BY <5>1, <5>2
      <4> QED
        BY <4>1, <4>2
    <3>2. CASE Named(p, f.name) # {}
      <4> DEFINE i == Min(Named(p, f.name))
                 s == [defs[p] EXCEPT ![i] = f]
      <4>1. i \in DOMAIN defs[p]
        BY <1>0, <3>2, FirstIsNamed
      <4>2. defs' = [defs EXCEPT ![p] = s]
        BY <2>1, <2>2, <3>2
      <4> HIDE DEF i
      <4>3. DOMAIN s = DOMAIN defs[p] /\ \A h \in DOMAIN s : s[h] = f \/ s[h] = defs[p][h]
        BY <4>1
      <4>4. s \in Seq(library.offers) /\ Len(s) = Len(defs[p])
        <5> DEFINE r == defs[p]
        <5>1. r \in Seq(library.offers) /\ i \in DOMAIN r /\ f \in library.offers
              /\ s = [r EXCEPT ![i] = f]
          BY <2>2, <4>1
        <5> HIDE DEF r, s
        <5>2. IsReplaced(s, r, i, f)
          BY <5>1 DEF IsReplaced
        <5>3. s \in Seq(library.offers) /\ Len(s) = Len(r)
          BY <5>1, <5>2, Replaced
        <5> QED
          BY <5>3 DEF r
      <4> HIDE DEF s
      <4>5. \A h \in DOMAIN s : Valid(s[h])
        BY <2>1, <2>2, <4>3
      <4>6. Len(s) <= MaxDefs
        BY <2>2, <4>4
      <4> QED
        BY <4>2, <4>4, <4>5, <4>6
    <3> QED
      BY <3>1, <3>2
  <2>4. /\ defs' \in [Process -> Seq(library.offers)]
        /\ \A q \in Process : /\ Len(defs'[q]) <= MaxDefs
                              /\ \A i \in DOMAIN defs'[q] : Valid(defs'[q][i])
    BY <2>2, <2>3
  <2> QED
    BY <1>0, <1>1, <2>4 DEF TypeOK
<1>3. \A q \in Process : \A d : Defines(q, d) => Defines(q, d)'
  BY <1>0, DefinesKept
<1>4. \A m : Frozen(m)' <=> Frozen(m)
  BY <1>1, FrozenStays
<1>5. \A q \in Process : StartRight(q)'
  BY <1>1, <1>3, <1>4 DEF Inv, StartRight
<1>6. \A e \in executions' : ExecutionRight(e)'
  BY <1>1, <1>4 DEF Inv, ExecutionRight
<1>7. \A t \in told' : ToldRight(t)'
  <2>1. \A t \in told : t.by \in Process
    BY <1>0 DEF TypeOK
  <2> QED
    BY <1>1, <1>3, <1>4, <2>1 DEF Inv, ToldRight
<1> QED
  BY <1>2, <1>5, <1>6, <1>7 DEF Inv

\* StartRight for a process that is at step s.
AtStep(p, s) ==
    LET m == Machine(s.def) IN
    s.pc # "idle" =>
        /\ Defines(p, s.def)
        /\ s.pc # "create" => m \in DOMAIN machines
        /\ s.pc = "update" => s.def.version = -1
        /\ s.pc \in {"tag", "execute"} => \/ machines[m] = s.def.states
                                          \/ s.overtaken /\ ~Frozen(m)

Begun == [pc : {"create", "update", "tag", "execute"}, def : library.offers,
          suffix : library.suffixes \cup {Empty}, overtaken : BOOLEAN]

\* What is known of a process that executes StartWorkflow.
LEMMA BegunFacts ==
    ASSUME Inv, NEW p \in Process, start[p].pc # "idle"
    PROVE  /\ start[p] \in Begun /\ AtStep(p, start[p])
           /\ start[p].def \in library.offers /\ Valid(start[p].def)
           /\ Machine(start[p].def) \in String /\ start[p].def.states \in {"x", "y"}
<1>1. TypeOK /\ StartRight(p)
  BY DEF Inv
<1>2. start[p] \in Begun
  BY <1>1 DEF TypeOK, Begun, NoStart
<1>3. AtStep(p, start[p])
  BY <1>1 DEF StartRight, AtStep
<1>4. start[p].def \in library.offers /\ Valid(start[p].def)
  BY <1>2, <1>3 DEF AtStep, Begun, Defines
<1> QED
  BY <1>1, <1>2, <1>3, <1>4, OfferFacts

\* A step that moves one process on and changes nothing else.
LEMMA OnlyStart ==
    ASSUME Inv, NEW p \in Process, UNCHANGED <<library, defs, unused, machines, executions, told>>,
           NEW s \in {NoStart} \cup Begun, AtStep(p, s), start' = [start EXCEPT ![p] = s]
    PROVE  Inv'
<1>0. TypeOK
  BY DEF Inv
<1>1. TypeOK'
  <2>1. start \in [Process -> {NoStart} \cup Begun]
    BY <1>0 DEF TypeOK, Begun
  <2>2. start' \in [Process -> {NoStart} \cup Begun]
    BY <2>1
  <2> QED
    BY <1>0, <2>2 DEF TypeOK, Begun
<1>2. \A q \in Process : \A d : Defines(q, d) => Defines(q, d)'
  BY DefinesStays
<1>3. \A m : Frozen(m)' <=> Frozen(m)
  BY FrozenStays
<1>4. ASSUME NEW q \in Process PROVE StartRight(q)'
  <2> DEFINE r == start'[q]
  <2>1. AtStep(q, r)
    <3>1. CASE q = p
      <4>1. r = s
        BY <1>0, <3>1 DEF TypeOK
      <4> QED
        BY <3>1, <4>1
    <3>2. CASE q # p
      <4>1. r = start[q]
        BY <1>0, <3>2 DEF TypeOK
      <4>2. StartRight(q)
        BY DEF Inv
      <4> QED
        BY <4>1, <4>2 DEF StartRight, AtStep
    <3> QED
      BY <3>1, <3>2
  <2> QED
    BY <1>2, <1>3, <2>1 DEF StartRight, AtStep
<1>5. \A e \in executions' : ExecutionRight(e)'
  BY <1>3 DEF Inv, ExecutionRight
<1>6. \A t \in told' : ToldRight(t)'
  <2>1. \A t \in told : t.by \in Process
    BY <1>0 DEF TypeOK
  <2> QED
    BY <1>2, <1>3, <2>1 DEF Inv, ToldRight
<1> QED
  BY <1>1, <1>4, <1>5, <1>6 DEF Inv

\* StartWorkflow begins with the definition it finds, and compares.
LEMMA StartWorkflowStep ==
    ASSUME Inv, NEW p \in Process, StartWorkflow(p)
    PROVE  Inv'
<1>0. TypeOK
  BY DEF Inv
<1>1. PICK i \in DOMAIN defs[p], suffix \in library.suffixes \cup {Empty} :
         LET d == GetWorkflowDefinitionByNameAndVersion(p, defs[p][i].name)
             exists == Machine(d) \in DOMAIN machines
         IN  /\ exists /\ d.version # -1 => machines[Machine(d)] = d.states
             /\ start' = [start EXCEPT ![p] =
                    [pc |-> IF ~exists THEN "create"
                            ELSE IF d.version = -1 THEN "update" ELSE "execute",
                     def |-> d, suffix |-> suffix, overtaken |-> FALSE]]
  BY DEF StartWorkflow
<1> DEFINE d == GetWorkflowDefinitionByNameAndVersion(p, defs[p][i].name)
           exists == Machine(d) \in DOMAIN machines
           pc == IF ~exists THEN "create" ELSE IF d.version = -1 THEN "update" ELSE "execute"
           s == [pc |-> pc, def |-> d, suffix |-> suffix, overtaken |-> FALSE]
<1>2. i \in Named(p, defs[p][i].name)
  BY DEF Named
<1>3. d \in library.offers /\ d.name = defs[p][i].name /\ Valid(d)
  BY <1>0, <1>2, FirstIsNamed
<1>4. Named(p, d.name) # {} /\ GetWorkflowDefinitionByNameAndVersion(p, d.name) = d
  BY <1>2, <1>3
<1>5. exists /\ d.version # -1 => machines[Machine(d)] = d.states
  BY <1>1
<1>6. start' = [start EXCEPT ![p] = s]
  BY <1>1
<1> HIDE DEF d
<1>7. Defines(p, d)
  BY <1>3, <1>4 DEF Defines
<1>8. s \in Begun
  BY <1>3 DEF Begun
<1>9. AtStep(p, s)
  BY <1>5, <1>7 DEF AtStep
<1>10. UNCHANGED <<library, defs, unused, machines, executions, told>>
  BY DEF StartWorkflow
<1> HIDE DEF s
<1> QED
  BY <1>6, <1>8, <1>9, <1>10, OnlyStart

\* A start that fails leaves nothing to be known.
LEMMA StartFailsStep ==
    ASSUME Inv, NEW p \in Process, StartFails(p)
    PROVE  Inv'
<1>1. AtStep(p, NoStart)
  BY DEF AtStep, NoStart
<1>2. /\ start' = [start EXCEPT ![p] = NoStart]
      /\ UNCHANGED <<library, defs, unused, machines, executions, told>>
  BY DEF StartFails
<1> QED
  BY <1>1, <1>2, OnlyStart

\* TagResource changes no state machine.
LEMMA TagResourceStep ==
    ASSUME Inv, NEW p \in Process, TagResource(p)
    PROVE  Inv'
<1> DEFINE s == [start[p] EXCEPT !.pc = "execute"]
<1>1. start[p].pc = "tag" /\ start[p] \in Begun /\ AtStep(p, start[p])
  BY BegunFacts DEF TagResource
<1>2. s \in Begun /\ s.pc = "execute" /\ s.def = start[p].def /\ s.overtaken = start[p].overtaken
  BY <1>1 DEF Begun
<1>3. start' = [start EXCEPT ![p] = s]
  BY DEF TagResource
<1> HIDE DEF s
<1>4. AtStep(p, s)
  BY <1>1, <1>2 DEF AtStep
<1>5. UNCHANGED <<library, defs, unused, machines, executions, told>>
  BY DEF TagResource
<1> QED
  BY <1>2, <1>3, <1>4, <1>5, OnlyStart

\* A step on the state machine m: nothing else of SFN changes.
LEMMA MachineStep ==
    ASSUME Inv, UNCHANGED <<library, defs, unused, executions, told>>, NEW m,
           m \in DOMAIN machines => ~Frozen(m),
           DOMAIN machines' = DOMAIN machines \cup {m},
           \A n \in DOMAIN machines : n # m => machines'[n] = machines[n],
           machines' \in [DOMAIN machines' -> {"x", "y"}],
           start' \in [Process -> {NoStart} \cup Begun],
           \A q \in Process : StartRight(q)'
    PROVE  Inv'
<1>0. TypeOK
  BY DEF Inv
<1>1. TypeOK'
  <2>1. executions \subseteq [machine : DOMAIN machines', id : String, states : {"x", "y"},
                             status : {"running", "ended"}, startDate : Nat]
    BY <1>0 DEF TypeOK
  <2> QED
    BY <1>0, <2>1 DEF TypeOK, Begun
<1>2. \A q \in Process : \A d : Defines(q, d) => Defines(q, d)'
  BY DefinesStays
<1>3. \A n : Frozen(n)' <=> Frozen(n)
  BY FrozenStays
<1>4. \A e \in executions : e.machine \in DOMAIN machines
  BY <1>0 DEF TypeOK
<1>5. \A n \in DOMAIN machines : Frozen(n) => machines'[n] = machines[n]
  OBVIOUS
<1>6. \A e \in executions' : ExecutionRight(e)'
  BY <1>3, <1>4, <1>5 DEF Inv, ExecutionRight
<1>7. ASSUME NEW t \in told' PROVE ToldRight(t)'
  <2>1. t \in told /\ t.by \in Process /\ ToldRight(t)
    BY <1>0 DEF TypeOK, Inv
  <2>2. Machine(t.def) \in DOMAIN machines
    BY <1>4, <2>1 DEF ToldRight
  <2>3. Defines(t.by, t.def)'
    BY <1>2, <2>1 DEF ToldRight
  <2>4. Frozen(Machine(t.def))' => machines'[Machine(t.def)] = t.def.states
    BY <1>3, <1>5, <2>1, <2>2 DEF ToldRight
  <2> QED
    BY <2>1, <2>3, <2>4 DEF ToldRight
<1> QED
  BY <1>1, <1>6, <1>7 DEF Inv

\* CreateStateMachine: the state machine is new, or is as it should be.
LEMMA CreateStateMachineStep ==
    ASSUME Inv, NEW p \in Process, CreateStateMachine(p)
    PROVE  Inv'
<1> DEFINE d == start[p].def
           m == Machine(d)
           s == [start[p] EXCEPT !.pc = "execute"]
<1>0. TypeOK
  BY DEF Inv
<1>1. /\ start[p].pc = "create" /\ start[p] \in Begun /\ AtStep(p, start[p])
      /\ d \in library.offers /\ d.states \in {"x", "y"}
  BY BegunFacts DEF CreateStateMachine
<1>2. s \in Begun /\ s.pc = "execute" /\ s.def = d
  BY <1>1 DEF Begun
<1>3. Defines(p, d)
  BY <1>1 DEF AtStep
<1>4. UNCHANGED <<library, defs, unused, executions, told>>
  BY DEF CreateStateMachine
<1>5. CASE m \in DOMAIN machines /\ machines[m] = d.states
  <2>1. UNCHANGED machines /\ start' = [start EXCEPT ![p] = s]
    BY <1>5 DEF CreateStateMachine
  <2> HIDE DEF s
  <2>2. AtStep(p, s)
    BY <1>2, <1>3, <1>5 DEF AtStep
  <2> QED
    BY <1>2, <1>4, <2>1, <2>2, OnlyStart
<1>6. CASE m \in DOMAIN machines /\ machines[m] # d.states
  <2>1. UNCHANGED machines /\ start' = [start EXCEPT ![p] = NoStart]
    BY <1>6 DEF CreateStateMachine
  <2>2. AtStep(p, NoStart)
    BY DEF AtStep, NoStart
  <2> QED
    BY <1>4, <2>1, <2>2, OnlyStart
<1>7. CASE m \notin DOMAIN machines
  <2>1. /\ machines' = [n \in DOMAIN machines \cup {m} |-> IF n = m THEN d.states ELSE machines[n]]
        /\ start' = [start EXCEPT ![p] = s]
    BY <1>7 DEF CreateStateMachine
  <2> HIDE DEF s
  <2>2. /\ DOMAIN machines' = DOMAIN machines \cup {m} /\ machines'[m] = d.states
        /\ \A n \in DOMAIN machines : machines'[n] = machines[n]
    BY <1>7, <2>1
  <2>3. machines' \in [DOMAIN machines' -> {"x", "y"}]
    BY <1>0, <1>1, <2>1 DEF TypeOK
  <2>4. start \in [Process -> {NoStart} \cup Begun]
    BY <1>0 DEF TypeOK, Begun
  <2>5. start' \in [Process -> {NoStart} \cup Begun]
    BY <1>2, <2>1, <2>4
  <2>6. \A q \in Process : \A f : Defines(q, f) => Defines(q, f)'
    BY <1>4, DefinesStays
  <2>7. \A n : Frozen(n)' <=> Frozen(n)
    BY <1>4, FrozenStays
  <2>8. ASSUME NEW q \in Process PROVE StartRight(q)'
    <3>1. CASE q = p
      <4>1. start'[q] = s
        BY <2>1, <2>4, <3>1
      <4>2. PICK f \in library.offers : f = d
        BY <1>1
      <4>3. Defines(q, f)'
        BY <1>3, <2>6, <3>1, <4>2
      <4>4. start'[q].def = f /\ start'[q].pc = "execute"
        BY <1>2, <4>1, <4>2
      <4>5. Machine(f) \in DOMAIN machines' /\ machines'[Machine(f)] = f.states
        BY <2>2, <4>2
      <4> QED
        BY <4>3, <4>4, <4>5 DEF StartRight
    <3>2. CASE q # p
      <4>1. start'[q] = start[q] /\ StartRight(q)
        BY <2>1, <2>4, <3>2 DEF Inv
      <4>2. CASE start[q].pc # "idle"
        <5>1. Defines(q, start[q].def)'
          BY <2>6, <4>1, <4>2 DEF StartRight
        <5>2. start[q].pc # "create" => /\ Machine(start[q].def) \in DOMAIN machines
                                        /\ Machine(start[q].def) \in DOMAIN machines'
                                        /\ machines'[Machine(start[q].def)] = machines[Machine(start[q].def)]
          BY <2>2, <4>1, <4>2 DEF StartRight
        <5> QED
          BY <2>7, <4>1, <4>2, <5>1, <5>2 DEF StartRight
      <4>3. CASE start[q].pc = "idle"
        BY <4>1, <4>3 DEF StartRight
      <4> QED
        BY <4>2, <4>3
    <3> QED
      BY <3>1, <3>2
  <2> HIDE DEF m, d
  <2> QED
    BY <1>4, <1>7, <2>2, <2>3, <2>5, <2>8, MachineStep
<1> QED
  BY <1>5, <1>6, <1>7

\* UpdateStateMachine: whoever had been about to run this one is overtaken.
LEMMA UpdateStateMachineStep ==
    ASSUME Inv, NEW p \in Process, UpdateStateMachine(p)
    PROVE  Inv'
<1>0. TypeOK
  BY DEF Inv
<1>1. /\ start[p].pc = "update" /\ start[p] \in Begun /\ AtStep(p, start[p])
      /\ start[p].def \in library.offers /\ Valid(start[p].def)
      /\ start[p].def.states \in {"x", "y"}
  BY BegunFacts DEF UpdateStateMachine
<1>2. PICK d \in library.offers : d = start[p].def
  BY <1>1
<1>3. PICK m : m = Machine(d)
  OBVIOUS
<1>4. UNCHANGED <<library, defs, unused, executions, told>>
  BY DEF UpdateStateMachine
<1>5. machines' = [machines EXCEPT ![m] = d.states] /\ start' = [Overtake(p, m) EXCEPT ![p].pc = "tag"]
  BY <1>2, <1>3 DEF UpdateStateMachine
<1>6. m \in DOMAIN machines /\ d.version = -1 /\ Valid(d) /\ Defines(p, d) /\ d.states \in {"x", "y"}
  BY <1>1, <1>2, <1>3 DEF AtStep
<1>7. ~Frozen(m)
  BY <1>3, <1>6 DEF Frozen
<1>8. /\ DOMAIN machines' = DOMAIN machines /\ machines'[m] = d.states
      /\ \A n \in DOMAIN machines : n # m => machines'[n] = machines[n]
  BY <1>5, <1>6
<1>9. machines' \in [DOMAIN machines' -> {"x", "y"}]
  <2>1. machines \in [DOMAIN machines -> {"x", "y"}]
    BY <1>0 DEF TypeOK
  <2> QED
    BY <1>5, <1>6, <1>8, <2>1
<1>10. start \in [Process -> {NoStart} \cup Begun]
  BY <1>0 DEF TypeOK, Begun
<1>11. start'[p] = [start[p] EXCEPT !.pc = "tag"]
  BY <1>5 DEF Overtake
<1>12. ASSUME NEW q \in Process, q # p
       PROVE  start'[q] = IF start[q].pc \in {"tag", "execute"} /\ Machine(start[q].def) = m
                          THEN [start[q] EXCEPT !.overtaken = TRUE] ELSE start[q]
  BY <1>5, <1>12 DEF Overtake
<1>13. start' \in [Process -> {NoStart} \cup Begun]
  <2>1. DOMAIN start' = Process /\ start' = [q \in Process |-> start'[q]]
    BY <1>5 DEF Overtake
  <2>2. start'[p] \in Begun
    BY <1>1, <1>11 DEF Begun
  <2>3. ASSUME NEW q \in Process, q # p PROVE start'[q] \in {NoStart} \cup Begun
    <3>1. CASE start[q].pc \in {"tag", "execute"} /\ Machine(start[q].def) = m
      <4>1. start[q] \in Begun
        BY <3>1, BegunFacts
      <4>2. [start[q] EXCEPT !.overtaken = TRUE] \in Begun
        BY <4>1 DEF Begun
      <4> QED
        BY <1>12, <2>3, <3>1, <4>2
    <3>2. CASE ~(start[q].pc \in {"tag", "execute"} /\ Machine(start[q].def) = m)
      BY <1>10, <1>12, <2>3, <3>2
    <3> QED
      BY <3>1, <3>2
  <2> QED
    BY <2>1, <2>2, <2>3
<1>14. \A q \in Process : \A f : Defines(q, f) => Defines(q, f)'
  BY <1>4, DefinesStays
<1>15. \A n : Frozen(n)' <=> Frozen(n)
  BY <1>4, FrozenStays
<1>16. ASSUME NEW q \in Process PROVE StartRight(q)'
  <2>1. CASE q = p
    <3>1. start'[q].pc = "tag" /\ start'[q].def = d
      BY <1>1, <1>2, <1>11, <2>1 DEF Begun
    <3>2. Defines(q, d)'
      BY <1>6, <1>14, <2>1
    <3> QED
      BY <1>3, <1>6, <1>8, <3>1, <3>2 DEF StartRight
  <2>2. CASE q # p /\ start[q].pc = "idle"
    <3>1. start'[q] = start[q]
      BY <1>12, <2>2
    <3> QED
      BY <2>2, <3>1 DEF StartRight
  <2>3. CASE q # p /\ start[q].pc # "idle"
    <3>1. start[q] \in Begun /\ AtStep(q, start[q])
      BY <2>3, BegunFacts
    <3>2. PICK f : f = start[q].def
      OBVIOUS
    <3>3. /\ Defines(q, f) /\ (start[q].pc # "create" => Machine(f) \in DOMAIN machines)
          /\ start[q].pc = "update" => f.version = -1
          /\ start[q].pc \in {"tag", "execute"} =>
                \/ machines[Machine(f)] = f.states
                \/ start[q].overtaken /\ ~Frozen(Machine(f))
      BY <2>3, <3>1, <3>2 DEF AtStep
    <3>4. Defines(q, f)'
      BY <1>14, <3>3
    <3>5. CASE start[q].pc \in {"tag", "execute"} /\ Machine(f) = m
      <4>1. start'[q] = [start[q] EXCEPT !.overtaken = TRUE]
        BY <1>12, <2>3, <3>2, <3>5
      <4>2. start'[q].pc = start[q].pc /\ start'[q].def = f /\ start'[q].overtaken = TRUE
        BY <3>1, <3>2, <4>1 DEF Begun
      <4> QED
        BY <1>6, <1>7, <1>8, <1>15, <3>4, <3>5, <4>2 DEF StartRight
    <3>6. CASE start[q].pc \in {"tag", "execute"} /\ Machine(f) # m
      <4>1. start'[q] = start[q]
        BY <1>12, <2>3, <3>2, <3>6
      <4>2. machines'[Machine(f)] = machines[Machine(f)] /\ Machine(f) \in DOMAIN machines'
        BY <1>8, <3>3, <3>6
      <4> QED
        BY <1>15, <3>2, <3>3, <3>4, <3>6, <4>1, <4>2 DEF StartRight
    <3>7. CASE start[q].pc \notin {"tag", "execute"}
      <4>1. start'[q] = start[q]
        BY <1>12, <2>3, <3>7
      <4> QED
        BY <1>8, <3>2, <3>3, <3>4, <3>7, <4>1 DEF StartRight
    <3> QED
      BY <3>5, <3>6, <3>7
  <2> QED
    BY <2>1, <2>2, <2>3
<1>17. DOMAIN machines' = DOMAIN machines \cup {m}
  BY <1>6, <1>8
<1> QED
  BY <1>4, <1>7, <1>8, <1>9, <1>13, <1>16, <1>17, MachineStep

\* A step that ends executions: their names, machines and states stay.
LEMMA ExecutionsStep ==
    ASSUME Inv, UNCHANGED <<library, defs, start, unused, machines, told>>,
           \A e \in executions' : \E f \in executions : \E s \in {"running", "ended"} :
               e = [f EXCEPT !.status = s],
           \A f \in executions : \E e \in executions' :
               e.machine = f.machine /\ e.id = f.id,
           IsFiniteSet(executions')
    PROVE  Inv'
<1>0. TypeOK
  BY DEF Inv
<1>1. ASSUME NEW e \in executions'
      PROVE  /\ e \in [machine : DOMAIN machines, id : String, states : {"x", "y"},
                       status : {"running", "ended"}, startDate : Nat]
             /\ \E f \in executions : e.machine = f.machine /\ e.id = f.id /\ e.states = f.states
  <2>1. PICK f \in executions : \E s \in {"running", "ended"} : e = [f EXCEPT !.status = s]
    OBVIOUS
  <2>2. PICK s \in {"running", "ended"} : e = [f EXCEPT !.status = s]
    BY <2>1
  <2>3. f \in [machine : DOMAIN machines, id : String, states : {"x", "y"},
               status : {"running", "ended"}, startDate : Nat]
    BY <1>0 DEF TypeOK
  <2>4. /\ e.machine = f.machine /\ e.id = f.id /\ e.states = f.states
        /\ e \in [machine : DOMAIN machines, id : String, states : {"x", "y"},
                  status : {"running", "ended"}, startDate : Nat]
    BY <2>2, <2>3
  <2> QED
    BY <2>4
<1>2. TypeOK'
  <2>1. \A e \in executions' : Len(e.id) <= MaxLength
    BY <1>0, <1>1 DEF TypeOK
  <2>2. executions' \subseteq [machine : DOMAIN machines, id : String, states : {"x", "y"},
                              status : {"running", "ended"}, startDate : Nat]
    BY <1>1
  <2> QED
    BY <1>0, <2>1, <2>2 DEF TypeOK
<1>3. \A q \in Process : \A d : Defines(q, d) => Defines(q, d)'
  BY DefinesStays
<1>4. \A n : Frozen(n)' <=> Frozen(n)
  BY FrozenStays
<1>5. \A q \in Process : StartRight(q)'
  BY <1>3, <1>4 DEF Inv, StartRight
<1>6. ASSUME NEW e \in executions' PROVE ExecutionRight(e)'
  <2>1. PICK f \in executions : e.machine = f.machine /\ e.id = f.id /\ e.states = f.states
    BY <1>1
  <2>2. ExecutionRight(f)
    BY DEF Inv
  <2> QED
    BY <1>4, <2>1, <2>2 DEF ExecutionRight
<1>7. ASSUME NEW t \in told' PROVE ToldRight(t)'
  <2>1. t \in told /\ t.by \in Process /\ ToldRight(t)
    BY <1>0 DEF TypeOK, Inv
  <2>2. Defines(t.by, t.def)'
    BY <1>3, <2>1 DEF ToldRight
  <2>3. \E e \in executions' : e.machine = Machine(t.def) /\ e.id = t.id
    BY <2>1 DEF ToldRight
  <2>4. ASSUME ~t.overtaken, t.suffix \in UUID, Fits(Machine(t.def), t.suffix),
               NEW e \in executions', e.machine = Machine(t.def), e.id = t.id
        PROVE  e.states = t.def.states
    <3>1. PICK f \in executions : e.machine = f.machine /\ e.id = f.id /\ e.states = f.states
      BY <1>1
    <3> QED
      BY <2>1, <2>4, <3>1 DEF ToldRight
  <2> QED
    BY <1>4, <2>1, <2>2, <2>3, <2>4 DEF ToldRight
<1> QED
  BY <1>2, <1>5, <1>6, <1>7 DEF Inv

\* CancelWorkflow ends an execution.
LEMMA CancelWorkflowStep ==
    ASSUME Inv, NEW p \in Process, CancelWorkflow(p)
    PROVE  Inv'
<1>0. executions \subseteq [machine : DOMAIN machines, id : String, states : {"x", "y"},
                            status : {"running", "ended"}, startDate : Nat]
  BY DEF Inv, TypeOK
<1>1. PICK t \in told :
         executions' = {IF e.machine = SMName(t.id) /\ e.id = t.id /\ e.status = "running"
                        THEN [e EXCEPT !.status = "ended"] ELSE e : e \in executions}
  BY DEF CancelWorkflow
<1> DEFINE After(e) == IF e.machine = SMName(t.id) /\ e.id = t.id /\ e.status = "running"
                       THEN [e EXCEPT !.status = "ended"] ELSE e
<1>2. ASSUME NEW e \in executions
      PROVE  /\ \E s \in {"running", "ended"} : After(e) = [e EXCEPT !.status = s]
             /\ After(e).machine = e.machine /\ After(e).id = e.id
  <2>1. e.status \in {"running", "ended"} /\ e = [e EXCEPT !.status = e.status]
    BY <1>0
  <2>2. CASE e.machine = SMName(t.id) /\ e.id = t.id /\ e.status = "running"
    <3>1. After(e) = [e EXCEPT !.status = "ended"]
      BY <2>2
    <3> QED
      BY <1>0, <3>1
  <2>3. CASE ~(e.machine = SMName(t.id) /\ e.id = t.id /\ e.status = "running")
    <3>1. After(e) = e
      BY <2>3
    <3> QED
      BY <2>1, <3>1
  <2> QED
    BY <2>2, <2>3
<1>3. executions' = {After(e) : e \in executions}
  BY <1>1
<1>4. UNCHANGED <<library, defs, start, unused, machines, told>>
  BY DEF CancelWorkflow
<1> HIDE DEF After
<1>5. \A e \in executions' : \E f \in executions : \E s \in {"running", "ended"} :
         e = [f EXCEPT !.status = s]
  BY <1>2, <1>3
<1>6. \A f \in executions : \E e \in executions' : e.machine = f.machine /\ e.id = f.id
  BY <1>2, <1>3
<1>7. IsFiniteSet(executions')
  <2>1. [e \in executions |-> After(e)] \in Surjection(executions, executions')
    BY <1>3 DEF Surjection
  <2>2. IsFiniteSet(executions)
    BY DEF Inv, TypeOK
  <2> QED
    BY <2>1, <2>2, FS_Surjection
<1> QED
  BY <1>4, <1>5, <1>6, <1>7, ExecutionsStep

\* An execution ends by itself.
LEMMA ExecutionEndsStep ==
    ASSUME Inv, ExecutionEnds
    PROVE  Inv'
<1>0. executions \subseteq [machine : DOMAIN machines, id : String, states : {"x", "y"},
                            status : {"running", "ended"}, startDate : Nat]
  BY DEF Inv, TypeOK
<1>1. PICK e \in executions :
         executions' = (executions \ {e}) \cup {[e EXCEPT !.status = "ended"]}
  BY DEF ExecutionEnds
<1>2. \A f \in executions : f.status \in {"running", "ended"} /\ f = [f EXCEPT !.status = f.status]
  BY <1>0
<1>3. [e EXCEPT !.status = "ended"].machine = e.machine /\ [e EXCEPT !.status = "ended"].id = e.id
  BY <1>0
<1>4. UNCHANGED <<library, defs, start, unused, machines, told>>
  BY DEF ExecutionEnds
<1>5. \A g \in executions' : \E f \in executions : \E s \in {"running", "ended"} :
         g = [f EXCEPT !.status = s]
  BY <1>1, <1>2
<1>6. \A f \in executions : \E g \in executions' : g.machine = f.machine /\ g.id = f.id
  BY <1>1, <1>3
<1>7. IsFiniteSet(executions')
  <2>1. IsFiniteSet(executions)
    BY DEF Inv, TypeOK
  <2>2. IsFiniteSet(executions \ {e})
    BY <2>1, FS_RemoveElement
  <2> QED
    BY <1>1, <2>2, FS_AddElement
<1> QED
  BY <1>4, <1>5, <1>6, <1>7, ExecutionsStep

\* StartExecution: a generated suffix makes an ID that no execution has.
LEMMA StartExecutionStep ==
    ASSUME Inv, NEW p \in Process, StartExecution(p)
    PROVE  Inv'
<1>0. TypeOK
  BY DEF Inv
<1>1. start[p].pc = "execute" /\ start[p] \in Begun /\ AtStep(p, start[p])
  BY BegunFacts DEF StartExecution
<1>2. PICK d \in library.offers : d = start[p].def
  BY <1>1 DEF Begun
<1>3. PICK m : m = Machine(d)
  OBVIOUS
<1>4. PICK suffix \in IF start[p].suffix = Empty THEN unused ELSE {start[p].suffix} :
         LET n == Machine(start[p].def)
             id == WorkflowID(n, suffix)
             same == {e \in executions : e.machine = n /\ e.id = id}
         IN  /\ unused' = unused \ {suffix}
             /\ executions' = IF same # {} THEN executions ELSE executions \cup
                    {[machine |-> n, id |-> id, states |-> machines[n],
                      status |-> "running", startDate |-> Cardinality(executions)]}
             /\ told' = told \cup
                    {[by |-> p, def |-> start[p].def, suffix |-> suffix, id |-> id,
                      overtaken |-> start[p].overtaken]}
  BY DEF StartExecution
<1>5. PICK id : id = WorkflowID(m, suffix)
  OBVIOUS
<1>6. PICK x : x = [machine |-> m, id |-> id, states |-> machines[m],
                    status |-> "running", startDate |-> Cardinality(executions)]
  OBVIOUS
<1>7. PICK t : t = [by |-> p, def |-> d, suffix |-> suffix, id |-> id,
                    overtaken |-> start[p].overtaken]
  OBVIOUS
<1>8. /\ unused' = unused \ {suffix} /\ told' = told \cup {t}
      /\ \/ executions' = executions /\ \E e \in executions : e.machine = m /\ e.id = id
         \/ executions' = executions \cup {x} /\ \A e \in executions : ~(e.machine = m /\ e.id = id)
  <2>1. unused' = unused \ {suffix}
    BY <1>4
  <2>2. told' = told \cup {t}
    BY <1>2, <1>3, <1>4, <1>5, <1>7
  <2>3. executions' = IF {e \in executions : e.machine = m /\ e.id = id} # {}
                      THEN executions ELSE executions \cup {x}
    BY <1>2, <1>3, <1>4, <1>5, <1>6
  <2> QED
    BY <2>1, <2>2, <2>3
<1>9. start' = [start EXCEPT ![p] = NoStart] /\ UNCHANGED <<library, defs, machines>>
  BY DEF StartExecution
<1>10. /\ Defines(p, d) /\ Valid(d) /\ m \in DOMAIN machines /\ m \in String
       /\ machines[m] \in {"x", "y"}
  <2>1. Defines(p, d) /\ Valid(d) /\ m \in DOMAIN machines
    BY <1>1, <1>2, <1>3 DEF AtStep, Defines
  <2>2. m \in String
    BY <1>0, <1>3, OfferFacts
  <2> QED
    BY <1>0, <2>1, <2>2 DEF TypeOK
<1>11. machines[m] = d.states \/ (start[p].overtaken /\ ~Frozen(m))
  BY <1>1, <1>2, <1>3 DEF AtStep
<1>12. /\ start[p].overtaken \in BOOLEAN
       /\ suffix \in library.suffixes \/ (suffix \in UUID /\ suffix \in unused)
  BY <1>0, <1>1, <1>4 DEF Begun, TypeOK
<1>13. suffix \in library.suffixes \cup UUID /\ suffix \in String
  BY <1>0, <1>12, SuffixFacts
<1>14. IDFacts(id, m, suffix)
  BY <1>5, <1>10, <1>13, IDIsCut
<1>15. id \in String /\ Len(id) <= MaxLength
  BY <1>14 DEF IDFacts
<1>16. /\ x \in [machine : DOMAIN machines, id : String, states : {"x", "y"},
                 status : {"running", "ended"}, startDate : Nat]
       /\ x.machine = m /\ x.id = id /\ x.states = machines[m]
  <2>1. Cardinality(executions) \in Nat
    BY <1>0, FS_CardinalityType DEF TypeOK
  <2> QED
    BY <1>6, <1>10, <1>15, <2>1
<1>17. /\ t \in [by : Process, def : library.offers, id : String,
                 suffix : library.suffixes \cup UUID, overtaken : BOOLEAN]
       /\ t.by = p /\ t.def = d /\ t.suffix = suffix /\ t.id = id
       /\ t.overtaken = start[p].overtaken
  BY <1>7, <1>12, <1>13, <1>15
<1>18. TypeOK'
  <2>1. start' \in [Process -> {NoStart} \cup Begun]
    <3>1. start \in [Process -> {NoStart} \cup Begun]
      BY <1>0 DEF TypeOK, Begun
    <3> QED
      BY <1>9, <3>1
  <2>2. /\ executions' \subseteq [machine : DOMAIN machines, id : String, states : {"x", "y"},
                                 status : {"running", "ended"}, startDate : Nat]
        /\ \A e \in executions' : Len(e.id) <= MaxLength
    BY <1>0, <1>8, <1>15, <1>16 DEF TypeOK
  <2>3. told' \subseteq [by : Process, def : library.offers, id : String,
                        suffix : library.suffixes \cup UUID, overtaken : BOOLEAN]
    BY <1>0, <1>8, <1>17 DEF TypeOK
  <2>4. unused' \subseteq UUID
    BY <1>0, <1>8 DEF TypeOK
  <2>5. IsFiniteSet(executions')
    <3>1. IsFiniteSet(executions)
      BY <1>0 DEF TypeOK
    <3>2. IsFiniteSet(executions \cup {x})
      BY <3>1, FS_AddElement
    <3> QED
      BY <1>8, <3>1, <3>2
  <2> QED
    BY <1>0, <1>9, <2>1, <2>2, <2>3, <2>4, <2>5 DEF TypeOK, Begun
<1>19. \A q \in Process : \A f : Defines(q, f) => Defines(q, f)'
  BY <1>9, DefinesStays
<1>20. \A n : Frozen(n)' <=> Frozen(n)
  BY <1>9, FrozenStays
<1>21. ASSUME NEW q \in Process PROVE StartRight(q)'
  <2>1. CASE q = p
    <3>1. start'[q] = NoStart
      BY <1>0, <1>9, <2>1 DEF TypeOK
    <3> QED
      BY <3>1 DEF StartRight, NoStart
  <2>2. CASE q # p
    <3>1. start'[q] = start[q] /\ StartRight(q)
      BY <1>0, <1>9, <2>2 DEF TypeOK, Inv
    <3> QED
      BY <1>9, <1>19, <1>20, <3>1 DEF StartRight
  <2> QED
    BY <2>1, <2>2
<1>22. ASSUME NEW e \in executions' PROVE ExecutionRight(e)'
  <2>1. CASE e \in executions
    <3>1. ExecutionRight(e)
      BY <2>1 DEF Inv
    <3> QED
      BY <1>8, <1>9, <1>20, <3>1 DEF ExecutionRight
  <2>2. CASE e = x
    <3>1. suffix \in (library.suffixes \cup UUID) \ unused'
      BY <1>8, <1>13
    <3> QED
      BY <1>5, <1>9, <1>16, <2>2, <3>1 DEF ExecutionRight
  <2> QED
    BY <1>8, <2>1, <2>2
<1>23. ASSUME NEW r \in told PROVE ToldRight(r)'
  <2>1. ToldRight(r) /\ r.by \in Process
    BY <1>0 DEF Inv, TypeOK
  <2>2. Defines(r.by, r.def)'
    BY <1>19, <2>1 DEF ToldRight
  <2>3. PICK f \in executions : f.machine = Machine(r.def) /\ f.id = r.id
    BY <2>1 DEF ToldRight
  <2>4. f \in executions'
    BY <1>8
  <2>5. ASSUME ~r.overtaken, r.suffix \in UUID, Fits(Machine(r.def), r.suffix),
               NEW e \in executions', e.machine = Machine(r.def), e.id = r.id
        PROVE  e.states = r.def.states
    <3>1. e \in executions
      BY <1>8, <1>16, <2>3, <2>5
    <3> QED
      BY <2>1, <2>5, <3>1 DEF ToldRight
  <2>6. r.id = WorkflowID(Machine(r.def), r.suffix) /\ r.suffix \notin unused'
    BY <1>8, <2>1 DEF ToldRight
  <2>7. Frozen(Machine(r.def))' => machines'[Machine(r.def)] = r.def.states
    BY <1>9, <1>20, <2>1 DEF ToldRight
  <2> QED
    BY <2>2, <2>3, <2>4, <2>5, <2>6, <2>7 DEF ToldRight
<1>24. ToldRight(t)'
  <2>1. Defines(t.by, t.def)'
    BY <1>10, <1>17, <1>19
  <2>2. t.id = WorkflowID(Machine(t.def), t.suffix) /\ t.suffix \notin unused'
    BY <1>3, <1>5, <1>8, <1>17
  <2>3. \E e \in executions' : e.machine = Machine(t.def) /\ e.id = t.id
    BY <1>3, <1>8, <1>16, <1>17
  <2>4. Frozen(Machine(t.def))' => machines'[Machine(t.def)] = t.def.states
    BY <1>3, <1>9, <1>11, <1>17, <1>20
  <2>5. ASSUME ~t.overtaken, t.suffix \in UUID, Fits(Machine(t.def), t.suffix),
               NEW e \in executions', e.machine = Machine(t.def), e.id = t.id
        PROVE  e.states = t.def.states
    <3>1. suffix \in UUID /\ suffix \in unused /\ Fits(m, suffix)
      BY <1>0, <1>3, <1>12, <1>17, <2>5, SuffixFacts
    <3>2. ASSUME NEW f \in executions, f.machine = m, f.id = id PROVE FALSE
      <4>1. ExecutionRight(f)
        BY DEF Inv
      <4>2. PICK s \in (library.suffixes \cup UUID) \ unused : f.id = WorkflowID(m, s)
        BY <3>2, <4>1 DEF ExecutionRight
      <4>3. library \in Libraries /\ WorkflowID(m, s) = WorkflowID(m, suffix)
        BY <1>0, <1>5, <3>2, <4>2 DEF TypeOK
      <4>4. s = suffix
        BY <1>10, <3>1, <4>2, <4>3, GeneratedIDsDiffer
      <4> QED
        BY <3>1, <4>2, <4>4
    <3>3. e = x
      BY <1>3, <1>8, <1>17, <2>5, <3>2
    <3> QED
      BY <1>11, <1>16, <1>17, <2>5, <3>3
  <2> QED
    BY <2>1, <2>2, <2>3, <2>4, <2>5 DEF ToldRight
<1> QED
  BY <1>8, <1>18, <1>21, <1>22, <1>23, <1>24 DEF Inv

\* Every step keeps the invariant.
LEMMA NextInv == Inv /\ [Next]_vars => Inv'
<1> SUFFICES ASSUME Inv, [Next]_vars PROVE Inv'
  OBVIOUS
<1>1. ASSUME NEW p \in Process, NewWorkflowDefinition(p) PROVE Inv'
  BY <1>1, NewWorkflowDefinitionStep
<1>2. ASSUME NEW p \in Process, StartWorkflow(p) PROVE Inv'
  BY <1>2, StartWorkflowStep
<1>3. ASSUME NEW p \in Process, CreateStateMachine(p) PROVE Inv'
  BY <1>3, CreateStateMachineStep
<1>4. ASSUME NEW p \in Process, UpdateStateMachine(p) PROVE Inv'
  BY <1>4, UpdateStateMachineStep
<1>5. ASSUME NEW p \in Process, TagResource(p) PROVE Inv'
  BY <1>5, TagResourceStep
<1>6. ASSUME NEW p \in Process, StartExecution(p) PROVE Inv'
  BY <1>6, StartExecutionStep
<1>7. ASSUME NEW p \in Process, StartFails(p) PROVE Inv'
  BY <1>7, StartFailsStep
<1>8. ASSUME NEW p \in Process, CancelWorkflow(p) PROVE Inv'
  BY <1>8, CancelWorkflowStep
<1>9. CASE ExecutionEnds
  BY <1>9, ExecutionEndsStep
<1>10. CASE UNCHANGED vars
  <2>1. \A q \in Process : \A f : Defines(q, f) => Defines(q, f)'
    BY <1>10, DefinesStays DEF vars
  <2>2. \A n : Frozen(n)' <=> Frozen(n)
    BY <1>10, FrozenStays DEF vars
  <2>3. TypeOK'
    BY <1>10 DEF Inv, TypeOK, vars
  <2>4. \A q \in Process : StartRight(q)'
    BY <1>10, <2>1, <2>2 DEF Inv, StartRight, vars
  <2>5. \A e \in executions' : ExecutionRight(e)'
    BY <1>10, <2>2 DEF Inv, ExecutionRight, vars
  <2>6. \A t \in told' : ToldRight(t)'
    <3>1. \A t \in told : t.by \in Process
      BY DEF Inv, TypeOK
    <3> QED
      BY <1>10, <2>1, <2>2, <3>1 DEF Inv, ToldRight, vars
  <2> QED
    BY <2>3, <2>4, <2>5, <2>6 DEF Inv
<1> QED
  BY <1>1, <1>2, <1>3, <1>4, <1>5, <1>6, <1>7, <1>8, <1>9, <1>10 DEF Next
-----------------------------------------------------------------------------
(***************************************************************************)
(* The results.                                                            *)
(***************************************************************************)

\* The inductive invariant holds: definitions, state machines, executions and
\* what callers of the embedded manager were told fit together, whatever the
\* processes of the application define, create and update at the same time.
THEOREM InvHolds == Spec => []Inv
BY InitInv, NextInv, PTL DEF Spec

\* A definition that may not change has its state machine for itself.
LEMMA ImmutableIsFrozen ==
    ASSUME TypeOK, NEW d \in library.offers, CleanDef(d), d.version # -1
    PROVE  Frozen(Machine(d))
<1>1. \A f \in library.offers : f \in Definition
  BY OfferFacts
<1> QED
  BY <1>1, CleanIsFrozen DEF Frozen

\* The invariant implies RunsAsAsked.
LEMMA InvRunsAsAsked == Inv => RunsAsAsked
<1> SUFFICES ASSUME Inv, NEW t \in told, NEW e \in executions, CleanDef(t.def),
                    e.machine = Machine(t.def), e.id = t.id,
                    t.def.version = -1 => /\ ~t.overtaken
                                          /\ t.suffix \in UUID
                                          /\ Fits(Machine(t.def), t.suffix)
             PROVE  e.states = t.def.states
  BY DEF RunsAsAsked
<1>1. TypeOK /\ ToldRight(t) /\ ExecutionRight(e) /\ t.def \in library.offers
  BY DEF Inv, TypeOK
<1>2. CASE t.def.version = -1
  BY <1>1, <1>2 DEF ToldRight
<1>3. CASE t.def.version # -1
  <2>1. Frozen(Machine(t.def))
    BY <1>1, <1>3, ImmutableIsFrozen
  <2> QED
    BY <1>1, <2>1 DEF ToldRight, ExecutionRight
<1> QED
  BY <1>2, <1>3

\* The invariant implies FoundAsStarted.
LEMMA InvFoundAsStarted == Inv => FoundAsStarted
<1> SUFFICES ASSUME Inv, NEW t \in told
             PROVE  /\ (/\ Clean(Environment) /\ CleanDef(t.def) /\ Whole(t.suffix)
                        /\ Fits(Machine(t.def), t.suffix)) =>
                           LET w == GetWorkflowByID(t.by, t.id) IN
                           /\ w.found
                           /\ w.execution.machine = Machine(t.def)
                           /\ w.def.name = t.def.name
                           /\ t.def.version # -1 => w.def = t.def
                    /\ t.def.version # -1 =>
                           \E e \in executions :
                              /\ e.machine = Machine(t.def) /\ e.id = t.id
                              /\ Latest(e) <=> e \in GetWorkflows(t.by, t.def.name)
  BY DEF FoundAsStarted
<1> DEFINE p == t.by
           d == t.def
           m == Machine(d)
           here == {e \in executions : e.machine = m /\ e.id = t.id}
           first == GetWorkflowDefinitionByNameAndVersion(p, d.name)
<1>1. /\ TypeOK /\ ToldRight(t) /\ d \in library.offers /\ p \in Process
      /\ t.suffix \in library.suffixes \cup UUID
  BY DEF Inv, TypeOK
<1>2. /\ Named(p, d.name) # {} /\ (d.version # -1 => first = d) /\ here # {}
      /\ t.id = WorkflowID(m, t.suffix)
  BY <1>1 DEF ToldRight, Defines
<1>3. first.name = d.name
  BY <1>1, <1>2, FirstIsNamed
<1>4. d \in Definition /\ t.suffix \in String
  BY <1>1, OfferFacts, SuffixFacts
<1>5. ASSUME Clean(Environment), CleanDef(d), Whole(t.suffix), Fits(m, t.suffix)
      PROVE  LET w == GetWorkflowByID(p, t.id) IN
             /\ w.found
             /\ w.execution.machine = m
             /\ w.def.name = d.name
             /\ d.version # -1 => w.def = d
  <2>1. HasIDParts(t.id) /\ SMName(t.id) = m
    BY <1>2, <1>4, <1>5, IDSurvives
  <2>2. HasNameParts(m) /\ WDName(m) = d.name
    BY <1>4, <1>5, NameSurvives
  <2>3. GetWorkflowByID(p, t.id) = [found |-> TRUE, execution |-> CHOOSE e \in here : TRUE, def |-> first]
    BY <1>2, <2>1, <2>2 DEF GetWorkflowByID
  <2>4. (CHOOSE e \in here : TRUE) \in here
    BY <1>2
  <2>5. (CHOOSE e \in here : TRUE).machine = m
    BY <2>4
  <2> QED
    BY <1>2, <1>3, <2>3, <2>5
<1>6. ASSUME d.version # -1
      PROVE  \E e \in executions : /\ e.machine = m /\ e.id = t.id
                                   /\ Latest(e) <=> e \in GetWorkflows(p, d.name)
  BY <1>2, <1>6 DEF GetWorkflows, ListExecutions
<1> QED
  BY <1>5, <1>6

\* A workflow started with StartWorkflow runs the states its caller asked for:
\* CreateStateMachine and the comparison in DescribeStateMachine's branch keep
\* immutable definitions apart, and a generated suffix keeps an ID apart.
THEOREM WorkflowsRunAsAsked == Spec => []RunsAsAsked
BY InvHolds, InvRunsAsAsked, PTL

\* GetWorkflowByID and GetWorkflows lead back to what StartWorkflow began:
\* parseWorkflowID and StateMachineNameParts undo workflowID and
\* StateMachineName for all clean names of any length.
THEOREM WorkflowsAreFound == Spec => []FoundAsStarted
BY InvHolds, InvFoundAsStarted, PTL
=============================================================================
