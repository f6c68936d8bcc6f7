-------------------------- MODULE AccountInfoProofs --------------------------
(***************************************************************************)
(* Whatever the node answers, in whatever order the elements come, and     *)
(* whatever was on the stack: the parser writes only to applications and   *)
(* variables the structure has room for, or has noticed that it does not.  *)
(* And while the answers are plain, of any number of applications with any *)
(* schemas, the local accounts have what they told.                        *)
(*                                                                         *)
(* The second is shown by following the parser through an answer: how the  *)
(* elements of an answer come one after another (the encoding), what a     *)
(* step of the parser does in front of an element (the steps), where it is *)
(* between two of them, from the innermost map outwards (the places), and  *)
(* that every step leads from one place to another.                        *)
(*                                                                         *)
(* The global variables of an application come last, with the loop that    *)
(* fills the client's structure with them.                                 *)
(***************************************************************************)
EXTENDS AccountInfoProps, SequenceTheorems, FiniteSetTheorems, WellFoundedInduction, TLAPS

(***************************************************************************)
(* FlattenSeq, which is defined by recursion over the rows: it exists, for *)
(* there is no least number of rows for which it does not, and joins them. *)
(***************************************************************************)
LEMMA LeastOf ==
  ASSUME NEW T \in SUBSET Nat, T # {}
  PROVE  \E n \in T : \A k \in T : ~(k < n)
<1>1. PICK n \in T : \A k \in T : ~(<<k, n>> \in OpToRel(<, Nat))
  BY WFMin, NatLessThanWellFounded, Zenon
<1> QED BY <1>1 DEF OpToRel

Joined(rows, f) ==
  f = [i \in 1 .. Len(rows) |-> IF i = 1 THEN rows[i] ELSE f[i - 1] \o rows[i]]

(* The function that joins the rows one after another exists. *)
LEMMA JoinedExists ==
  ASSUME NEW rows, Len(rows) \in Nat \ {0}
  PROVE  \E f : Joined(rows, f)
<1> DEFINE UpTo(n) == \E f : f = [i \in 1 .. n |-> IF i = 1 THEN rows[i] ELSE f[i - 1] \o rows[i]]
           not == {n \in 1 .. Len(rows) : ~UpTo(n)}
<1>1. not \in SUBSET Nat
  <2>1. 1 .. Len(rows) \in SUBSET Nat
    OBVIOUS
  <2> HIDE DEF UpTo
  <2> QED BY <2>1
<1>2. SUFFICES ASSUME not # {} PROVE FALSE
  <2>1. UpTo(Len(rows))
    <3> HIDE DEF UpTo
    <3> QED BY <1>2
  <2> QED BY <2>1, Zenon DEF Joined
<1>3. PICK n \in not : \A k \in not : ~(k < n)
  <2> HIDE DEF not
  <2> QED BY <1>1, <1>2, LeastOf
<1>4. n \in 1 .. Len(rows) /\ ~UpTo(n)
  <2> HIDE DEF UpTo
  <2> QED OBVIOUS
<1>5. CASE n = 1
  <2> DEFINE f == [i \in 1 .. 1 |-> rows[1]]
  <2>1. f = [i \in 1 .. n |-> IF i = 1 THEN rows[i] ELSE f[i - 1] \o rows[i]]
    BY <1>5
  <2> QED BY <1>4, <2>1, Zenon
<1>6. CASE n # 1
  <2>1. n - 1 \in 1 .. Len(rows) /\ n - 1 < n
    BY <1>4, <1>6
  <2>2. UpTo(n - 1)
    <3> HIDE DEF UpTo
    <3> QED BY <1>3, <2>1
  <2>3. PICK g : g = [i \in 1 .. n - 1 |-> IF i = 1 THEN rows[i] ELSE g[i - 1] \o rows[i]]
    BY <2>2
  <2> DEFINE f == [i \in 1 .. n |-> IF i < n THEN g[i] ELSE g[n - 1] \o rows[n]]
  <2>4. ASSUME NEW i \in 1 .. n
        PROVE  f[i] = IF i = 1 THEN rows[i] ELSE f[i - 1] \o rows[i]
    <3>1. CASE i = n
      <4>0. n \in 1 .. n /\ n - 1 \in 1 .. n /\ ~(n < n) /\ n - 1 < n
        BY <1>4, <1>6
      <4>1. f[n] = g[n - 1] \o rows[n] /\ f[n - 1] = g[n - 1]
        BY <4>0
      <4> QED BY <1>6, <3>1, <4>1
    <3>2. CASE i # n
      <4>1. i \in 1 .. n - 1 /\ i < n
        BY <1>4, <3>2
      <4>2. g[i] = IF i = 1 THEN rows[i] ELSE g[i - 1] \o rows[i]
        BY <2>3, <4>1
      <4>3. i # 1 => i - 1 \in 1 .. n /\ i - 1 < n
        BY <1>4
      <4> QED BY <4>1, <4>2, <4>3
    <3> QED BY <3>1, <3>2
  <2>5. f = [i \in 1 .. n |-> IF i = 1 THEN rows[i] ELSE f[i - 1] \o rows[i]]
    BY <2>4
  <2> QED BY <1>4, <2>5, Zenon
<1> QED BY <1>5, <1>6

(* What it gives for the first rows does not depend on those that follow. *)
LEMMA JoinedUnique ==
  ASSUME NEW rows, NEW other, NEW f, NEW g, Len(rows) \in Nat, Len(other) \in Nat, 
         Joined(rows, f), Joined(other, g),
         Len(rows) <= Len(other), \A i \in 1 .. Len(rows) : rows[i] = other[i]
  PROVE  \A i \in 1 .. Len(rows) : f[i] = g[i]
<1> DEFINE m == Len(rows)
           not == {i \in 1 .. m : f[i] # g[i]}
<1>1. SUFFICES ASSUME not # {} PROVE FALSE
  OBVIOUS
<1>2. PICK n \in not : \A k \in not : ~(k < n)
  <2>1. not \in SUBSET Nat
    OBVIOUS
  <2> HIDE DEF not
  <2> QED BY <1>1, <2>1, LeastOf
<1>3. /\ f[n] = IF n = 1 THEN rows[n] ELSE f[n - 1] \o rows[n]
      /\ g[n] = IF n = 1 THEN other[n] ELSE g[n - 1] \o other[n]
  <2>1. n \in 1 .. Len(rows) /\ n \in 1 .. Len(other)
    OBVIOUS
  <2> QED BY <2>1 DEF Joined
<1>4. n # 1 => n - 1 \in 1 .. m /\ n - 1 < n
  OBVIOUS
<1> QED BY <1>2, <1>3, <1>4

(* FlattenSeq is its last value. *)
LEMMA FlattenSeqIsJoined ==
  ASSUME NEW rows, Len(rows) \in Nat \ {0}
  PROVE  \E f : Joined(rows, f) /\ FlattenSeq(rows) = f[Len(rows)]
<1> DEFINE f == CHOOSE f : Joined(rows, f)
<1>1. FlattenSeq(rows) = f[Len(rows)]
  BY Zenon DEF FlattenSeq, Joined
<1>2. Joined(rows, f)
  BY JoinedExists, Zenon
<1> QED BY <1>1, <1>2

(* What follows is of rows that are sequences over a set. *)
LEMMA FlattenSeqType ==
  ASSUME NEW T, NEW rows \in Seq(Seq(T))
  PROVE  FlattenSeq(rows) \in Seq(T)
<1>1. CASE Len(rows) = 0
  <2>1. rows = <<>> /\ FlattenSeq(rows) = rows
    BY <1>1, EmptySeq DEF FlattenSeq
  <2> QED BY <2>1, EmptySeq
<1>2. CASE Len(rows) # 0
  <2>0. Len(rows) \in Nat \ {0}
    BY <1>2
  <2>1. PICK f : Joined(rows, f) /\ FlattenSeq(rows) = f[Len(rows)]
    BY <2>0, FlattenSeqIsJoined
  <2> DEFINE not == {n \in 1 .. Len(rows) : f[n] \notin Seq(T)}
  <2>2. SUFFICES ASSUME not # {} PROVE FALSE
    BY <2>0, <2>1
  <2>3. PICK n \in not : \A k \in not : ~(k < n)
    <3>1. not \in SUBSET Nat
      BY <2>0
    <3> HIDE DEF not
    <3> QED BY <2>2, <3>1, LeastOf
  <2>4. f[n] = IF n = 1 THEN rows[n] ELSE f[n - 1] \o rows[n]
    BY <2>1 DEF Joined
  <2>5. rows[n] \in Seq(T)
    BY ElementOfSeq
  <2>6. n # 1 => n - 1 \in 1 .. Len(rows) /\ n - 1 < n
    BY <2>0
  <2>7. n # 1 => f[n - 1] \in Seq(T)
    BY <2>3, <2>6
  <2> QED BY <2>4, <2>5, <2>7, ConcatProperties
<1> QED BY <1>1, <1>2

(* One more row comes after the others. *)
LEMMA FlattenSeqAppend ==
  ASSUME NEW T, NEW rows \in Seq(Seq(T)), NEW x \in Seq(T)
  PROVE  FlattenSeq(Append(rows, x)) = FlattenSeq(rows) \o x
<1> DEFINE all == Append(rows, x)
<1>1. /\ all \in Seq(Seq(T)) /\ Len(all) = Len(rows) + 1 /\ all[Len(rows) + 1] = x
      /\ \A i \in 1 .. Len(rows) : all[i] = rows[i]
      /\ Len(rows) \in Nat
  BY AppendProperties
<1> HIDE DEF all
<1>2. PICK g : Joined(all, g) /\ FlattenSeq(all) = g[Len(all)]
  <2>1. Len(all) \in Nat \ {0}
    BY <1>1
  <2> QED BY <2>1, FlattenSeqIsJoined
<1>3. g[Len(rows) + 1] = IF Len(rows) = 0 THEN x ELSE g[Len(rows)] \o x
  <2>1. Len(rows) + 1 \in 1 .. Len(all) /\ (Len(rows) + 1) - 1 = Len(rows)
        /\ (Len(rows) + 1 = 1 <=> Len(rows) = 0)
    BY <1>1
  <2> QED BY <1>1, <1>2, <2>1 DEF Joined
<1>4. CASE Len(rows) = 0
  <2>1. rows = <<>> /\ FlattenSeq(rows) = rows
    BY <1>4, EmptySeq DEF FlattenSeq
  <2>2. <<>> \o x = x
    BY ConcatEmptySeq
  <2> QED BY <1>1, <1>2, <1>3, <1>4, <2>1, <2>2 DEF all
<1>5. CASE Len(rows) # 0
  <2>1. PICK f : Joined(rows, f) /\ FlattenSeq(rows) = f[Len(rows)]
    BY <1>1, <1>5, FlattenSeqIsJoined
  <2>2. f[Len(rows)] = g[Len(rows)]
    <3>0. Len(all) \in Nat /\ Len(rows) <= Len(all) 
          /\ \A i \in 1 .. Len(rows) : rows[i] = all[i]
      BY <1>1
    <3>1. \A i \in 1 .. Len(rows) : f[i] = g[i]
      <4>1. Joined(rows, f) /\ Joined(all, g) /\ Len(rows) \in Nat
        BY <1>1, <1>2, <2>1
      <4> HIDE DEF all
      <4> QED BY <3>0, <4>1, JoinedUnique, SMTT(30)
    <3> QED BY <1>1, <1>5, <3>1
  <2> QED BY <1>1, <1>2, <1>3, <1>5, <2>1, <2>2 DEF all
<1> QED BY <1>4, <1>5

(* No rows, and one. *)
LEMMA FlattenSeqEmpty == FlattenSeq(<<>>) = <<>>
BY DEF FlattenSeq

LEMMA FlattenSeqOne ==
  ASSUME NEW T, NEW x \in Seq(T)
  PROVE  FlattenSeq(<<x>>) = x
<1>1. <<x>> = Append(<<>>, x) /\ <<>> \in Seq(Seq(T)) /\ <<>> \o x = x
  BY ConcatEmptySeq
<1> QED BY <1>1, FlattenSeqAppend, FlattenSeqEmpty

(* An element appended to the second of two sequences *)
LEMMA ConcatAppend ==
  ASSUME NEW T, NEW s \in Seq(T), NEW t \in Seq(T), NEW x \in T
  PROVE  s \o Append(t, x) = Append(s \o t, x)
<1>1. Append(t, x) = t \o <<x>> /\ <<x>> \in Seq(T) /\ s \o t \in Seq(T)
  BY AppendIsConcat, ConcatProperties
<1>2. (s \o t) \o <<x>> = s \o (t \o <<x>>)
  BY <1>1, ConcatAssociative
<1> QED BY <1>1, <1>2, AppendIsConcat

(* The flattening of a concatenation is the concatenation of the flattenings. *)
LEMMA FlattenSeqConcat ==
  ASSUME NEW T, NEW s \in Seq(Seq(T)), NEW t \in Seq(Seq(T))
  PROVE  FlattenSeq(s \o t) = FlattenSeq(s) \o FlattenSeq(t)
<1> DEFINE Good(u) == FlattenSeq(s \o u) = FlattenSeq(s) \o FlattenSeq(u)
           not == {n \in Nat : \E u \in Seq(Seq(T)) : Len(u) = n /\ ~Good(u)}
<1>1. SUFFICES ASSUME not # {} PROVE FALSE
  <2> HIDE DEF Good
  <2>1. Good(t)
    BY <1>1, LenProperties
  <2> QED BY <2>1 DEF Good
<1>2. PICK n \in not : \A k \in not : ~(k < n)
  <2>1. not \in SUBSET Nat
    OBVIOUS
  <2> HIDE DEF not
  <2> QED BY <1>1, <2>1, LeastOf
<1>3. PICK u \in Seq(Seq(T)) : Len(u) = n /\ ~Good(u)
  OBVIOUS
<1>4. CASE u = <<>>
  BY <1>3, <1>4, FlattenSeqEmpty, FlattenSeqType, ConcatEmptySeq
<1>5. CASE u # <<>>
  <2>1. PICK v \in Seq(Seq(T)), x \in Seq(T) : u = Append(v, x)
    BY <1>5, SequenceEmptyOrAppend
  <2>a. Len(v) = n - 1 /\ n - 1 \in Nat /\ n - 1 < n
    BY <1>3, <2>1, AppendProperties, LenProperties
  <2>2. Good(v)
    <3> HIDE DEF Good
    <3>1. n - 1 \notin not
      BY <1>2, <2>a
    <3> QED BY <2>1, <2>a, <3>1
  <2>3. s \o u = Append(s \o v, x) /\ s \o v \in Seq(Seq(T))
    <3> DEFINE R == Seq(T)
    <3>1. s \in Seq(R) /\ v \in Seq(R) /\ x \in R
      BY <2>1
    <3> HIDE DEF R, not, Good
    <3>2. s \o Append(v, x) = Append(s \o v, x)
      BY <3>1, ConcatAppend
    <3>3. s \o v \in Seq(R)
      BY <3>1, ConcatProperties
    <3> QED BY <2>1, <3>2, <3>3 DEF R
  <2>4. FlattenSeq(s \o u) = (FlattenSeq(s) \o FlattenSeq(v)) \o x
    BY <2>1, <2>2, <2>3, FlattenSeqAppend
  <2>5. FlattenSeq(u) = FlattenSeq(v) \o x
    BY <2>1, FlattenSeqAppend
  <2>6. (FlattenSeq(s) \o FlattenSeq(v)) \o x = FlattenSeq(s) \o (FlattenSeq(v) \o x)
    <3>1. FlattenSeq(s) \in Seq(T) /\ FlattenSeq(v) \in Seq(T)
      BY FlattenSeqType
    <3> HIDE DEF not
    <3> QED BY <3>1, ConcatAssociative, SMTT(30)
  <2> QED BY <1>3, <2>4, <2>5, <2>6
<1> QED BY <1>4, <1>5

(* The flattening of the rows from the n-th on: that row, then the others. *)
LEMMA FlattenSeqFrom ==
  ASSUME NEW T, NEW rows \in Seq(Seq(T)), NEW n \in 1 .. Len(rows)
  PROVE  /\ SubSeq(rows, n, Len(rows)) \in Seq(Seq(T))
         /\ FlattenSeq(SubSeq(rows, n, Len(rows)))
              = rows[n] \o FlattenSeq(SubSeq(rows, n + 1, Len(rows)))
<1>1. rows[n] \in Seq(T) /\ SubSeq(rows, n + 1, Len(rows)) \in Seq(Seq(T))
      /\ SubSeq(rows, n, Len(rows)) \in Seq(Seq(T))
  OBVIOUS
<1>2. SubSeq(rows, n, Len(rows)) = <<rows[n]>> \o SubSeq(rows, n + 1, Len(rows))
  OBVIOUS
<1>3. <<rows[n]>> \in Seq(Seq(T))
  BY <1>1
<1>4. FlattenSeq(<<rows[n]>> \o SubSeq(rows, n + 1, Len(rows)))
        = FlattenSeq(<<rows[n]>>) \o FlattenSeq(SubSeq(rows, n + 1, Len(rows)))
  BY <1>1, <1>3, FlattenSeqConcat
<1>5. FlattenSeq(<<rows[n]>>) = rows[n]
  BY <1>1, FlattenSeqOne
<1> QED BY <1>1, <1>2, <1>4, <1>5

(***************************************************************************)
(* The encoding of an answer, as the parser comes to its elements          *)
(***************************************************************************)
One(present) == IF present THEN 1 ELSE 0
Part(present, key, value) == IF present THEN <<Str(key)>> \o value ELSE <<>>

HasVariables(x) == x.variables # <<>>
NbsPart(x) == Part(x.nbs > 0, "nbs", <<UInt(x.nbs)>>)
NuiPart(x) == Part(x.nui > 0, "nui", <<UInt(x.nui)>>)
SchemaPart(x) == Part(HasSchema(x), "hsch", Schema(x))
VariablesPart(x) == Part(HasVariables(x), "tkv", Variables(x))
ValuePart(v) == Part(v.value # 0, "ui", <<UInt(v.value)>>)

VariableRows(x) == [k \in DOMAIN x.variables |-> VariableFields(x.variables[k])]
VariablesFrom(x, q) == FlattenSeq(SubSeq(VariableRows(x), q, Len(VariableRows(x))))
AppRows(a) == [i \in DOMAIN a.apps |-> AppFields(a.apps[i])]
Others(a) == FlattenSeq(a.others)
After(a, p) == FlattenSeq(SubSeq(AppRows(a), p, Len(AppRows(a)))) \o Others(a)
AmountPart(a) == Part(a.amount # 0, "algo", <<UInt(a.amount)>>)
AppsPart(a) == Part(a.apps # <<>>, "appl", Apps(a))

(* The keys, strings and elements of the encoding are those of the parser. *)
LEMMA KeysAreText == Keys \cup {"slice", "am", "t"} \subseteq Text
BY AnswerAssumption DEF AnswerAssumption

LEMMA ElementTypes ==
  /\ \A s \in Text : Str(s) \in Elements
  /\ \A n \in Nat : UInt(n) \in Elements /\ Map(n) \in Elements
BY TextAssumption DEF TextAssumption, Elements, Element, Str, UInt, Map

(* One element is a sequence of them. *)
LEMMA OneElement ==
  ASSUME NEW e \in Elements
  PROVE  <<e>> \in Seq(Elements) /\ Len(<<e>>) = 1
OBVIOUS

(* A function over 1 .. n is a sequence. *)
LEMMA RowsAreASeq ==
  ASSUME NEW T, NEW n \in Nat, NEW s \in [1 .. n -> T]
  PROVE  s \in Seq(T) /\ Len(s) = n
<1>1. s \in Seq(T)
  BY SeqDef
<1> QED BY <1>1, LenProperties

(* A field is there or is not. *)
LEMMA FieldProperties ==
  ASSUME NEW present, NEW key \in Text, NEW value \in Seq(Elements)
  PROVE  /\ Field(present, key, value) \in Seq(Seq(Elements))
         /\ Len(Field(present, key, value)) = One(present)
         /\ FlattenSeq(Field(present, key, value)) = Part(present, key, value)
         /\ Part(present, key, value) \in Seq(Elements)
<1> DEFINE row == <<Str(key)>> \o value
<1>1. row \in Seq(Elements)
  BY ElementTypes, OneElement, ConcatProperties
<1> HIDE DEF row
<1>2. CASE present
  <2>1. Field(present, key, value) = <<row>> /\ Part(present, key, value) = row
    BY <1>2 DEF Field, Part, row
  <2>2. FlattenSeq(<<row>>) = row
    BY <1>1, FlattenSeqOne
  <2>3. <<row>> \in Seq(Seq(Elements)) /\ Len(<<row>>) = 1
    BY <1>1
  <2> QED BY <1>1, <1>2, <2>1, <2>2, <2>3 DEF One
<1>3. CASE ~present
  <2>1. Field(present, key, value) = <<>> /\ Part(present, key, value) = <<>>
    BY <1>3 DEF Field, Part
  <2> QED BY <1>3, <2>1, FlattenSeqEmpty, EmptySeq DEF One
<1> QED BY <1>2, <1>3

(* A map with the fields f, in front of other elements *)
LEMMA FieldsProperties ==
  ASSUME NEW f \in Seq(Seq(Elements)), NEW g \in Seq(Seq(Elements)), NEW t \in Seq(Elements)
  PROVE  /\ Fields(f) \in Seq(Elements)
         /\ Fields(f) \o t = <<Map(Len(f))>> \o (FlattenSeq(f) \o t)
         /\ Fields(f \o g) \o t
              = <<Map(Len(f) + Len(g))>> \o (FlattenSeq(f) \o (FlattenSeq(g) \o t))
<1>1. /\ FlattenSeq(f) \in Seq(Elements) /\ FlattenSeq(g) \in Seq(Elements)
      /\ f \o g \in Seq(Seq(Elements)) /\ Len(f \o g) = Len(f) + Len(g)
      /\ FlattenSeq(f \o g) = FlattenSeq(f) \o FlattenSeq(g)
  BY FlattenSeqType, FlattenSeqConcat, ConcatProperties
<1>2. Len(f) \in Nat /\ Len(g) \in Nat /\ Len(f) + Len(g) \in Nat
  BY LenProperties
<1>3. <<Map(Len(f))>> \in Seq(Elements) /\ <<Map(Len(f) + Len(g))>> \in Seq(Elements)
  BY <1>2, ElementTypes, OneElement
<1>4. Fields(f) \in Seq(Elements)
  BY <1>1, <1>3, ConcatProperties DEF Fields
<1>5. Fields(f) \o t = <<Map(Len(f))>> \o (FlattenSeq(f) \o t)
  BY <1>1, <1>3, ConcatAssociative DEF Fields
<1>6. Fields(f \o g) \o t = <<Map(Len(f) + Len(g))>> \o ((FlattenSeq(f) \o FlattenSeq(g)) \o t)
  <2> DEFINE m == <<Map(Len(f) + Len(g))>>
             u == FlattenSeq(f) \o FlattenSeq(g)
  <2>1. u \in Seq(Elements) /\ m \in Seq(Elements)
    BY <1>1, <1>3, ConcatProperties
  <2>2. Fields(f \o g) = m \o u
    BY <1>1 DEF Fields
  <2> HIDE DEF m, u
  <2>3. (m \o u) \o t = m \o (u \o t)
    BY <2>1, ConcatAssociative, SMTT(30)
  <2> QED BY <2>2, <2>3 DEF m, u
<1>7. (FlattenSeq(f) \o FlattenSeq(g)) \o t = FlattenSeq(f) \o (FlattenSeq(g) \o t)
  BY <1>1, ConcatAssociative, SMTT(30)
<1> QED BY <1>4, <1>5, <1>6, <1>7

(* Elements in front of elements *)
LEMMA Ahead ==
  ASSUME NEW s \in Seq(Elements), NEW t \in Seq(Elements), NEW u \in Seq(Elements)
  PROVE  (s \o t) \o u = s \o (t \o u) /\ s \o t \in Seq(Elements)
BY ConcatAssociative, ConcatProperties

(* A field in front of other elements: its key and value, or nothing of it *)
LEMMA PartOf ==
  ASSUME NEW key \in Text, NEW value \in Seq(Elements), NEW t \in Seq(Elements)
  PROVE  /\ Part(TRUE, key, value) \o t = <<Str(key)>> \o (value \o t)
         /\ Part(FALSE, key, value) \o t = t
<1>1. <<Str(key)>> \in Seq(Elements)
  BY ElementTypes, OneElement
<1>2. (<<Str(key)>> \o value) \o t = <<Str(key)>> \o (value \o t)
  BY <1>1, ConcatAssociative
<1>3. <<>> \o t = t
  BY ConcatEmptySeq
<1> QED BY <1>2, <1>3 DEF Part

(* How many fields one that may be there is *)
LEMMA OneIsNat == ASSUME NEW p PROVE One(p) \in {0, 1}
BY DEF One

(* A variable: its name, and a map of its type and its value if that is not 0 *)
LEMMA VariableEncoded ==
  ASSUME NEW v \in KeyValue
  PROVE  /\ VariableFields(v) \in Seq(Elements) /\ ValuePart(v) \in Seq(Elements)
         /\ v.type = 2 => \A t \in Seq(Elements) :
              VariableFields(v) \o t
                = <<Str(v.name)>> \o (<<Map(1 + One(v.value # 0))>>
                    \o (<<Str("tt")>> \o (<<UInt(2)>> \o (ValuePart(v) \o t))))
<1> DEFINE tb == Field(v.type = 1 /\ v.value # 0, "tb", <<Str("slice")>>)
           tt == Field(TRUE, "tt", <<UInt(v.type)>>)
           ui == Field(v.type = 2 /\ v.value # 0, "ui", <<UInt(v.value)>>)
           name == <<Str(v.name)>>
<1>1. /\ v.name \in Text /\ v.type \in Nat /\ v.value \in Nat
      /\ "tb" \in Text /\ "tt" \in Text /\ "ui" \in Text /\ "slice" \in Text
  BY KeysAreText DEF KeyValue, Keys
<1>2. /\ name \in Seq(Elements) /\ <<UInt(v.type)>> \in Seq(Elements)
      /\ <<UInt(v.value)>> \in Seq(Elements) /\ <<Str("slice")>> \in Seq(Elements)
  BY <1>1, ElementTypes, OneElement
<1>3. tb \in Seq(Seq(Elements)) /\ ValuePart(v) \in Seq(Elements)
  BY <1>1, <1>2, FieldProperties DEF ValuePart
<1>4. /\ tt \in Seq(Seq(Elements)) /\ Len(tt) = 1
      /\ FlattenSeq(tt) = <<Str("tt")>> \o <<UInt(v.type)>>
  BY <1>1, <1>2, FieldProperties DEF One, Part
<1>5. /\ ui \in Seq(Seq(Elements))
      /\ v.type = 2 => Len(ui) = One(v.value # 0) /\ FlattenSeq(ui) = ValuePart(v)
  <2>1. /\ ui \in Seq(Seq(Elements)) /\ Len(ui) = One(v.type = 2 /\ v.value # 0)
        /\ FlattenSeq(ui) = Part(v.type = 2 /\ v.value # 0, "ui", <<UInt(v.value)>>)
    BY <1>1, <1>2, FieldProperties
  <2>2. CASE v.type = 2
    BY <2>1, <2>2 DEF ValuePart, One, Part
  <2> QED BY <2>1, <2>2
<1>6. VariableFields(v) = name \o Fields((tb \o tt) \o ui)
  BY DEF VariableFields
<1> HIDE DEF tb, tt, ui, name
<1>7. (tb \o tt) \o ui \in Seq(Seq(Elements)) /\ Fields((tb \o tt) \o ui) \in Seq(Elements)
  BY <1>3, <1>4, <1>5, ConcatProperties, FieldsProperties, EmptySeq
<1>8. VariableFields(v) \in Seq(Elements)
  BY <1>2, <1>6, <1>7, ConcatProperties
<1>9. ASSUME v.type = 2, NEW t \in Seq(Elements)
      PROVE  VariableFields(v) \o t
              = <<Str(v.name)>> \o (<<Map(1 + One(v.value # 0))>>
                  \o (<<Str("tt")>> \o (<<UInt(2)>> \o (ValuePart(v) \o t))))
  <2>1. tb \o tt = tt
    <3>1. tb = <<>>
      BY <1>9 DEF tb, Field
    <3> QED BY <1>4, <3>1, ConcatEmptySeq
  <2> DEFINE rest == ValuePart(v) \o t
  <2>2. rest \in Seq(Elements)
    BY <1>3, ConcatProperties
  <2>3. Fields(tt \o ui) \o t = <<Map(1 + One(v.value # 0))>> \o (FlattenSeq(tt) \o rest)
    <3>1. /\ tt \in Seq(Seq(Elements)) /\ ui \in Seq(Seq(Elements)) /\ Len(tt) = 1
          /\ Len(ui) = One(v.value # 0) /\ FlattenSeq(ui) = ValuePart(v)
      BY <1>4, <1>5, <1>9
    <3>2. Fields(tt \o ui) \o t
            = <<Map(Len(tt) + Len(ui))>> \o (FlattenSeq(tt) \o (FlattenSeq(ui) \o t))
      BY <3>1, FieldsProperties
    <3> QED BY <3>1, <3>2
  <2>4. FlattenSeq(tt) \o rest = <<Str("tt")>> \o (<<UInt(2)>> \o rest)
    <3>1. <<Str("tt")>> \in Seq(Elements)
      BY <1>1, ElementTypes, OneElement
    <3> HIDE DEF rest
    <3> QED BY <1>2, <1>4, <1>9, <2>2, <3>1, ConcatAssociative
  <2>5. (name \o Fields(tt \o ui)) \o t = name \o (Fields(tt \o ui) \o t)
    <3> DEFINE f == Fields(tt \o ui)
    <3>1. f \in Seq(Elements)
      BY <1>7, <2>1
    <3> HIDE DEF f
    <3> QED BY <1>2, <3>1, Ahead
  <2> QED BY <1>6, <2>1, <2>3, <2>4, <2>5 DEF name
<1> QED BY <1>3, <1>8, <1>9

(* A schema: a map of its numbers that are not 0 *)
LEMMA SchemaEncoded ==
  ASSUME NEW x \in App
  PROVE  /\ Schema(x) \in Seq(Elements) /\ NbsPart(x) \in Seq(Elements)
              /\ NuiPart(x) \in Seq(Elements)
         /\ \A t \in Seq(Elements) :
              Schema(x) \o t = <<Map(One(x.nbs > 0) + One(x.nui > 0))>>
                                 \o (NbsPart(x) \o (NuiPart(x) \o t))
<1> DEFINE nbs == Field(x.nbs > 0, "nbs", <<UInt(x.nbs)>>)
           nui == Field(x.nui > 0, "nui", <<UInt(x.nui)>>)
<1>1. "nbs" \in Text /\ "nui" \in Text
  BY KeysAreText DEF Keys
<1>2. <<UInt(x.nbs)>> \in Seq(Elements) /\ <<UInt(x.nui)>> \in Seq(Elements)
  BY ElementTypes, OneElement DEF App
<1>3. /\ nbs \in Seq(Seq(Elements)) /\ Len(nbs) = One(x.nbs > 0) /\ FlattenSeq(nbs) = NbsPart(x)
      /\ NbsPart(x) \in Seq(Elements)
  BY <1>1, <1>2, FieldProperties DEF NbsPart
<1>4. /\ nui \in Seq(Seq(Elements)) /\ Len(nui) = One(x.nui > 0) /\ FlattenSeq(nui) = NuiPart(x)
      /\ NuiPart(x) \in Seq(Elements)
  BY <1>1, <1>2, FieldProperties DEF NuiPart
<1>5. Schema(x) = Fields(nbs \o nui)
  BY DEF Schema
<1> HIDE DEF nbs, nui
<1>6. Schema(x) \in Seq(Elements)
  <2>1. nbs \o nui \in Seq(Seq(Elements))
    BY <1>3, <1>4, ConcatProperties
  <2> QED BY <1>5, <2>1, FieldsProperties, EmptySeq
<1>7. ASSUME NEW t \in Seq(Elements)
      PROVE  Schema(x) \o t = <<Map(One(x.nbs > 0) + One(x.nui > 0))>>
                                 \o (NbsPart(x) \o (NuiPart(x) \o t))
  <2>1. Fields(nbs \o nui) \o t
          = <<Map(Len(nbs) + Len(nui))>> \o (FlattenSeq(nbs) \o (FlattenSeq(nui) \o t))
    BY <1>3, <1>4, FieldsProperties
  <2> QED BY <1>3, <1>4, <1>5, <2>1
<1> QED BY <1>3, <1>4, <1>6, <1>7

(* The variables: their number, and each of them in front of the next ones *)
LEMMA VariablesEncoded ==
  ASSUME NEW x \in App
  PROVE  /\ Variables(x) \in Seq(Elements)
         /\ \A q \in Nat \ {0} : VariablesFrom(x, q) \in Seq(Elements)
         /\ VariablesFrom(x, Len(x.variables) + 1) = <<>>
         /\ \A t \in Seq(Elements) :
              /\ Variables(x) \o t = <<Map(Len(x.variables))>> \o (VariablesFrom(x, 1) \o t)
              /\ \A q \in 1 .. Len(x.variables) :
                   VariablesFrom(x, q) \o t
                     = VariableFields(x.variables[q]) \o (VariablesFrom(x, q + 1) \o t)
<1> DEFINE rows == VariableRows(x)
           c == Len(x.variables)
<1>1. x.variables \in Seq(KeyValue) /\ c \in Nat /\ DOMAIN x.variables = 1 .. c
  BY LenProperties DEF App
<1>2. rows \in Seq(Seq(Elements)) /\ Len(rows) = c /\ \A q \in 1 .. c :
        rows[q] = VariableFields(x.variables[q])
  <2>1. rows \in [1 .. c -> Seq(Elements)]
    BY <1>1, ElementOfSeq, VariableEncoded DEF VariableRows
  <2> QED BY <1>1, <2>1, RowsAreASeq DEF VariableRows
<1>3. Variables(x) = <<Map(c)>> \o FlattenSeq(rows)
  BY DEF Variables, VariableRows
<1>4. ASSUME NEW q \in Nat \ {0} PROVE VariablesFrom(x, q) \in Seq(Elements)
  <2>1. SubSeq(rows, q, Len(rows)) \in Seq(Seq(Elements))
    BY <1>2
  <2> QED BY <2>1, FlattenSeqType DEF VariablesFrom
<1>5. VariablesFrom(x, c + 1) = <<>>
  <2>1. SubSeq(rows, c + 1, Len(rows)) = <<>>
    BY <1>1, <1>2, SubSeqEmpty
  <2> QED BY <2>1, FlattenSeqEmpty DEF VariablesFrom
<1>6. VariablesFrom(x, 1) = FlattenSeq(rows)
  BY <1>2, SubSeqFull DEF VariablesFrom
<1>7. <<Map(c)>> \in Seq(Elements) /\ FlattenSeq(rows) \in Seq(Elements)
  BY <1>1, <1>2, FlattenSeqType, ElementTypes, OneElement
<1>8. ASSUME NEW q \in 1 .. c
      PROVE  VariablesFrom(x, q) = VariableFields(x.variables[q]) \o VariablesFrom(x, q + 1)
             /\ VariableFields(x.variables[q]) \in Seq(Elements)
  BY <1>1, <1>2, ElementOfSeq, VariableEncoded, FlattenSeqFrom DEF VariablesFrom
<1>9. Variables(x) \in Seq(Elements)
  BY <1>3, <1>7, ConcatProperties
<1> HIDE DEF rows, c
<1>10. ASSUME NEW t \in Seq(Elements)
       PROVE  Variables(x) \o t = <<Map(c)>> \o (VariablesFrom(x, 1) \o t)
  BY <1>3, <1>6, <1>7, ConcatAssociative
<1>11. ASSUME NEW t \in Seq(Elements), NEW q \in 1 .. c
       PROVE  VariablesFrom(x, q) \o t
                = VariableFields(x.variables[q]) \o (VariablesFrom(x, q + 1) \o t)
  <2>1. VariablesFrom(x, q + 1) \in Seq(Elements)
    BY <1>1, <1>4
  <2> DEFINE f == VariableFields(x.variables[q])
             r == VariablesFrom(x, q + 1)
  <2>2. f \in Seq(Elements) /\ r \in Seq(Elements) /\ VariablesFrom(x, q) = f \o r
    BY <1>8, <2>1
  <2> HIDE DEF f, r
  <2>3. (f \o r) \o t = f \o (r \o t)
    BY <2>2, Ahead
  <2> QED BY <2>2, <2>3 DEF f, r
<1> QED BY <1>4, <1>5, <1>9, <1>10, <1>11 DEF c

(* An application: its id, and a map of its schema and its variables *)
LEMMA AppEncoded ==
  ASSUME NEW x \in App
  PROVE  /\ AppFields(x) \in Seq(Elements)
         /\ SchemaPart(x) \in Seq(Elements) /\ VariablesPart(x) \in Seq(Elements)
         /\ \A t \in Seq(Elements) :
              AppFields(x) \o t
                = <<UInt(x.id)>> \o (<<Map(One(HasSchema(x)) + One(HasVariables(x)))>>
                    \o (SchemaPart(x) \o (VariablesPart(x) \o t)))
<1> DEFINE hsch == Field(HasSchema(x), "hsch", Schema(x))
           tkv == Field(HasVariables(x), "tkv", Variables(x))
           id == <<UInt(x.id)>>
<1>1. "hsch" \in Text /\ "tkv" \in Text
  BY KeysAreText DEF Keys
<1>2. id \in Seq(Elements)
  BY ElementTypes, OneElement DEF App
<1>3. /\ hsch \in Seq(Seq(Elements)) /\ Len(hsch) = One(HasSchema(x))
      /\ FlattenSeq(hsch) = SchemaPart(x) /\ SchemaPart(x) \in Seq(Elements)
  BY <1>1, SchemaEncoded, FieldProperties DEF SchemaPart
<1>4. /\ tkv \in Seq(Seq(Elements)) /\ Len(tkv) = One(HasVariables(x))
      /\ FlattenSeq(tkv) = VariablesPart(x) /\ VariablesPart(x) \in Seq(Elements)
  BY <1>1, VariablesEncoded, FieldProperties DEF VariablesPart
<1>5. AppFields(x) = id \o Fields(hsch \o tkv)
  BY DEF AppFields, HasVariables
<1> HIDE DEF hsch, tkv, id
<1> DEFINE f == Fields(hsch \o tkv)
<1>6. f \in Seq(Elements)
  <2>1. hsch \o tkv \in Seq(Seq(Elements))
    BY <1>3, <1>4, ConcatProperties
  <2> QED BY <2>1, FieldsProperties, EmptySeq
<1>7. ASSUME NEW t \in Seq(Elements)
      PROVE  f \o t = <<Map(One(HasSchema(x)) + One(HasVariables(x)))>>
                        \o (SchemaPart(x) \o (VariablesPart(x) \o t))
  <2>1. f \o t = <<Map(Len(hsch) + Len(tkv))>> \o (FlattenSeq(hsch) \o (FlattenSeq(tkv) \o t))
    BY <1>3, <1>4, FieldsProperties
  <2> QED BY <1>3, <1>4, <2>1
<1> HIDE DEF f
<1>8. AppFields(x) = id \o f
  BY <1>5 DEF f
<1>9. ASSUME NEW t \in Seq(Elements) PROVE AppFields(x) \o t = id \o (f \o t)
  BY <1>2, <1>6, <1>8, Ahead
<1>10. AppFields(x) \in Seq(Elements)
  BY <1>2, <1>6, <1>8, Ahead
<1>11. ASSUME NEW t \in Seq(Elements)
       PROVE  AppFields(x) \o t
                = <<UInt(x.id)>> \o (<<Map(One(HasSchema(x)) + One(HasVariables(x)))>>
                    \o (SchemaPart(x) \o (VariablesPart(x) \o t)))
  BY <1>7, <1>9 DEF id
<1> QED BY <1>3, <1>4, <1>10, <1>11

(* What is known of the answers *)
LEMMA AnswerTypes ==
  ASSUME NEW a \in AccountAnswer
  PROVE  /\ a.amount \in Nat /\ a.created \in BOOLEAN /\ a.apps \in Seq(App)
         /\ Len(a.apps) \in Nat /\ DOMAIN a.apps = 1 .. Len(a.apps)
         /\ \A p \in 1 .. Len(a.apps) :
              /\ a.apps[p] \in App
              /\ HasVariables(a.apps[p]) => HasSchema(a.apps[p])
         /\ a.others \in Seq(Seq(Elements)) /\ Len(a.others) \in Nat
<1>1. a \in Answer
  BY AnswerAssumption DEF AnswerAssumption
<1>2. a.apps \in Seq(App) /\ a.others \in Seq(Seq(Elements))
  BY <1>1 DEF Answer
<1>3. Len(a.apps) \in Nat /\ DOMAIN a.apps = 1 .. Len(a.apps) /\ Len(a.others) \in Nat
  BY <1>2, LenProperties
<1>4. ASSUME NEW p \in 1 .. Len(a.apps)
      PROVE  a.apps[p] \in App /\ (HasVariables(a.apps[p]) => HasSchema(a.apps[p]))
  <2>1. a.apps[p] \in App
    BY <1>2, ElementOfSeq
  <2>2. a.apps[p].variables # <<>> => HasSchema(a.apps[p])
    BY <1>3, AnswerAssumption, Zenon DEF AnswerAssumption
  <2> QED BY <2>1, <2>2 DEF HasVariables
<1> QED BY <1>1, <1>2, <1>3, <1>4 DEF Answer

(* The applications: their number, and each in front of the next ones *)
LEMMA AppsEncoded ==
  ASSUME NEW a \in AccountAnswer
  PROVE  /\ Others(a) \in Seq(Elements) /\ Apps(a) \in Seq(Elements)
         /\ \A p \in Nat \ {0} : After(a, p) \in Seq(Elements)
         /\ After(a, Len(a.apps) + 1) = Others(a)
         /\ \A p \in 1 .. Len(a.apps) : After(a, p) = AppFields(a.apps[p]) \o After(a, p + 1)
         /\ Apps(a) \o Others(a) = <<Map(Len(a.apps))>> \o After(a, 1)
<1> DEFINE rows == AppRows(a)
           k == Len(a.apps)
           From(p) == FlattenSeq(SubSeq(rows, p, Len(rows)))
<1>1. k \in Nat /\ DOMAIN a.apps = 1 .. k /\ \A p \in 1 .. k : a.apps[p] \in App
  BY AnswerTypes
<1>2. rows \in Seq(Seq(Elements)) /\ Len(rows) = k /\ \A p \in 1 .. k :
        rows[p] = AppFields(a.apps[p])
  <2>1. rows \in [1 .. k -> Seq(Elements)]
    BY <1>1, AppEncoded DEF AppRows
  <2> QED BY <1>1, <2>1, RowsAreASeq DEF AppRows
<1>3. Others(a) \in Seq(Elements)
  BY AnswerTypes, FlattenSeqType DEF Others
<1>4. Apps(a) = <<Map(k)>> \o FlattenSeq(rows)
  BY DEF Apps, AppRows
<1>5. \A p \in Nat \ {0} : After(a, p) = From(p) \o Others(a)
  BY DEF After
<1>6. ASSUME NEW p \in Nat \ {0} PROVE From(p) \in Seq(Elements)
  <2>1. SubSeq(rows, p, Len(rows)) \in Seq(Seq(Elements))
    BY <1>2
  <2> QED BY <2>1, FlattenSeqType
<1>7. From(k + 1) = <<>> /\ From(1) = FlattenSeq(rows)
  <2>1. SubSeq(rows, k + 1, Len(rows)) = <<>>
    BY <1>1, <1>2, SubSeqEmpty
  <2> QED BY <1>2, <2>1, FlattenSeqEmpty, SubSeqFull
<1>8. \A p \in 1 .. k : From(p) = rows[p] \o From(p + 1) /\ rows[p] \in Seq(Elements)
  <2>1. rows \in Seq(Seq(Elements)) /\ Len(rows) = k
    BY <1>2
  <2> HIDE DEF rows, k
  <2> QED BY <2>1, FlattenSeqFrom, ElementOfSeq
<1>9. <<Map(k)>> \in Seq(Elements)
  BY <1>1, ElementTypes, OneElement
<1> HIDE DEF From, rows, k
<1>10. \A p \in Nat \ {0} : After(a, p) \in Seq(Elements)
  BY <1>3, <1>5, <1>6, Ahead
<1>11. After(a, k + 1) = Others(a)
  <2>1. k + 1 \in Nat \ {0}
    BY <1>1
  <2> QED BY <1>3, <1>5, <1>7, <2>1, ConcatEmptySeq
<1>12. ASSUME NEW p \in 1 .. k PROVE After(a, p) = AppFields(a.apps[p]) \o After(a, p + 1)
  <2>1. p \in Nat \ {0} /\ p + 1 \in Nat \ {0}
    BY <1>1
  <2>2. (rows[p] \o From(p + 1)) \o Others(a) = rows[p] \o (From(p + 1) \o Others(a))
    <3>1. rows[p] \in Seq(Elements) /\ From(p + 1) \in Seq(Elements)
      BY <1>6, <1>8, <2>1
    <3> QED BY <1>3, <3>1, Ahead
  <2> QED BY <1>2, <1>5, <1>8, <2>1, <2>2
<1>13. Apps(a) \in Seq(Elements) /\ Apps(a) \o Others(a) = <<Map(k)>> \o After(a, 1)
  <2>1. FlattenSeq(rows) \in Seq(Elements) /\ After(a, 1) = FlattenSeq(rows) \o Others(a)
    <3>1. 1 \in Nat \ {0}
      OBVIOUS
    <3> QED BY <1>5, <1>6, <1>7, <3>1
  <2> QED BY <1>3, <1>4, <1>9, <2>1, Ahead
<1> QED BY <1>3, <1>10, <1>11, <1>12, <1>13 DEF k

(* A sequence of seven elements, as the created asset is *)
LEMMA SevenElements ==
  ASSUME NEW T, NEW a \in T, NEW b \in T, NEW c \in T, NEW d \in T, NEW e \in T, NEW f \in T,
         NEW g \in T
  PROVE  <<a, b, c, d, e, f, g>> \in Seq(T)
OBVIOUS

(* An answer: a map of the amount, the created asset, the applications and the rest *)
LEMMA BodyEncoded ==
  ASSUME NEW a \in AccountAnswer
  PROVE  /\ AccountBody(a) \in Seq(Elements)
         /\ AmountPart(a) \in Seq(Elements) /\ AppsPart(a) \in Seq(Elements)
         /\ ~a.created =>
              AccountBody(a) = <<Map(One(a.amount # 0) + One(a.apps # <<>>) + Len(a.others))>>
                                 \o (AmountPart(a) \o (AppsPart(a) \o Others(a)))
<1> DEFINE algo == Field(a.amount # 0, "algo", <<UInt(a.amount)>>)
           apar == Field(a.created, "apar", Asset)
           appl == Field(a.apps # <<>>, "appl", Apps(a))
           others == a.others
<1>1. "algo" \in Text /\ "apar" \in Text /\ "appl" \in Text /\ "am" \in Text /\ "t" \in Text
  BY KeysAreText DEF Keys
<1>2. <<UInt(a.amount)>> \in Seq(Elements)
  BY AnswerTypes, ElementTypes, OneElement
<1>3. Asset \in Seq(Elements)
  <2>1. /\ Map(1) \in Elements /\ UInt(7) \in Elements /\ Map(2) \in Elements
        /\ Str("am") \in Elements /\ Str("t") \in Elements /\ UInt(2) \in Elements
    BY <1>1, ElementTypes
  <2>2. Element("bin", "", 0) \in Elements
    BY TextAssumption DEF TextAssumption, Elements, Element
  <2> QED BY <2>1, <2>2, SevenElements DEF Asset
<1>4. /\ algo \in Seq(Seq(Elements)) /\ Len(algo) = One(a.amount # 0)
      /\ FlattenSeq(algo) = AmountPart(a) /\ AmountPart(a) \in Seq(Elements)
  BY <1>1, <1>2, FieldProperties DEF AmountPart
<1>5. apar \in Seq(Seq(Elements)) /\ (~a.created => apar = <<>>)
  BY <1>1, <1>3, FieldProperties DEF Field
<1>6. /\ appl \in Seq(Seq(Elements)) /\ Len(appl) = One(a.apps # <<>>)
      /\ FlattenSeq(appl) = AppsPart(a) /\ AppsPart(a) \in Seq(Elements)
  BY <1>1, AppsEncoded, FieldProperties DEF AppsPart
<1>7. others \in Seq(Seq(Elements)) /\ FlattenSeq(others) = Others(a) /\ Others(a) \in Seq(Elements)
      /\ Len(others) \in Nat
  BY AnswerTypes, AppsEncoded DEF Others
<1>8. AccountBody(a) = Fields(((algo \o apar) \o appl) \o others)
  BY DEF AccountBody
<1> HIDE DEF algo, apar, appl, others
<1>9. algo \o apar \in Seq(Seq(Elements)) /\ algo \o appl \in Seq(Seq(Elements))
      /\ Len(algo \o appl) = One(a.amount # 0) + One(a.apps # <<>>)
      /\ FlattenSeq(algo \o appl) = AmountPart(a) \o AppsPart(a)
  <2>1. algo \o apar \in Seq(Seq(Elements))
    BY <1>4, <1>5, ConcatProperties
  <2>2. algo \o appl \in Seq(Seq(Elements)) /\ Len(algo \o appl) = Len(algo) + Len(appl)
    BY <1>4, <1>6, ConcatProperties
  <2>3. FlattenSeq(algo \o appl) = FlattenSeq(algo) \o FlattenSeq(appl)
    BY <1>4, <1>6, FlattenSeqConcat
  <2> QED BY <1>4, <1>6, <2>1, <2>2, <2>3
<1>10. AccountBody(a) \in Seq(Elements)
  <2>1. (algo \o apar) \o appl \in Seq(Seq(Elements))
    BY <1>6, <1>9, ConcatProperties
  <2>2. ((algo \o apar) \o appl) \o others \in Seq(Seq(Elements))
    BY <1>7, <2>1, ConcatProperties
  <2> QED BY <1>8, <2>2, FieldsProperties, EmptySeq
<1>11. ASSUME ~a.created
       PROVE  AccountBody(a) = <<Map(One(a.amount # 0) + One(a.apps # <<>>) + Len(a.others))>>
                                 \o (AmountPart(a) \o (AppsPart(a) \o Others(a)))
  <2>1. algo \o apar = algo
    BY <1>4, <1>5, <1>11, ConcatEmptySeq
  <2>2. AccountBody(a) \o <<>> = AccountBody(a) /\ Others(a) \o <<>> = Others(a)
        /\ <<>> \in Seq(Elements)
    BY <1>7, <1>10, ConcatEmptySeq, EmptySeq
  <2>3. Fields((algo \o appl) \o others) \o <<>>
          = <<Map(Len(algo \o appl) + Len(others))>>
              \o (FlattenSeq(algo \o appl) \o (FlattenSeq(others) \o <<>>))
    BY <1>7, <1>9, <2>2, FieldsProperties
  <2>4. (AmountPart(a) \o AppsPart(a)) \o Others(a) = AmountPart(a) \o (AppsPart(a) \o Others(a))
    BY <1>4, <1>6, <1>7, Ahead
  <2> QED BY <1>7, <1>8, <1>9, <2>1, <2>2, <2>3, <2>4 DEF others
<1> QED BY <1>4, <1>6, <1>10, <1>11
-----------------------------------------------------------------------------
USE ParserAssumption

Calls == {NoCall} \cup [op : {"account_new", "account_update"}, account : Local]
           \cup [op : {"s_account_update"}, account : Secret]

(* The types of what the parser reads and writes *)
ParserTypes ==
  /\ account \in AccountDetails /\ m_parsing_account_step \in Step /\ past \in BOOLEAN
  /\ todo \in Seq(Elements)

ParserBounds ==
  /\ InAnApp => account.app_idx < APPS_MAX_COUNT
  /\ InAVariable => past \/ kv_idx < APPS_KV_MAX_COUNT

InfoTypes ==
  /\ m_accounts \in [Local -> [status : {"NONE", "ADDED"}, account : AccountDetails]]
  /\ s_amount \in [Secret -> Int]
  /\ call \in Calls

(* The structure on the stack may hold any index; those of m_accounts, and *)
(* the one that is parsed into for it, do not.                             *)
InfoBounds ==
  /\ \A i \in Local : m_accounts[i].account.app_idx <= APPS_MAX_COUNT
  /\ call.op # "s_account_update" => account.app_idx <= APPS_MAX_COUNT

IInv == ParserTypes /\ ParserBounds /\ InfoTypes /\ InfoBounds
-----------------------------------------------------------------------------
(* The count of applications can be replaced by any number. *)
LEMMA IndexReplaced ==
  ASSUME NEW a \in AccountDetails, NEW n \in Nat
  PROVE  /\ [a EXCEPT !.app_idx = n] \in AccountDetails
         /\ [a EXCEPT !.app_idx = n].app_idx = n
BY DEF AccountDetails

(* One application of a structure is replaced. *)
LEMMA AppReplaced ==
  ASSUME NEW d \in AccountDetails, NEW i \in 0 .. APPS_MAX_COUNT - 1, NEW app \in AppsLocal
  PROVE  /\ [d EXCEPT !.apps_local[i] = app] \in AccountDetails
         /\ [d EXCEPT !.apps_local[i] = app].app_idx = d.app_idx
         /\ [d EXCEPT !.apps_local[i] = app].apps_local[i] = app
BY DEF AccountDetails

(* One variable of an application is replaced. *)
LEMMA VariableReplaced ==
  ASSUME NEW app \in AppsLocal, NEW k \in 0 .. APPS_KV_MAX_COUNT - 1, NEW v \in KeyValue
  PROVE  /\ [app EXCEPT !.values[k] = v] \in AppsLocal
         /\ [app EXCEPT !.values[k] = v].count = app.count
BY DEF AppsLocal

(* The count of variables goes up. *)
LEMMA CountedUp ==
  ASSUME NEW app \in AppsLocal
  PROVE  [app EXCEPT !.count = @ + 1] \in AppsLocal
BY DEF AppsLocal

(* A zeroed structure is an account, without applications. *)
LEMMA ZeroedIsAnAccount == Zeroed \in AccountDetails /\ Zeroed.app_idx = 0
<1>1. NoKeyValue \in KeyValue
  BY TextAssumption DEF NoKeyValue, KeyValue
<1>2. NoApp \in AppsLocal
  BY <1>1 DEF NoApp, AppsLocal
<1>3. [i \in 0 .. APPS_MAX_COUNT - 1 |-> NoApp] \in [0 .. APPS_MAX_COUNT - 1 -> AppsLocal]
  BY <1>2
<1>4. Zeroed \in AccountDetails
  BY <1>3 DEF Zeroed, AccountDetails
<1> QED BY <1>4 DEF Zeroed

(* A number stored in an int32_t is an integer. *)
LEMMA AsInt32IsAnInt == ASSUME NEW n \in Nat PROVE AsInt32(n) \in Int
<1>1. n % INT32_RANGE \in Int
  OBVIOUS
<1> QED BY <1>1 DEF AsInt32

(* What the callbacks keep: the types and bounds above, and the index of   *)
(* an account that had one within m_accounts' bound.                       *)
IndexKept == account.app_idx <= APPS_MAX_COUNT => account'.app_idx <= APPS_MAX_COUNT
Kept ==
  /\ account' \in AccountDetails /\ m_parsing_account_step' \in Step /\ past' \in BOOLEAN
  /\ ParserBounds' /\ IndexKept

(* Every key leads to a step. *)
LEMMA StepsAreSteps == \A t \in KeyLeadsTo : t[3] \in Step
BY DEF KeyLeadsTo, Step, AppSteps

(* A string keeps them. *)
LEMMA StringKept ==
  ASSUME ParserTypes, ParserBounds, ~past, NEW s \in Text, string_element(s)
  PROVE  Kept
<1> USE DEF ParserTypes
<1>1. CASE KnownKey(s)
  <2>1. account' = account /\ past' = past
    BY <1>1 DEF KnownKey
  <2>2. PICK t \in KeyLeadsTo : t[1] = m_parsing_account_step /\ m_parsing_account_step' = t[3]
    BY <1>1 DEF KnownKey
  <2>3. /\ t[3] \in AppSteps => t[1] \in AppSteps
        /\ t[3] \in {"APP_KV_VAR", "APP_KV_TYPE", "APP_KV_VALUE_INT", "APP_KV_VALUE_SLICE"}
             => t[1] \in {"APP_KV_VAR", "APP_KV_TYPE", "APP_KV_VALUE_INT", "APP_KV_VALUE_SLICE"}
    BY DEF KeyLeadsTo, AppSteps
  <2> QED BY <2>1, <2>2, <2>3, StepsAreSteps
        DEF Kept, ParserBounds, InAnApp, InAVariable, IndexKept, kv_idx
<1>2. CASE UnknownKey(s) \/ StringIgnored(s)
  BY <1>2 DEF UnknownKey, StringIgnored, Kept, ParserBounds, InAnApp, InAVariable, IndexKept, kv_idx
<1>3. CASE NameStored(s)
  <2> DEFINE i == account.app_idx
             app == account.apps_local[i]
             v == [app.values[kv_idx] EXCEPT !.name = s]
             stored == [app EXCEPT !.values[kv_idx] = v]
  <2>1. i \in 0 .. APPS_MAX_COUNT - 1 /\ app \in AppsLocal
    BY <1>3 DEF NameStored, ParserBounds, InAnApp, AppSteps, AccountDetails
  <2>2. kv_idx \in 0 .. APPS_KV_MAX_COUNT - 1 /\ kv_idx = app.count
    <3>1. kv_idx < APPS_KV_MAX_COUNT
      BY <1>3 DEF NameStored
    <3>2. kv_idx = app.count
      BY DEF kv_idx
    <3>3. app.count \in Nat
      BY <2>1 DEF AppsLocal
    <3> QED BY <3>1, <3>2, <3>3
  <2>3. v \in KeyValue
    BY <2>1, <2>2 DEF AppsLocal, KeyValue
  <2>4. stored \in AppsLocal /\ stored.count = app.count
    <3>1. app \in AppsLocal /\ kv_idx \in 0 .. APPS_KV_MAX_COUNT - 1 /\ v \in KeyValue
      BY <2>1, <2>2, <2>3
    <3> HIDE DEF app, v
    <3> QED BY <3>1, VariableReplaced
  <2>5. account' = [account EXCEPT !.apps_local[i] = stored]
    BY <1>3 DEF NameStored
  <2>6. account' \in AccountDetails /\ account'.app_idx = i /\ account'.apps_local[i] = stored
    BY <2>1, <2>4, <2>5, AppReplaced
  <2>7. m_parsing_account_step' = "APP_KV_VAR" /\ past' = past
    BY <1>3 DEF NameStored
  <2>8. kv_idx' < APPS_KV_MAX_COUNT
    <3>1. kv_idx' = stored.count
      BY <2>6 DEF kv_idx
    <3> HIDE DEF stored, app
    <3> QED BY <2>2, <2>4, <3>1
  <2>9. ParserBounds' /\ IndexKept
    BY <2>1, <2>6, <2>8 DEF ParserBounds, InAnApp, InAVariable, IndexKept
  <2> QED BY <2>6, <2>7, <2>9 DEF Kept, Step, AppSteps
<1>4. CASE NameStoredPastTheArray
  <2>1. account' = account /\ past' = TRUE /\ m_parsing_account_step' = "APP_KV_VAR"
        /\ account.app_idx < APPS_MAX_COUNT
    BY <1>4 DEF NameStoredPastTheArray, ParserBounds, InAnApp, AppSteps
  <2> QED BY <2>1 DEF Kept, ParserBounds, InAnApp, InAVariable, IndexKept, Step, AppSteps
<1> QED BY <1>1, <1>2, <1>3, <1>4 DEF string_element

(* A number keeps them. *)
LEMMA UIntKept ==
  ASSUME ParserTypes, ParserBounds, ~past, NEW n \in Nat, uint_element(n)
  PROVE  Kept
<1> USE DEF ParserTypes
<1>1. CASE NumberRead(n)
  <2>1. account' \in AccountDetails /\ account'.app_idx = account.app_idx
    BY <1>1, AsInt32IsAnInt DEF NumberRead, AccountDetails
  <2>2. m_parsing_account_step' = "ROOT" /\ past' = past
    BY <1>1 DEF NumberRead
  <2> QED BY <2>1, <2>2 DEF Kept, ParserBounds, InAnApp, InAVariable, IndexKept, Step, AppSteps
<1>2. CASE AppStarts(n)
  <2> DEFINE i == account.app_idx
             app == [account.apps_local[i] EXCEPT !.app_id = n]
  <2>1. i \in 0 .. APPS_MAX_COUNT - 1
    BY <1>2 DEF AppStarts, AccountDetails
  <2>2. app \in AppsLocal
    BY <2>1 DEF AccountDetails, AppsLocal
  <2>3. account' = [account EXCEPT !.apps_local[i] = app]
    BY <1>2 DEF AppStarts
  <2>4. account' \in AccountDetails /\ account'.app_idx = i
    BY <2>1, <2>2, <2>3, AppReplaced
  <2>5. m_parsing_account_step' = "APPL_ID" /\ past' = past
    BY <1>2 DEF AppStarts
  <2> QED BY <2>1, <2>4, <2>5 DEF Kept, ParserBounds, InAnApp, InAVariable, IndexKept, Step,
               AppSteps
<1>3. CASE AppRefused \/ NumberIgnored
  BY <1>3 DEF AppRefused, NumberIgnored, Kept, ParserBounds, InAnApp, InAVariable, IndexKept, kv_idx
<1>4. CASE VariableRead(n)
  <2> DEFINE i == account.app_idx
             app == account.apps_local[i]
             typed == [app.values[kv_idx] EXCEPT !.type = n]
             valued == [app.values[kv_idx] EXCEPT !.value = n]
  <2>0. m_parsing_account_step \in {"APP_KV_TYPE", "APP_KV_VALUE_INT"}
    BY <1>4 DEF VariableRead
  <2>1. i \in 0 .. APPS_MAX_COUNT - 1 /\ app \in AppsLocal
    <3>1. account.app_idx < APPS_MAX_COUNT
      BY <2>0 DEF ParserBounds, InAnApp, AppSteps
    <3>2. account.app_idx \in Nat /\ account.apps_local \in [0 .. APPS_MAX_COUNT - 1 -> AppsLocal]
      BY DEF AccountDetails
    <3> QED BY <3>1, <3>2
  <2>2. kv_idx \in 0 .. APPS_KV_MAX_COUNT - 1 /\ kv_idx = app.count
    <3>1. kv_idx < APPS_KV_MAX_COUNT
      BY <2>0 DEF ParserBounds, InAVariable
    <3>2. kv_idx = app.count
      BY DEF kv_idx
    <3>3. app.count \in Nat
      BY <2>1 DEF AppsLocal
    <3> QED BY <3>1, <3>2, <3>3
  <2>3. typed \in KeyValue /\ valued \in KeyValue
    BY <2>1, <2>2 DEF AppsLocal, KeyValue
  <2>4. past' = FALSE /\ m_parsing_account_step' = "APP_KV_VAR"
    <3>1. ~(kv_idx > APPS_KV_MAX_COUNT) /\ kv_idx # APPS_KV_MAX_COUNT
      BY <2>2
    <3>2. /\ past' = (kv_idx = APPS_KV_MAX_COUNT)
          /\ m_parsing_account_step' = "APP_KV_VAR"
      BY <1>4, <3>1, Zenon DEF VariableRead
    <3> QED BY <3>1, <3>2, Zenon
  <2>5. \/ account' = [account EXCEPT !.apps_local[i] = [app EXCEPT !.values[kv_idx] = typed]]
        \/ account' = [account EXCEPT !.apps_local[i] = [app EXCEPT !.values[kv_idx] = valued]]
    <3>1. ~(kv_idx > APPS_KV_MAX_COUNT)
      BY <2>2
    <3>2. CASE m_parsing_account_step = "APP_KV_TYPE"
      BY <1>4, <3>1, <3>2 DEF VariableRead
    <3>3. CASE m_parsing_account_step # "APP_KV_TYPE"
      BY <1>4, <3>1, <3>3 DEF VariableRead
    <3> QED BY <3>2, <3>3
  <2>6. ASSUME NEW v \in KeyValue,
               account' = [account EXCEPT !.apps_local[i] = [app EXCEPT !.values[kv_idx] = v]]
        PROVE  Kept
    <3> DEFINE stored == [app EXCEPT !.values[kv_idx] = v]
    <3>1. stored \in AppsLocal /\ stored.count = app.count
      BY <2>1, <2>2, VariableReplaced
    <3>2. account' \in AccountDetails /\ account'.app_idx = i /\ account'.apps_local[i] = stored
      BY <2>1, <2>6, <3>1, AppReplaced
    <3>3. kv_idx' < APPS_KV_MAX_COUNT
      BY <2>2, <3>1, <3>2 DEF kv_idx
    <3>4. ParserBounds'
      BY <2>1, <3>2, <3>3 DEF ParserBounds, InAnApp, InAVariable
    <3>5. IndexKept
      BY <2>1, <3>2 DEF IndexKept
    <3>6. past' \in BOOLEAN /\ m_parsing_account_step' \in Step
      BY <2>4 DEF Step, AppSteps
    <3> QED BY <3>2, <3>4, <3>5, <3>6 DEF Kept
  <2> QED BY <2>3, <2>5, <2>6
<1>5. CASE SchemaRead
  BY <1>5 DEF SchemaRead, Kept, ParserBounds, InAnApp, InAVariable, IndexKept, Step, AppSteps
<1> QED BY <1>1, <1>2, <1>3, <1>4, <1>5 DEF uint_element

(* The end of a map keeps them. *)
LEMMA FinishMapKept ==
  ASSUME ParserTypes, ParserBounds, past' = past, ~past, finish_map
  PROVE  Kept
<1> USE DEF ParserTypes
<1>1. CASE m_parsing_account_step = "APP_KV_VAR"
  <2> DEFINE i == account.app_idx
             app == [account.apps_local[i] EXCEPT !.count = @ + 1]
  <2>1. i \in 0 .. APPS_MAX_COUNT - 1
    BY <1>1 DEF ParserBounds, InAnApp, AppSteps, AccountDetails
  <2>2. app \in AppsLocal
    <3>1. account.apps_local[i] \in AppsLocal
      BY <2>1 DEF AccountDetails
    <3> QED BY <3>1, CountedUp
  <2>3. account' = [account EXCEPT !.apps_local[i] = app] /\ m_parsing_account_step' = "APP_KV"
    BY <1>1 DEF finish_map
  <2>4. account' \in AccountDetails /\ account'.app_idx = i
    BY <2>1, <2>2, <2>3, AppReplaced
  <2> QED BY <2>1, <2>3, <2>4 DEF Kept, ParserBounds, InAnApp, InAVariable, IndexKept, Step,
               AppSteps
<1>2. CASE m_parsing_account_step \in {"APP_KV", "APP_SCH"}
  <2>1. account' = account /\ m_parsing_account_step' = "APPL_ID"
    BY <1>2 DEF finish_map
  <2> QED BY <1>2, <2>1 DEF Kept, ParserBounds, InAnApp, InAVariable, IndexKept, Step, AppSteps
<1>3. CASE m_parsing_account_step = "APPL_ID"
  <2>1. account' = [account EXCEPT !.app_idx = @ + 1] /\ m_parsing_account_step' = "APPL"
    BY <1>3 DEF finish_map
  <2>2. account.app_idx < APPS_MAX_COUNT
    BY <1>3 DEF ParserBounds, InAnApp, AppSteps
  <2>3. account' \in AccountDetails /\ account'.app_idx <= APPS_MAX_COUNT
    <3>1. account \in AccountDetails
      OBVIOUS
    <3>2. account.app_idx \in Nat
      BY <3>1 DEF AccountDetails
    <3>3. account.app_idx + 1 \in Nat /\ account.app_idx + 1 <= APPS_MAX_COUNT
      BY <3>2, <2>2, ParserAssumption DEF ParserAssumption
    <3> QED BY <2>1, <3>1, <3>3, IndexReplaced
  <2>4. ParserBounds' /\ m_parsing_account_step' \in Step
    BY <2>1 DEF ParserBounds, InAnApp, InAVariable, Step, AppSteps
  <2> QED BY <2>3, <2>4 DEF Kept, IndexKept
<1>4. CASE m_parsing_account_step \notin {"APP_KV_VAR", "APP_KV", "APP_SCH", "APPL_ID"}
  <2>1. account' = account /\ m_parsing_account_step' = "ROOT"
    BY <1>4 DEF finish_map
  <2> QED BY <2>1 DEF Kept, ParserBounds, InAnApp, InAVariable, IndexKept, Step, AppSteps
<1> QED BY <1>1, <1>2, <1>3, <1>4

(* A step of the parser keeps them. *)
LEMMA ParserStepKept ==
  ASSUME ParserTypes, ParserBounds, ParserStep
  PROVE  ParserTypes' /\ ParserBounds' /\ IndexKept
<1> USE DEF ParserTypes
<1>1. ~past
  BY DEF ParserStep
<1>2. CASE parse_element
  <2>1. todo # <<>> /\ todo' = Tail(todo)
    BY <1>2 DEF parse_element
  <2>2. Head(todo) \in Elements /\ todo' \in Seq(Elements)
    BY <2>1, HeadTailProperties
  <2>3. Head(todo).s \in Text /\ Head(todo).n \in Nat
    BY <2>2 DEF Elements
  <2>4. CASE string_element(Head(todo).s)
    BY <1>1, <2>2, <2>3, <2>4, StringKept DEF Kept
  <2>5. CASE uint_element(Head(todo).n)
    BY <1>1, <2>2, <2>3, <2>5, UIntKept DEF Kept
  <2>6. CASE UNCHANGED <<m_parsing_account_step, account, past>>
    BY <2>2, <2>6 DEF ParserBounds, InAnApp, InAVariable, IndexKept, kv_idx
  <2> QED BY <1>2, <2>4, <2>5, <2>6 DEF parse_element, start_map_or_array
<1>3. CASE ReaderFails
  BY <1>3 DEF ReaderFails, ParserBounds, InAnApp, InAVariable, IndexKept, kv_idx
<1>4. CASE FinishElement
  <2>1. past' = past /\ todo' = todo
    BY <1>4 DEF FinishElement
  <2>2. CASE finish_map
    BY <1>1, <2>1, <2>2, FinishMapKept DEF Kept
  <2>3. CASE UNCHANGED <<m_parsing_account_step, account>>
    BY <2>1, <2>3 DEF ParserBounds, InAnApp, InAVariable, IndexKept, kv_idx
  <2> QED BY <1>4, <2>2, <2>3 DEF FinishElement
<1> QED BY <1>2, <1>3, <1>4 DEF ParserStep

(* A call of the parser begins at the root, with what the structure holds. *)
LEMMA ParserCalled ==
  ASSUME IInv, NEW body \in Seq(Elements), NEW details \in AccountDetails,
         parser_account_mpack(body, details)
  PROVE  ParserTypes' /\ ParserBounds' /\ account' = details
BY DEF IInv, parser_account_mpack, ParserTypes, ParserBounds, InAnApp, InAVariable, Step, AppSteps

(* What the parser is given consists of elements. *)
LEMMA BodiesAreElements ==
  Body \subseteq Seq(Elements) /\ \A a \in AccountAnswer : AccountBody(a) \in Body
BY AccountInfoAssumption, BodyEncoded DEF Body, AccountInfoAssumption

(* A request for a local account: the parser is called, or nothing changes *)
LEMMA LocalRequest ==
  ASSUME IInv, NEW i \in Local, NEW op \in {"account_new", "account_update"},
         provider_account_info_get(op, i)
  PROVE  /\ ParserTypes' /\ ParserBounds' /\ call' \in Calls
         /\ call'.op # "s_account_update" => account'.app_idx <= APPS_MAX_COUNT
<1> DEFINE details == m_accounts[i].account
<1>1. details \in AccountDetails /\ details.app_idx <= APPS_MAX_COUNT
  BY DEF IInv, InfoTypes, InfoBounds
<1>2. ASSUME NEW body \in Body, Parses(op, i, body, details)
      PROVE  /\ ParserTypes' /\ ParserBounds' /\ call' \in Calls
             /\ account'.app_idx <= APPS_MAX_COUNT
  <2>1. parser_account_mpack(body, details) /\ call' = [op |-> op, account |-> i]
    BY <1>2 DEF Parses
  <2>2. call' \in Calls
    BY <2>1 DEF Calls
  <2> QED BY <1>1, <2>1, <2>2, ParserCalled, BodiesAreElements
<1>3. CASE UNCHANGED <<parserVars, call>>
  BY <1>3 DEF IInv, ParserTypes, ParserBounds, InAnApp, InAVariable, kv_idx, parserVars,
              InfoTypes, InfoBounds
<1>4. \/ UNCHANGED <<parserVars, call>>
      \/ \E body \in Body : Parses(op, i, body, details)
  BY BodiesAreElements DEF provider_account_info_get, Body
<1> QED BY <1>2, <1>3, <1>4

(* Nothing is parsed. *)
LEMMA UnchangedParser ==
  ASSUME IInv, UNCHANGED parserVars
  PROVE  ParserTypes' /\ ParserBounds' /\ account' = account
BY DEF IInv, ParserTypes, ParserBounds, InAnApp, InAVariable, kv_idx, parserVars

(* At the start nothing was parsed and every structure is empty. *)
LEMMA InitInv == Init => IInv
<1> SUFFICES ASSUME Init PROVE IInv
  OBVIOUS
<1>1. account = Zeroed /\ m_parsing_account_step = "ROOT" /\ past = FALSE /\ todo = <<>>
      /\ call = NoCall
  BY DEF Init
<1>2. ParserTypes /\ ParserBounds
  <2>1. ParserTypes
    BY <1>1, ZeroedIsAnAccount, EmptySeq DEF ParserTypes, Step
  <2>2. ParserBounds
    BY <1>1 DEF ParserBounds, InAnApp, InAVariable, AppSteps
  <2> QED BY <2>1, <2>2
<1>3. InfoTypes
  BY ZeroedIsAnAccount DEF Init, InfoTypes, Calls
<1>4. InfoBounds
  BY <1>1, ZeroedIsAnAccount DEF Init, InfoBounds
<1> QED BY <1>2, <1>3, <1>4 DEF IInv

(* Every step keeps the types and bounds. *)
LEMMA NextInv == IInv /\ [Next]_vars => IInv'
<1> SUFFICES ASSUME IInv, [Next]_vars PROVE IInv'
  OBVIOUS
<1>1. ASSUME NEW i \in Local, account_new(i)
      PROVE  IInv'
  <2>1. ParserTypes' /\ ParserBounds' /\ call' \in Calls
        /\ (call'.op # "s_account_update" => account'.app_idx <= APPS_MAX_COUNT)
    BY <1>1, LocalRequest DEF account_new
  <2>2. m_accounts' = [m_accounts EXCEPT ![i].status = "ADDED"] /\ s_amount' = s_amount
    BY <1>1 DEF account_new
  <2>3. InfoTypes' /\ InfoBounds'
    BY <2>1, <2>2 DEF IInv, InfoTypes, InfoBounds
  <2> QED BY <2>1, <2>3 DEF IInv
<1>2. ASSUME NEW i \in Local, account_update(i)
      PROVE  IInv'
  <2>1. ParserTypes' /\ ParserBounds' /\ call' \in Calls
        /\ (call'.op # "s_account_update" => account'.app_idx <= APPS_MAX_COUNT)
    BY <1>2, LocalRequest DEF account_update
  <2>2. m_accounts' = m_accounts /\ s_amount' = s_amount
    BY <1>2 DEF account_update
  <2> QED BY <2>1, <2>2 DEF IInv, InfoTypes, InfoBounds
<1>3. ASSUME NEW i \in Local, account_free(i)
      PROVE  IInv'
  <2>1. m_accounts' = [m_accounts EXCEPT ![i] = [status |-> "NONE", account |-> Zeroed]]
        /\ s_amount' = s_amount /\ call' = call /\ UNCHANGED parserVars
    BY <1>3 DEF account_free, Freed
  <2>2. InfoTypes' /\ InfoBounds'
    BY <2>1, ZeroedIsAnAccount, UnchangedParser DEF IInv, InfoTypes, InfoBounds
  <2> QED BY <2>1, <2>2, UnchangedParser DEF IInv
<1>4. ASSUME NEW s \in Secret, s_account_update(s)
      PROVE  IInv'
  <2>1. m_accounts' = m_accounts /\ s_amount' = s_amount
    BY <1>4 DEF s_account_update, infoVars
  <2>2. ASSUME NEW details \in Uninitialised, NEW body \in Body,
               Parses("s_account_update", s, body, [details EXCEPT !.amount = s_amount[s]])
        PROVE  IInv'
    <3>1. [details EXCEPT !.amount = s_amount[s]] \in AccountDetails
      BY AccountInfoAssumption DEF IInv, InfoTypes, AccountDetails
    <3>2. ParserTypes' /\ ParserBounds'
      BY <2>2, <3>1, ParserCalled, BodiesAreElements DEF Parses
    <3>3. call' \in Calls /\ call'.op = "s_account_update"
      BY <2>2 DEF Parses, Calls
    <3> QED BY <2>1, <3>2, <3>3 DEF IInv, InfoTypes, InfoBounds
  <2>3. CASE UNCHANGED <<parserVars, call>>
    BY <2>1, <2>3, UnchangedParser DEF IInv, InfoTypes, InfoBounds
  <2> QED BY <1>4, <2>2, <2>3 DEF s_account_update
<1>5. CASE Parse
  <2>1. ParserStep /\ UNCHANGED <<infoVars, call>>
    BY <1>5 DEF Parse
  <2>2. ParserTypes' /\ ParserBounds' /\ IndexKept
    BY <2>1, ParserStepKept DEF IInv
  <2>3. m_accounts' = m_accounts /\ s_amount' = s_amount /\ call' = call
    BY <2>1 DEF infoVars
  <2> QED BY <2>2, <2>3 DEF IInv, InfoTypes, InfoBounds, IndexKept
<1>6. CASE AccountParsed
  <2>1. account' = Zeroed /\ call' = NoCall /\ m_parsing_account_step' = "ROOT"
        /\ todo' = <<>> /\ past' = past
    BY <1>6 DEF AccountParsed
  <2>2. ParserTypes' /\ ParserBounds'
    BY <2>1, ZeroedIsAnAccount
       DEF IInv, ParserTypes, ParserBounds, InAnApp, InAVariable, Step, AppSteps
  <2>3. CASE call.op = "s_account_update"
    <3>1. s_amount' = [s_amount EXCEPT ![call.account] = account.amount] /\ m_accounts' = m_accounts
      BY <1>6, <2>3 DEF AccountParsed
    <3>2. account.amount \in Int
      BY DEF IInv, ParserTypes, AccountDetails
    <3>3. InfoTypes'
      BY <2>1, <3>1, <3>2 DEF IInv, InfoTypes, Calls
    <3> QED BY <2>1, <2>2, <3>1, <3>3, ZeroedIsAnAccount DEF IInv, InfoBounds
  <2>4. CASE call.op # "s_account_update"
    <3>1. m_accounts' = [m_accounts EXCEPT ![call.account].account = account]
            /\ s_amount' = s_amount
      BY <1>6, <2>4 DEF AccountParsed
    <3>2. call.account \in Local
      BY <1>6, <2>4 DEF IInv, InfoTypes, Calls, AccountParsed
    <3>3. account \in AccountDetails /\ account.app_idx <= APPS_MAX_COUNT
      BY <2>4 DEF IInv, ParserTypes, InfoBounds
    <3>4. InfoTypes'
      BY <2>1, <3>1, <3>2, <3>3 DEF IInv, InfoTypes, Calls
    <3>5. InfoBounds'
      BY <2>1, <3>1, <3>2, <3>3, ZeroedIsAnAccount DEF IInv, InfoTypes, InfoBounds
    <3> QED BY <2>2, <3>4, <3>5 DEF IInv
  <2> QED BY <2>3, <2>4
<1>7. CASE UNCHANGED <<parserVars, m_accounts, s_amount, call>>
  BY <1>7, UnchangedParser DEF IInv, InfoTypes, InfoBounds
<1>8. ASSUME NEW a, NEW app_id, transaction_appl(a, app_id)
      PROVE  IInv'
  BY <1>7, <1>8 DEF transaction_appl, infoVars
<1>9. ASSUME NEW elements, NEW states, provider_application_info_get(elements, states)
      PROVE  IInv'
  BY <1>7, <1>9 DEF provider_application_info_get, infoVars
<1>10. CASE UNCHANGED vars
  BY <1>7, <1>10 DEF vars, infoVars
<1> QED BY <1>1, <1>2, <1>3, <1>4, <1>5, <1>6, <1>8, <1>9, <1>10 DEF Next

(* For every number of applications and variables there is room for, every *)
(* answer of the node and everything the stack may hold: an application is *)
(* begun only while there is room, and a variable's type and value are     *)
(* never stored past the array: of the comparisons with APPS_KV_MAX_COUNT  *)
(* only the one on the name can come true.                                 *)
THEOREM ParserKeepsItsBounds == Spec => []IndexesInBounds
<1>1. IInv => IndexesInBounds
  BY DEF IInv, ParserBounds, InfoBounds, IndexesInBounds
<1> QED BY <1>1, InitInv, NextInv, PTL DEF Spec

(***************************************************************************)
(* The steps of the parser, from a place in an answer to the next          *)
(***************************************************************************)
FrameOf(kind, n) == [kind |-> kind, left |-> n]
Pam(n) == FrameOf("parser_account_mpack", n)
Pairs(n) == FrameOf("map", n)
FrameKinds == {"parser_account_mpack", "map", "array"}

At(step, frames, rest, details) ==
  /\ m_parsing_account_step = step /\ open = frames /\ todo = rest /\ account = details
  /\ reader_ok /\ ~past

(* The parser follows a plain answer to its innermost map. *)
LEMMA DepthFollowed == MAX_DEPTH >= 6 /\ MAX_DEPTH \in Nat
<1>1. MAX_DEPTH >= 6
  BY AnswerAssumption, Zenon DEF AnswerAssumption
<1>2. MAX_DEPTH \in Nat
  BY ParserAssumption, Zenon DEF ParserAssumption
<1> QED BY <1>1, <1>2

(* The frames of the loops *)
LEMMA FramesAreFrames ==
  /\ \A kind \in FrameKinds : \A n \in Nat : FrameOf(kind, n) \in Frame
  /\ \A n \in Nat : Pam(n) \in Frame /\ Pairs(n) \in Frame
BY DEF Pam, Pairs, FrameOf, FrameKinds, Frame

(* The innermost loop is replaced, looked at, left, and goes on. *)
LEMMA TopReplaced ==
  ASSUME NEW o \in Seq(Frame), NEW f \in Frame, NEW g \in Frame, NEW s, s = Append(o, f)
  PROVE  [s EXCEPT ![Len(s)] = g] = Append(o, g)
<1>1. s \in Seq(Frame) /\ Len(s) = Len(o) + 1 /\ Len(s) \in 1 .. Len(s) /\ Len(o) \in Nat
      /\ \A i \in 1 .. Len(o) : s[i] = o[i]
  BY AppendProperties, LenProperties
<1> DEFINE n == Len(s)
           u == [s EXCEPT ![n] = g]
           v == Append(o, g)
<1>2. v \in Seq(Frame) /\ Len(v) = Len(o) + 1 /\ v[Len(o) + 1] = g /\ \A i \in 1 .. Len(o) :
        v[i] = o[i]
  BY AppendProperties
<1>3. /\ u \in Seq(Frame) /\ Len(u) = n
      /\ \A j \in 1 .. n : u[j] = IF j = n THEN g ELSE s[j]
  <2>1. n \in Nat /\ s \in [1 .. n -> Frame]
    BY <1>1, LenProperties
  <2> HIDE DEF n
  <2>2. u \in [1 .. n -> Frame]
    BY <2>1
  <2>3. u \in Seq(Frame) /\ Len(u) = n
    BY <2>1, <2>2, RowsAreASeq
  <2>4. \A j \in 1 .. n : u[j] = IF j = n THEN g ELSE s[j]
    BY <2>1
  <2> QED BY <2>3, <2>4
<1>6. \A j \in 1 .. Len(u) : u[j] = v[j]
  BY <1>1, <1>2, <1>3
<1> HIDE DEF u, v
<1>7. u = v
  BY <1>1, <1>2, <1>3, <1>6, SeqEqual
<1> QED BY <1>7 DEF u, v

LEMMA TopFrame ==
  ASSUME NEW o \in Seq(Frame), NEW kind \in FrameKinds, NEW l \in Nat, NEW s,
         s = Append(o, FrameOf(kind, l))
  PROVE  /\ s # <<>> /\ Len(s) = Len(o) + 1 /\ s[Len(s)] = FrameOf(kind, l) /\ s \in Seq(Frame)
         /\ SubSeq(s, 1, Len(s) - 1) = o
<1>0. FrameOf(kind, l) \in Frame
  BY FramesAreFrames
<1>1. /\ s # <<>> /\ Len(s) = Len(o) + 1 /\ s[Len(s)] = FrameOf(kind, l) /\ s \in Seq(Frame)
      /\ Len(o) \in Nat
  BY <1>0, AppendProperties, LenProperties
<1>2. SubSeq(s, 1, Len(o)) = o
  BY <1>0
<1> QED BY <1>1, <1>2

OneLess(s) == [s EXCEPT ![Len(s)].left = @ - 1]
NoneLeft(s) == [s EXCEPT ![Len(s)].left = 0]

LEMMA TopLeft ==
  ASSUME NEW o \in Seq(Frame), NEW kind \in FrameKinds, NEW l \in Nat, NEW s,
         s = Append(o, FrameOf(kind, l))
  PROVE  NoneLeft(s) = Append(o, FrameOf(kind, 0))
<1> DEFINE f == FrameOf(kind, l)
<1>1. f \in Frame /\ FrameOf(kind, 0) \in Frame /\ s[Len(s)] = f
  BY FramesAreFrames, TopFrame
<1>2. [f EXCEPT !.left = 0] = FrameOf(kind, 0)
  BY DEF FrameOf
<1>3. NoneLeft(s) = [s EXCEPT ![Len(s)] = [s[Len(s)] EXCEPT !.left = 0]]
  BY DEF NoneLeft
<1>4. NoneLeft(s) = [s EXCEPT ![Len(s)] = FrameOf(kind, 0)]
  BY <1>1, <1>2, <1>3, Zenon
<1>5. [s EXCEPT ![Len(s)] = FrameOf(kind, 0)] = Append(o, FrameOf(kind, 0))
  BY <1>1, TopReplaced
<1> QED BY <1>4, <1>5, Zenon

LEMMA TopGoesOn ==
  ASSUME NEW o \in Seq(Frame), NEW kind \in FrameKinds, NEW l \in Nat \ {0}, NEW s,
         s = Append(o, FrameOf(kind, l))
  PROVE  OneLess(s) = Append(o, FrameOf(kind, l - 1))
<1> DEFINE f == FrameOf(kind, l)
<1>1. f \in Frame /\ FrameOf(kind, l - 1) \in Frame /\ s[Len(s)] = f
  <2>1. l \in Nat /\ l - 1 \in Nat
    OBVIOUS
  <2> QED BY <2>1, FramesAreFrames, TopFrame
<1>2. [f EXCEPT !.left = f.left - 1] = FrameOf(kind, l - 1)
  BY DEF FrameOf
<1>3. OneLess(s)
        = [s EXCEPT ![Len(s)] = [s[Len(s)] EXCEPT !.left = s[Len(s)].left - 1]]
  BY DEF OneLess
<1>4. OneLess(s) = [s EXCEPT ![Len(s)] = FrameOf(kind, l - 1)]
  BY <1>1, <1>2, <1>3, Zenon
<1>5. [s EXCEPT ![Len(s)] = FrameOf(kind, l - 1)] = Append(o, FrameOf(kind, l - 1))
  BY <1>1, TopReplaced
<1> QED BY <1>4, <1>5, Zenon

(* The element in front is the one that is read. *)
LEMMA NextElement ==
  ASSUME NEW e \in Elements, NEW t \in Seq(Elements)
  PROVE  /\ <<e>> \o t # <<>> /\ Head(<<e>> \o t) = e /\ Tail(<<e>> \o t) = t
         /\ <<e>> \o t \in Seq(Elements)
OBVIOUS

(* A map is opened, and its loop is one element further. *)
LEMMA MapOpened ==
  ASSUME NEW o \in Seq(Frame), NEW kind \in FrameKinds, NEW l \in Nat \ {0}, NEW n,
         open = Append(o, FrameOf(kind, l))
  PROVE  Opened("map", n) = Append(Append(o, FrameOf(kind, l - 1)), Pairs(n))
<1>1. OneLess(open) = Append(o, FrameOf(kind, l - 1))
  BY TopGoesOn
<1>2. Opened("map", n) = Append(OneLess(open), Pairs(n))
  BY DEF Opened, OneLess, Pairs, FrameOf
<1> QED BY <1>1, <1>2

(* The next element is read, for there is one the reader can read. *)
LEMMA NextIsRead ==
  ASSUME NEW st, NEW o \in Seq(Frame), NEW kind \in FrameKinds, NEW l \in Nat \ {0},
         NEW e \in Elements, NEW t \in Seq(Elements), NEW d,
         At(st, Append(o, FrameOf(kind, l)), <<e>> \o t, d), Len(o) < 6,
         e.kind \in {"str", "uint", "map"}, ParserStep
  PROVE  /\ todo' = t /\ reader_ok'
         /\ GoOn => open' = Append(o, FrameOf(kind, l - 1))
         /\ Leave => open' = Append(o, FrameOf(kind, 0))
         /\ \/ e.kind = "str" /\ string_element(e.s)
            \/ e.kind = "uint" /\ uint_element(e.n)
            \/ e.kind = "map" /\ start_map_or_array(e)
<1>1. open = Append(o, FrameOf(kind, l)) /\ todo = <<e>> \o t /\ reader_ok /\ ~past
  BY DEF At
<1>2. /\ open # <<>> /\ Len(open) = Len(o) + 1 /\ Top = FrameOf(kind, l)
      /\ NoneLeft(open) = Append(o, FrameOf(kind, 0))
      /\ OneLess(open) = Append(o, FrameOf(kind, l - 1))
  <2>0. l \in Nat /\ l > 0
    OBVIOUS
  <2>1. open # <<>> /\ Len(open) = Len(o) + 1 /\ open[Len(open)] = FrameOf(kind, l)
    BY <1>1, <2>0, TopFrame
  <2>2. NoneLeft(open) = Append(o, FrameOf(kind, 0))
    BY <1>1, <2>0, TopLeft
  <2>3. OneLess(open) = Append(o, FrameOf(kind, l - 1))
    BY <1>1, TopGoesOn
  <2> QED BY <2>1, <2>2, <2>3, Zenon DEF Top
<1>3. todo # <<>> /\ Head(todo) = e /\ Tail(todo) = t
  BY <1>1, NextElement
<1>4. ~ReaderFails
  <2>1. Len(open) <= MAX_DEPTH /\ ~(Len(open) > MAX_DEPTH)
    BY <1>2, DepthFollowed, LenProperties
  <2> QED BY <1>3, <2>1 DEF ReaderFails
<1>5. ~FinishElement
  <2>1. Top.left # 0
    BY <1>2 DEF FrameOf
  <2> QED BY <1>1, <2>1 DEF FinishElement
<1>6. parse_element
  BY <1>4, <1>5 DEF ParserStep
<1>7. todo' = t /\ reader_ok'
  BY <1>1, <1>3, <1>6 DEF parse_element
<1>8. \/ e.kind = "str" /\ string_element(e.s)
      \/ e.kind = "uint" /\ uint_element(e.n)
      \/ e.kind = "map" /\ start_map_or_array(e)
  BY <1>3, <1>6 DEF parse_element, start_map_or_array
<1>9. GoOn <=> open' = OneLess(open)
  BY Zenon DEF GoOn, OneLess
<1>10. Leave <=> open' = NoneLeft(open)
  BY Zenon DEF Leave, NoneLeft
<1> QED BY <1>2, <1>7, <1>8, <1>9, <1>10

(* A key leads from a step to one other. *)
LEMMA KeysAreSteps ==
  \A s, t \in KeyLeadsTo : s[1] = t[1] /\ s[2] = t[2] => s[3] = t[3]
BY DEF KeyLeadsTo

(* A string *)
LEMMA StringIsRead ==
  ASSUME NEW st, NEW key \in Text, NEW o \in Seq(Frame), NEW l \in Nat \ {0},
         NEW t \in Seq(Elements), NEW d,
         At(st, Append(o, Pairs(l)), <<Str(key)>> \o t, d), Len(o) < 6, ParserStep
  PROVE  /\ todo' = t /\ reader_ok' /\ string_element(key)
         /\ m_parsing_account_step = st /\ account = d /\ ~past
         /\ GoOn => open' = Append(o, Pairs(l - 1))
         /\ Leave => open' = Append(o, Pairs(0))
<1> DEFINE e == Str(key)
<1>1. e \in Elements /\ e.kind = "str" /\ e.s = key /\ e.kind \in {"str", "uint", "map"}
  BY ElementTypes DEF Str, Element
<1>2. /\ At(st, Append(o, FrameOf("map", l)), <<e>> \o t, d) /\ "map" \in FrameKinds
      /\ m_parsing_account_step = st /\ account = d /\ ~past
  BY DEF At, Pairs, FrameKinds
<1> HIDE DEF e
<1>3. /\ todo' = t /\ reader_ok'
      /\ GoOn => open' = Append(o, FrameOf("map", l - 1))
      /\ Leave => open' = Append(o, FrameOf("map", 0))
      /\ string_element(key)
  <2>1. /\ todo' = t /\ reader_ok'
        /\ GoOn => open' = Append(o, FrameOf("map", l - 1))
        /\ Leave => open' = Append(o, FrameOf("map", 0))
        /\ \/ e.kind = "str" /\ string_element(e.s)
           \/ e.kind = "uint" /\ uint_element(e.n)
           \/ e.kind = "map" /\ start_map_or_array(e)
    BY <1>1, <1>2, NextIsRead
  <2> QED BY <1>1, <2>1
<1> QED BY <1>2, <1>3 DEF Pairs

(* A key the parser knows *)
LEMMA KeyRead ==
  ASSUME NEW st, NEW key \in Text, NEW to, <<st, key, to>> \in KeyLeadsTo,
         NEW o \in Seq(Frame), NEW l \in Nat \ {0}, NEW t \in Seq(Elements), NEW d,
         At(st, Append(o, Pairs(l)), <<Str(key)>> \o t, d), Len(o) < 6, ParserStep
  PROVE  At(to, Append(o, Pairs(l - 1)), t, d)'
<1>3. /\ todo' = t /\ reader_ok' /\ string_element(key)
      /\ m_parsing_account_step = st /\ account = d /\ ~past
      /\ (GoOn => open' = Append(o, Pairs(l - 1)))
  BY StringIsRead
<1>4. Known(key) /\ st # "APP_KV"
  <2>1. st # "APP_KV"
    BY DEF KeyLeadsTo
  <2>2. LET x == <<st, key, to>> IN x \in KeyLeadsTo /\ x[1] = st /\ x[2] = key
    OBVIOUS
  <2> QED BY <1>3, <2>1, <2>2 DEF Known
<1>5. KnownKey(key)
  BY <1>3, <1>4
     DEF string_element, UnknownKey, NameStored, NameStoredPastTheArray, StringIgnored
<1>6. GoOn /\ account' = d /\ ~past'
  BY <1>3, <1>5 DEF KnownKey
<1>7. m_parsing_account_step' = to
  <2>1. PICK x \in KeyLeadsTo : x[1] = st /\ x[2] = key /\ m_parsing_account_step' = x[3]
    BY <1>3, <1>5 DEF KnownKey
  <2> DEFINE y == <<st, key, to>>
  <2>2. y \in KeyLeadsTo /\ y[1] = st /\ y[2] = key /\ y[3] = to
    OBVIOUS
  <2> HIDE DEF y
  <2> QED BY <2>1, <2>2, KeysAreSteps
<1> QED BY <1>3, <1>6, <1>7 DEF At

(* A map is opened, by a map or by the call itself. *)
LEMMA MapRead ==
  ASSUME NEW st, NEW o \in Seq(Frame), NEW kind \in FrameKinds, NEW l \in Nat \ {0}, NEW n \in Nat,
         NEW t \in Seq(Elements), NEW d,
         At(st, Append(o, FrameOf(kind, l)), <<Map(n)>> \o t, d), Len(o) < 6, ParserStep
  PROVE  At(st, Append(Append(o, FrameOf(kind, l - 1)), Pairs(2 * n)), t, d)'
<1> DEFINE e == Map(n)
<1>1. e \in Elements /\ e.kind = "map" /\ e.n = n /\ e.kind \in {"str", "uint", "map"}
  BY ElementTypes DEF Map, Element
<1>2. /\ At(st, Append(o, FrameOf(kind, l)), <<e>> \o t, d)
      /\ m_parsing_account_step = st /\ account = d /\ ~past
  BY DEF At
<1> HIDE DEF e
<1>3. todo' = t /\ reader_ok' /\ start_map_or_array(e)
  BY <1>1, <1>2, NextIsRead
<1>4. Opened("map", 2 * n) = Append(Append(o, FrameOf(kind, l - 1)), Pairs(2 * n))
  BY <1>2, MapOpened DEF At
<1> QED BY <1>1, <1>2, <1>3, <1>4 DEF At, start_map_or_array

(* A number *)
LEMMA NumberIsRead ==
  ASSUME NEW st, NEW o \in Seq(Frame), NEW l \in Nat \ {0}, NEW n \in Nat,
         NEW t \in Seq(Elements), NEW d,
         At(st, Append(o, Pairs(l)), <<UInt(n)>> \o t, d), Len(o) < 6, ParserStep
  PROVE  /\ todo' = t /\ reader_ok' /\ uint_element(n)
         /\ m_parsing_account_step = st /\ account = d /\ ~past
         /\ GoOn => open' = Append(o, Pairs(l - 1))
         /\ Leave => open' = Append(o, Pairs(0))
<1> DEFINE e == UInt(n)
<1>1. e \in Elements /\ e.kind = "uint" /\ e.n = n /\ e.kind \in {"str", "uint", "map"}
  BY ElementTypes DEF UInt, Element
<1>2. /\ At(st, Append(o, FrameOf("map", l)), <<e>> \o t, d) /\ "map" \in FrameKinds
      /\ m_parsing_account_step = st /\ account = d /\ ~past
  BY DEF At, Pairs, FrameKinds
<1> HIDE DEF e
<1>3. /\ todo' = t /\ reader_ok'
      /\ GoOn => open' = Append(o, FrameOf("map", l - 1))
      /\ Leave => open' = Append(o, FrameOf("map", 0))
      /\ uint_element(n)
  <2>1. /\ todo' = t /\ reader_ok'
        /\ GoOn => open' = Append(o, FrameOf("map", l - 1))
        /\ Leave => open' = Append(o, FrameOf("map", 0))
        /\ \/ e.kind = "str" /\ string_element(e.s)
           \/ e.kind = "uint" /\ uint_element(e.n)
           \/ e.kind = "map" /\ start_map_or_array(e)
    BY <1>1, <1>2, NextIsRead
  <2> QED BY <1>1, <2>1
<1> QED BY <1>2, <1>3 DEF Pairs

(***************************************************************************)
(* What the callbacks write to an account, field by field                  *)
(***************************************************************************)
Slot(d) == d.apps_local[d.app_idx]
Variable(d) == Slot(d).count
AmountSet(d, n) == [d EXCEPT !.amount = n]
IdSet(d, n) == [d EXCEPT !.apps_local[d.app_idx].app_id = n]
NameSet(d, s) == [d EXCEPT !.apps_local[d.app_idx].values[Variable(d)].name = s]
TypeSet(d, n) == [d EXCEPT !.apps_local[d.app_idx].values[Variable(d)].type = n]
ValueSet(d, n) == [d EXCEPT !.apps_local[d.app_idx].values[Variable(d)].value = n]
VariableDone(d) == [d EXCEPT !.apps_local[d.app_idx].count = @ + 1]
AppDone(d) == [d EXCEPT !.app_idx = @ + 1]

SlotSet(d, app) == [d EXCEPT !.apps_local[d.app_idx] = app]
ValuesSet(app, f) == [app EXCEPT !.values = f]
IdOf(app, n) == [app EXCEPT !.app_id = n]
CountOf(app, n) == [app EXCEPT !.count = n]
Put(f, n, v) == [f EXCEPT ![n] = v]
Renamed(v, s) == [v EXCEPT !.name = s]
Retyped(v, n) == [v EXCEPT !.type = n]
Revalued(v, n) == [v EXCEPT !.value = n]

(* An account with one application replaced, and an application of which   *)
(* some variables were read and the fields v of the next one.              *)
DetailsOf(amount, rewards, base, idx, apps) ==
  [amount |-> amount, rewards |-> rewards, reward_base |-> base, app_idx |-> idx,
    apps_local |-> apps]
AppOf(id, count, values) == [app_id |-> id, count |-> count, values |-> values]
Kv(s, type, value) == [name |-> s, type |-> type, value |-> value]
With(b, app) == DetailsOf(b.amount, b.rewards, b.reward_base, b.app_idx,
  Put(b.apps_local, b.app_idx, app))
Values(x, n, v) ==
  [k \in 0 .. APPS_KV_MAX_COUNT - 1 |->
     IF k < n THEN x.variables[k + 1] ELSE IF k = n THEN v ELSE NoKeyValue]
Rec(x, n, v) == AppOf(x.id, n, Values(x, n, v))
HasRoom(b) ==
  /\ DOMAIN b.apps_local = 0 .. APPS_MAX_COUNT - 1 /\ b.app_idx \in 0 .. APPS_MAX_COUNT - 1

(* Records, written and read *)
LEMMA KvFields ==
  \A s, t, v, u : /\ Renamed(Kv(s, t, v), u) = Kv(u, t, v)
                  /\ Retyped(Kv(s, t, v), u) = Kv(s, u, v)
                  /\ Revalued(Kv(s, t, v), u) = Kv(s, t, u)
<1> TAKE s, t, v, u
<1>1. Renamed(Kv(s, t, v), u) = Kv(u, t, v)
  BY DEF Renamed, Kv
<1>2. Retyped(Kv(s, t, v), u) = Kv(s, u, v)
  BY DEF Retyped, Kv
<1>3. Revalued(Kv(s, t, v), u) = Kv(s, t, u)
  BY DEF Revalued, Kv
<1> QED BY <1>1, <1>2, <1>3

(* An application's id and count are set. *)
LEMMA AppFieldsSet ==
  \A i, c, f, u : /\ IdOf(AppOf(i, c, f), u) = AppOf(u, c, f)
                  /\ CountOf(AppOf(i, c, f), u) = AppOf(i, u, f)
                  /\ ValuesSet(AppOf(i, c, f), u) = AppOf(i, c, u)
                  /\ AppOf(i, c, f).count = c /\ AppOf(i, c, f).values = f
<1> TAKE i, c, f, u
<1>1. IdOf(AppOf(i, c, f), u) = AppOf(u, c, f)
  BY DEF IdOf, AppOf
<1>2. CountOf(AppOf(i, c, f), u) = AppOf(i, u, f)
  BY DEF CountOf, AppOf
<1>3. ValuesSet(AppOf(i, c, f), u) = AppOf(i, c, u)
  BY DEF ValuesSet, AppOf
<1>4. AppOf(i, c, f).count = c /\ AppOf(i, c, f).values = f
  BY DEF AppOf
<1> QED BY <1>1, <1>2, <1>3, <1>4

(* The fields of an account *)
LEMMA DetailsFields ==
  \A m, r, e, i, f :
    LET d == DetailsOf(m, r, e, i, f) IN
    d.amount = m /\ d.rewards = r /\ d.reward_base = e /\ d.app_idx = i /\ d.apps_local = f
BY DEF DetailsOf

(* The slot of an account with an application, and the slot set again *)
LEMMA PutAgain ==
  ASSUME NEW f, NEW n \in DOMAIN f, NEW u, NEW v
  PROVE  Put(f, n, u)[n] = u /\ Put(Put(f, n, u), n, v) = Put(f, n, v)
BY DEF Put

(* The application that was put in the slot is in it. *)
LEMMA SlotOfWith ==
  ASSUME NEW b, HasRoom(b), NEW app, NEW w, w = With(b, app)
  PROVE  Slot(w) = app
<1>1. w.app_idx = b.app_idx /\ w.apps_local = Put(b.apps_local, b.app_idx, app)
  BY DetailsFields DEF With
<1>2. Put(b.apps_local, b.app_idx, app)[b.app_idx] = app
  <2>1. b.app_idx \in DOMAIN b.apps_local
    BY DEF HasRoom
  <2> QED BY <2>1, PutAgain
<1> QED BY <1>1, <1>2 DEF Slot

(* The last application put in the slot is the one that stays. *)
LEMMA WithAgain ==
  ASSUME NEW b, HasRoom(b), NEW app, NEW f, NEW w, w = With(b, app)
  PROVE  SlotSet(w, f) = With(b, f)
<1> DEFINE g == Put(b.apps_local, b.app_idx, app)
           h == Put(b.apps_local, b.app_idx, f)
<1>1. w.app_idx = b.app_idx /\ w.apps_local = g
  BY DetailsFields DEF With
<1>2. Put(g, b.app_idx, f) = h
  <2>1. b.app_idx \in DOMAIN b.apps_local
    BY DEF HasRoom
  <2> QED BY <2>1, PutAgain
<1>3. SlotSet(w, f) = [w EXCEPT !.apps_local = Put(w.apps_local, w.app_idx, f)]
  BY DEF SlotSet, Put
<1> HIDE DEF g, h
<1>4. w = DetailsOf(b.amount, b.rewards, b.reward_base, b.app_idx, g)
  BY DEF With, g
<1>5. [DetailsOf(b.amount, b.rewards, b.reward_base, b.app_idx, g) EXCEPT !.apps_local = h]
        = DetailsOf(b.amount, b.rewards, b.reward_base, b.app_idx, h)
  BY DEF DetailsOf
<1> QED BY <1>1, <1>2, <1>3, <1>4, <1>5, Zenon DEF With, h

(* The values of an application, and another for the variable being read *)
LEMMA ValuesAgain ==
  ASSUME NEW x, NEW n \in 0 .. APPS_KV_MAX_COUNT - 1, NEW v, NEW u
  PROVE  Values(x, n, v)[n] = v /\ Put(Values(x, n, v), n, u) = Values(x, n, u)
<1> DEFINE g == Put(Values(x, n, v), n, u)
           h == Values(x, n, u)
<1>1. Values(x, n, v)[n] = v
  BY DEF Values
<1>2. DOMAIN g = 0 .. APPS_KV_MAX_COUNT - 1 /\ DOMAIN h = 0 .. APPS_KV_MAX_COUNT - 1
  BY DEF Values, Put
<1>3. \A k \in 0 .. APPS_KV_MAX_COUNT - 1 : g[k] = h[k]
  BY DEF Values, Put
<1>4. g = [k \in DOMAIN g |-> g[k]] /\ h = [k \in DOMAIN h |-> h[k]]
  BY DEF Values, Put
<1> HIDE DEF g, h
<1>5. g = h
  BY <1>2, <1>3, <1>4
<1> QED BY <1>1, <1>5 DEF g, h

(* The value of the variable that is being read is set. *)
Written(w, u) == SlotSet(w, ValuesSet(Slot(w), Put(Slot(w).values, Variable(w), u)))

(* The variable being read is the one that is replaced. *)
LEMMA VariableWritten ==
  ASSUME NEW b, HasRoom(b), NEW x, NEW n \in 0 .. APPS_KV_MAX_COUNT - 1, NEW v, NEW u, NEW w,
         w = With(b, Rec(x, n, v))
  PROVE  Slot(w).values[Variable(w)] = v /\ Written(w, u) = With(b, Rec(x, n, u))
<1>1. Slot(w) = Rec(x, n, v)
  BY SlotOfWith
<1>2. Slot(w).count = n /\ Slot(w).values = Values(x, n, v)
  BY <1>1, AppFieldsSet DEF Rec
<1>3. Values(x, n, v)[n] = v /\ Put(Values(x, n, v), n, u) = Values(x, n, u)
  BY ValuesAgain
<1>4. ValuesSet(Rec(x, n, v), Values(x, n, u)) = Rec(x, n, u)
  BY AppFieldsSet DEF Rec
<1>5. SlotSet(w, Rec(x, n, u)) = With(b, Rec(x, n, u))
  BY WithAgain
<1> QED BY <1>1, <1>2, <1>3, <1>4, <1>5, Zenon DEF Variable, Written

(* A name, a type and a value are written to that variable. *)
LEMMA WritesAreWritten ==
  ASSUME NEW w
  PROVE  /\ \A s : NameSet(w, s) = Written(w, Renamed(Slot(w).values[Variable(w)], s))
         /\ \A n : TypeSet(w, n) = Written(w, Retyped(Slot(w).values[Variable(w)], n))
         /\ \A n : ValueSet(w, n) = Written(w, Revalued(Slot(w).values[Variable(w)], n))
<1>1. \A s : NameSet(w, s) = Written(w, Renamed(Slot(w).values[Variable(w)], s))
  BY DEF NameSet, Written, SlotSet, ValuesSet, Put, Renamed, Slot, Variable
<1>2. \A n : TypeSet(w, n) = Written(w, Retyped(Slot(w).values[Variable(w)], n))
  BY DEF TypeSet, Written, SlotSet, ValuesSet, Put, Retyped, Slot, Variable
<1>3. \A n : ValueSet(w, n) = Written(w, Revalued(Slot(w).values[Variable(w)], n))
  BY DEF ValueSet, Written, SlotSet, ValuesSet, Put, Revalued, Slot, Variable
<1> QED BY <1>1, <1>2, <1>3

(* Each of them leaves the others. *)
LEMMA VariableFieldsSet ==
  ASSUME NEW b, HasRoom(b), NEW x, NEW n \in 0 .. APPS_KV_MAX_COUNT - 1
  PROVE  \A s, type, value, u :
           LET w == With(b, Rec(x, n, Kv(s, type, value))) IN
           /\ NameSet(w, u) = With(b, Rec(x, n, Kv(u, type, value)))
           /\ TypeSet(w, u) = With(b, Rec(x, n, Kv(s, u, value)))
           /\ ValueSet(w, u) = With(b, Rec(x, n, Kv(s, type, u)))
<1>1. ASSUME NEW s, NEW type, NEW value, NEW w, w = With(b, Rec(x, n, Kv(s, type, value)))
      PROVE  \A u : /\ NameSet(w, u) = With(b, Rec(x, n, Kv(u, type, value)))
                    /\ TypeSet(w, u) = With(b, Rec(x, n, Kv(s, u, value)))
                    /\ ValueSet(w, u) = With(b, Rec(x, n, Kv(s, type, u)))
  <2>1. Slot(w).values[Variable(w)] = Kv(s, type, value)
        /\ \A v : Written(w, v) = With(b, Rec(x, n, v))
    BY <1>1, VariableWritten
  <2>2. ASSUME NEW u PROVE NameSet(w, u) = With(b, Rec(x, n, Kv(u, type, value)))
    BY <2>1, WritesAreWritten, KvFields
  <2>3. ASSUME NEW u PROVE TypeSet(w, u) = With(b, Rec(x, n, Kv(s, u, value)))
    BY <2>1, WritesAreWritten, KvFields
  <2>4. ASSUME NEW u PROVE ValueSet(w, u) = With(b, Rec(x, n, Kv(s, type, u)))
    BY <2>1, WritesAreWritten, KvFields
  <2> QED BY <2>2, <2>3, <2>4
<1> QED BY <1>1

(* A variable of which nothing was read *)
LEMMA NothingYet == NoKeyValue = Kv("", 0, 0)
BY DEF NoKeyValue, Kv

(* The next variable *)
LEMMA VariableCounted ==
  ASSUME NEW b, HasRoom(b), NEW x, NEW n \in 0 .. APPS_KV_MAX_COUNT - 1, NEW v,
           v = x.variables[n + 1]
  PROVE  VariableDone(With(b, Rec(x, n, v))) = With(b, Rec(x, n + 1, NoKeyValue))
<1> DEFINE w == With(b, Rec(x, n, v))
           f == Values(x, n, x.variables[n + 1])
           g == Values(x, n + 1, NoKeyValue)
<1>1. f = g
  <2>1. \A k \in 0 .. APPS_KV_MAX_COUNT - 1 : f[k] = g[k]
    BY DEF Values
  <2>2. /\ DOMAIN f = 0 .. APPS_KV_MAX_COUNT - 1 /\ DOMAIN g = 0 .. APPS_KV_MAX_COUNT - 1
        /\ f = [k \in DOMAIN f |-> f[k]] /\ g = [k \in DOMAIN g |-> g[k]]
    BY DEF Values
  <2> HIDE DEF f, g
  <2> QED BY <2>1, <2>2
<1> HIDE DEF f, g
<1>2. Slot(w) = AppOf(x.id, n, f)
  BY SlotOfWith DEF Rec, f
<1>3. Slot(w).count = n /\ CountOf(AppOf(x.id, n, f), n + 1) = AppOf(x.id, n + 1, f)
  BY <1>2, AppFieldsSet
<1>4. VariableDone(w) = SlotSet(w, CountOf(Slot(w), Slot(w).count + 1))
  BY DEF VariableDone, SlotSet, CountOf, Slot
<1>5. SlotSet(w, AppOf(x.id, n + 1, g)) = With(b, AppOf(x.id, n + 1, g))
  BY WithAgain
<1>6. VariableDone(w) = With(b, AppOf(x.id, n + 1, g))
  BY <1>1, <1>2, <1>3, <1>4, <1>5, Zenon
<1> QED BY <1>6 DEF Rec, g

(* When all variables were read, the application is recorded. *)
LEMMA AllVariablesCounted ==
  ASSUME NEW x \in App, Len(x.variables) <= APPS_KV_MAX_COUNT
  PROVE  Rec(x, Len(x.variables), NoKeyValue) = AppRecord(x)
<1>1. Len(x.variables) \in Nat
  BY LenProperties DEF App
<1> QED BY <1>1 DEF Rec, AppOf, Values, AppRecord

(***************************************************************************)
(* The applications of an answer that were stored                          *)
(***************************************************************************)
NewAmount(a, d) == IF a.amount = 0 THEN d.amount ELSE AsInt32(a.amount)
AppsKept(a, d, n) ==
  [j \in 0 .. APPS_MAX_COUNT - 1 |->
     IF j < d.app_idx THEN d.apps_local[j]
     ELSE IF j < d.app_idx + n THEN AppRecord(a.apps[j - d.app_idx + 1]) ELSE NoApp]
Stored(a, d, n) ==
  DetailsOf(NewAmount(a, d), d.rewards, d.reward_base, d.app_idx + n, AppsKept(a, d, n))
(* An account with room for applications from app_idx on *)
Fresh(d) ==
  /\ d \in AccountDetails /\ d.app_idx \in 0 .. APPS_MAX_COUNT
  /\ \A j \in d.app_idx .. APPS_MAX_COUNT - 1 : d.apps_local[j] = NoApp

(* The slot after the stored applications is empty. *)
LEMMA StoredHasRoom ==
  ASSUME NEW a, NEW d, Fresh(d), NEW n \in Nat, d.app_idx + n < APPS_MAX_COUNT
  PROVE  HasRoom(Stored(a, d, n)) /\ Slot(Stored(a, d, n)) = NoApp
<1> DEFINE b == Stored(a, d, n)
           i == d.app_idx + n
<1>1. b.app_idx = i /\ b.apps_local = AppsKept(a, d, n)
  BY DetailsFields DEF Stored
<1>2. i \in 0 .. APPS_MAX_COUNT - 1 /\ ~(i < d.app_idx) /\ ~(i < d.app_idx + n)
  BY DEF Fresh
<1>3. DOMAIN AppsKept(a, d, n) = 0 .. APPS_MAX_COUNT - 1 /\ AppsKept(a, d, n)[i] = NoApp
  BY <1>2 DEF AppsKept
<1> QED BY <1>1, <1>2, <1>3 DEF HasRoom, Slot

(* Its id is written to it. *)
LEMMA AppIdWritten ==
  ASSUME NEW a, NEW d, Fresh(d), NEW n \in Nat, d.app_idx + n < APPS_MAX_COUNT, NEW x,
         NEW b, b = Stored(a, d, n)
  PROVE  IdSet(b, x.id) = With(b, Rec(x, 0, NoKeyValue))
<1>1. HasRoom(b) /\ Slot(b) = NoApp
  BY StoredHasRoom
<1>2. NoApp = AppOf(0, 0, Values(x, 0, NoKeyValue))
  BY DEF NoApp, AppOf, Values
<1>3. IdOf(NoApp, x.id) = Rec(x, 0, NoKeyValue)
  BY <1>2, AppFieldsSet DEF Rec
<1>4. IdSet(b, x.id) = SlotSet(b, IdOf(Slot(b), x.id))
  BY DEF IdSet, SlotSet, IdOf, Slot
<1>5. ASSUME NEW app PROVE SlotSet(b, app) = With(b, app)
  <2> DEFINE f == b.apps_local
             g == Put(f, b.app_idx, app)
  <2>1. SlotSet(b, app) = [b EXCEPT !.apps_local = g]
    BY DEF SlotSet, Put
  <2>2. b = DetailsOf(b.amount, b.rewards, b.reward_base, b.app_idx, f)
    BY DetailsFields DEF Stored
  <2> HIDE DEF f, g
  <2>3. [DetailsOf(b.amount, b.rewards, b.reward_base, b.app_idx, f) EXCEPT !.apps_local = g]
          = DetailsOf(b.amount, b.rewards, b.reward_base, b.app_idx, g)
    BY DEF DetailsOf
  <2> QED BY <2>1, <2>2, <2>3, Zenon DEF With, f, g
<1> QED BY <1>1, <1>3, <1>4, <1>5

(* The index goes on when the application is recorded: one more is stored. *)
LEMMA AppStored ==
  ASSUME NEW a, NEW d, Fresh(d), NEW n \in Nat, d.app_idx + n < APPS_MAX_COUNT,
         NEW b, b = Stored(a, d, n)
  PROVE  AppDone(With(b, AppRecord(a.apps[n + 1]))) = Stored(a, d, n + 1)
<1> DEFINE f == Put(AppsKept(a, d, n), d.app_idx + n, AppRecord(a.apps[n + 1]))
           g == AppsKept(a, d, n + 1)
           m == NewAmount(a, d)
<1>1. f = g
  <2>1. \A j \in 0 .. APPS_MAX_COUNT - 1 : f[j] = g[j]
    <3> DEFINE i == d.app_idx + n
    <3>1. d.app_idx \in Nat /\ i \in Nat /\ i + 1 = d.app_idx + (n + 1) /\ i - d.app_idx + 1 = n + 1
      BY DEF Fresh
    <3>2. f[i] = AppRecord(a.apps[n + 1]) /\ g[i] = AppRecord(a.apps[n + 1])
      BY <3>1 DEF AppsKept, Put
    <3> HIDE DEF i
    <3>3. ASSUME NEW j \in 0 .. APPS_MAX_COUNT - 1, j # i
          PROVE  f[j] = g[j]
      <4>1. f[j] = AppsKept(a, d, n)[j]
        BY <3>3 DEF AppsKept, Put, i
      <4>2. d.app_idx + n = i /\ (j < i <=> j < i + 1)
        BY <3>1, <3>3 DEF i
      <4> QED BY <3>1, <4>1, <4>2 DEF AppsKept
    <3> QED BY <3>2, <3>3
  <2>2. /\ DOMAIN f = 0 .. APPS_MAX_COUNT - 1 /\ DOMAIN g = 0 .. APPS_MAX_COUNT - 1
        /\ f = [k \in DOMAIN f |-> f[k]] /\ g = [k \in DOMAIN g |-> g[k]]
    BY DEF AppsKept, Put
  <2> HIDE DEF f, g
  <2> QED BY <2>1, <2>2
<1>2. With(b, AppRecord(a.apps[n + 1])) = DetailsOf(m, d.rewards, d.reward_base, d.app_idx + n, f)
  BY DetailsFields DEF With, Stored
<1> HIDE DEF f, g, m
<1>3. AppDone(DetailsOf(m, d.rewards, d.reward_base, d.app_idx + n, f))
        = DetailsOf(m, d.rewards, d.reward_base, d.app_idx + n + 1, f)
  BY DEF AppDone, DetailsOf
<1>4. d.app_idx + n + 1 = d.app_idx + (n + 1)
  BY DEF Fresh
<1> QED BY <1>1, <1>2, <1>3, <1>4 DEF Stored, g, m

(* Before the applications there is at most a new amount. *)
LEMMA NothingStored ==
  ASSUME NEW a, NEW d, Fresh(d)
  PROVE  /\ a.amount = 0 => Stored(a, d, 0) = d
         /\ a.amount # 0 => AmountSet(d, AsInt32(a.amount)) = Stored(a, d, 0)
<1> DEFINE f == AppsKept(a, d, 0)
           g == d.apps_local
<1>1. d \in AccountDetails /\ d.app_idx \in Nat /\ g \in [0 .. APPS_MAX_COUNT - 1 -> AppsLocal]
  BY DEF Fresh, AccountDetails
<1>2. f = g
  <2>1. \A j \in 0 .. APPS_MAX_COUNT - 1 : f[j] = g[j]
    BY DEF AppsKept, Fresh
  <2>2. /\ DOMAIN f = 0 .. APPS_MAX_COUNT - 1 /\ DOMAIN g = 0 .. APPS_MAX_COUNT - 1
        /\ f = [k \in DOMAIN f |-> f[k]] /\ g = [k \in DOMAIN g |-> g[k]]
    BY <1>1 DEF AppsKept
  <2> HIDE DEF f, g
  <2> QED BY <2>1, <2>2
<1>3. d = DetailsOf(d.amount, d.rewards, d.reward_base, d.app_idx, g)
  BY <1>1 DEF AccountDetails, DetailsOf
<1> HIDE DEF f, g
<1>4. Stored(a, d, 0) = DetailsOf(NewAmount(a, d), d.rewards, d.reward_base, d.app_idx, g)
  BY <1>1, <1>2 DEF Stored, f
<1>5. ASSUME NEW m
      PROVE  AmountSet(DetailsOf(d.amount, d.rewards, d.reward_base, d.app_idx, g), m)
               = DetailsOf(m, d.rewards, d.reward_base, d.app_idx, g)
  BY DEF AmountSet, DetailsOf
<1> QED BY <1>3, <1>4, <1>5, Zenon DEF NewAmount

(* A map's last pair was read, or its loop was left. *)
LEMMA MapEnds ==
  ASSUME NEW st, NEW o \in Seq(Frame), o # <<>>, NEW t, NEW d,
         At(st, Append(o, Pairs(0)), t, d), ParserStep
  PROVE  /\ st = "APP_KV_VAR" =>
              At("APP_KV", o, t, VariableDone(d))'
         /\ st \in {"APP_KV", "APP_SCH"} => At("APPL_ID", o, t, d)'
         /\ st = "APPL_ID" => At("APPL", o, t, AppDone(d))'
         /\ st \notin {"APP_KV_VAR", "APP_KV", "APP_SCH", "APPL_ID"} => At("ROOT", o, t, d)'
<1>1. open = Append(o, FrameOf("map", 0)) /\ todo = t /\ reader_ok /\ ~past /\ account = d
      /\ m_parsing_account_step = st /\ "map" \in FrameKinds /\ 0 \in Nat
  BY DEF At, Pairs, FrameKinds
<1>2. Top = FrameOf("map", 0) /\ SubSeq(open, 1, Len(open) - 1) = o
  BY <1>1, TopFrame DEF Top
<1>3. Top.left = 0 /\ Top.kind = "map"
  BY <1>2 DEF FrameOf
<1>4. FinishElement
  BY <1>3 DEF ParserStep, parse_element, ReaderFails, Reads
<1>5. open' = o /\ todo' = t /\ reader_ok' /\ ~past' /\ finish_map
  BY <1>1, <1>2, <1>3, <1>4 DEF FinishElement
<1>6. /\ st = "APP_KV_VAR" => m_parsing_account_step' = "APP_KV" /\ account' = VariableDone(d)
      /\ st \in {"APP_KV", "APP_SCH"} => m_parsing_account_step' = "APPL_ID" /\ account' = d
      /\ st = "APPL_ID" => m_parsing_account_step' = "APPL" /\ account' = AppDone(d)
      /\ st \notin {"APP_KV_VAR", "APP_KV", "APP_SCH", "APPL_ID"} =>
           m_parsing_account_step' = "ROOT" /\ account' = d
  BY <1>1, <1>5 DEF finish_map, VariableDone, AppDone
<1> QED BY <1>5, <1>6 DEF At

(* The amount *)
LEMMA AmountRead ==
  ASSUME NEW n \in Nat, NEW o \in Seq(Frame), NEW l \in Nat \ {0}, NEW t \in Seq(Elements), NEW d,
         At("ALGO", Append(o, Pairs(l)), <<UInt(n)>> \o t, d), Len(o) < 6, ParserStep
  PROVE  At("ROOT", Append(o, Pairs(l - 1)), t, AmountSet(d, AsInt32(n)))'
<1>1. /\ todo' = t /\ reader_ok' /\ uint_element(n)
      /\ m_parsing_account_step = "ALGO" /\ account = d /\ ~past
      /\ GoOn => open' = Append(o, Pairs(l - 1))
      /\ Leave => open' = Append(o, Pairs(0))
  BY NumberIsRead
<1>2. NumberRead(n)
  BY <1>1 DEF uint_element, AppStarts, AppRefused, VariableRead, SchemaRead, NumberIgnored
<1>3. account' = AmountSet(d, AsInt32(n)) /\ m_parsing_account_step' = "ROOT" /\ GoOn
        /\ past' = past
  BY <1>1, <1>2 DEF NumberRead, AmountSet
<1> QED BY <1>1, <1>3 DEF At

(* An application for which there is room *)
LEMMA AppIdRead ==
  ASSUME NEW n \in Nat, NEW o \in Seq(Frame), NEW l \in Nat \ {0}, NEW t \in Seq(Elements), NEW d,
         At("APPL", Append(o, Pairs(l)), <<UInt(n)>> \o t, d), Len(o) < 6, ParserStep,
           d.app_idx < APPS_MAX_COUNT, d.app_idx \in Nat
  PROVE  At("APPL_ID", Append(o, Pairs(l - 1)), t, IdSet(d, n))'
<1>1. /\ todo' = t /\ reader_ok' /\ uint_element(n)
      /\ m_parsing_account_step = "APPL" /\ account = d /\ ~past
      /\ GoOn => open' = Append(o, Pairs(l - 1))
      /\ Leave => open' = Append(o, Pairs(0))
  BY NumberIsRead
<1>2. AppStarts(n)
  BY <1>1 DEF uint_element, NumberRead, AppRefused, VariableRead, SchemaRead, NumberIgnored
<1>3. account' = IdSet(d, n) /\ m_parsing_account_step' = "APPL_ID" /\ GoOn /\ past' = past
  BY <1>1, <1>2 DEF AppStarts, IdSet
<1> QED BY <1>1, <1>3 DEF At

(* An application too many *)
LEMMA AppNotRead ==
  ASSUME NEW n \in Nat, NEW o \in Seq(Frame), NEW l \in Nat \ {0}, NEW t \in Seq(Elements), NEW d,
         At("APPL", Append(o, Pairs(l)), <<UInt(n)>> \o t, d), Len(o) < 6, ParserStep,
           d.app_idx = APPS_MAX_COUNT
  PROVE  At("APPL", Append(o, Pairs(0)), t, d)'
<1>1. /\ todo' = t /\ reader_ok' /\ uint_element(n)
      /\ m_parsing_account_step = "APPL" /\ account = d /\ ~past
      /\ GoOn => open' = Append(o, Pairs(l - 1))
      /\ Leave => open' = Append(o, Pairs(0))
  BY NumberIsRead
<1>2. AppRefused
  BY <1>1 DEF uint_element, NumberRead, AppStarts, VariableRead, SchemaRead, NumberIgnored
<1> QED BY <1>1, <1>2 DEF At, AppRefused

(* The type of a variable *)
LEMMA TypeRead ==
  ASSUME NEW n \in Nat, NEW o \in Seq(Frame), NEW l \in Nat \ {0}, NEW t \in Seq(Elements), NEW d,
         At("APP_KV_TYPE", Append(o, Pairs(l)), <<UInt(n)>> \o t, d), Len(o) < 6, ParserStep,
         Variable(d) \in 0 .. APPS_KV_MAX_COUNT - 1
  PROVE  At("APP_KV_VAR", Append(o, Pairs(l - 1)), t, TypeSet(d, n))'
<1>1. /\ todo' = t /\ reader_ok' /\ uint_element(n)
      /\ m_parsing_account_step = "APP_KV_TYPE" /\ account = d /\ ~past
      /\ GoOn => open' = Append(o, Pairs(l - 1))
      /\ Leave => open' = Append(o, Pairs(0))
  BY NumberIsRead
<1>2. VariableRead(n) /\ kv_idx = Variable(d)
  BY <1>1 DEF uint_element, NumberRead, AppStarts, AppRefused, SchemaRead, NumberIgnored,
              kv_idx, Variable, Slot
<1>3. ~(kv_idx > APPS_KV_MAX_COUNT) /\ kv_idx # APPS_KV_MAX_COUNT
  BY <1>2
<1>4. account' = TypeSet(d, n) /\ m_parsing_account_step' = "APP_KV_VAR" /\ GoOn /\ ~past'
  BY <1>1, <1>2, <1>3 DEF VariableRead, TypeSet
<1> QED BY <1>1, <1>4 DEF At

(* The value of a variable *)
LEMMA ValueRead ==
  ASSUME NEW n \in Nat, NEW o \in Seq(Frame), NEW l \in Nat \ {0}, NEW t \in Seq(Elements), NEW d,
         At("APP_KV_VALUE_INT", Append(o, Pairs(l)), <<UInt(n)>> \o t, d), Len(o) < 6, ParserStep,
         Variable(d) \in 0 .. APPS_KV_MAX_COUNT - 1
  PROVE  At("APP_KV_VAR", Append(o, Pairs(l - 1)), t, ValueSet(d, n))'
<1>1. /\ todo' = t /\ reader_ok' /\ uint_element(n)
      /\ m_parsing_account_step = "APP_KV_VALUE_INT" /\ account = d /\ ~past
      /\ GoOn => open' = Append(o, Pairs(l - 1))
      /\ Leave => open' = Append(o, Pairs(0))
  BY NumberIsRead
<1>2. VariableRead(n) /\ kv_idx = Variable(d)
  BY <1>1 DEF uint_element, NumberRead, AppStarts, AppRefused, SchemaRead, NumberIgnored,
              kv_idx, Variable, Slot
<1>3. ~(kv_idx > APPS_KV_MAX_COUNT) /\ kv_idx # APPS_KV_MAX_COUNT
  BY <1>2
<1>4. account' = ValueSet(d, n) /\ m_parsing_account_step' = "APP_KV_VAR" /\ GoOn /\ ~past'
  BY <1>1, <1>2, <1>3 DEF VariableRead, ValueSet
<1> QED BY <1>1, <1>4 DEF At

(* A number of a schema *)
LEMMA SchemaNumberRead ==
  ASSUME NEW n \in Nat, NEW st \in {"APP_SCH_NUI", "APP_SCH_NBS"},
         NEW o \in Seq(Frame), NEW l \in Nat \ {0}, NEW t \in Seq(Elements), NEW d,
         At(st, Append(o, Pairs(l)), <<UInt(n)>> \o t, d), Len(o) < 6, ParserStep
  PROVE  At("APP_SCH", Append(o, Pairs(l - 1)), t, d)'
<1>1. /\ todo' = t /\ reader_ok' /\ uint_element(n)
      /\ m_parsing_account_step = st /\ account = d /\ ~past
      /\ GoOn => open' = Append(o, Pairs(l - 1))
      /\ Leave => open' = Append(o, Pairs(0))
  BY NumberIsRead
<1>2. SchemaRead
  BY <1>1 DEF uint_element, NumberRead, AppStarts, AppRefused, VariableRead, NumberIgnored
<1> QED BY <1>1, <1>2 DEF At, SchemaRead

(* A number the parser does not wait for *)
LEMMA NumberSkipped ==
  ASSUME NEW n \in Nat, NEW o \in Seq(Frame), NEW l \in Nat \ {0}, NEW t \in Seq(Elements), NEW d,
         At("ROOT", Append(o, Pairs(l)), <<UInt(n)>> \o t, d), Len(o) < 6, ParserStep
  PROVE  At("ROOT", Append(o, Pairs(l - 1)), t, d)'
<1>1. /\ todo' = t /\ reader_ok' /\ uint_element(n)
      /\ m_parsing_account_step = "ROOT" /\ account = d /\ ~past
      /\ GoOn => open' = Append(o, Pairs(l - 1))
      /\ Leave => open' = Append(o, Pairs(0))
  BY NumberIsRead
<1>2. NumberIgnored
  BY <1>1 DEF uint_element, NumberRead, AppStarts, AppRefused, VariableRead, SchemaRead
<1> QED BY <1>1, <1>2 DEF At, NumberIgnored

(* A key of an application or a schema where there is none *)
LEMMA KeySkipped ==
  ASSUME NEW key \in {"hsch", "nbs", "nui", "tkv"}, NEW o \in Seq(Frame), NEW l \in Nat \ {0},
           NEW t \in Seq(Elements), NEW d,
         At("ROOT", Append(o, Pairs(l)), <<Str(key)>> \o t, d), Len(o) < 6, ParserStep
  PROVE  At("ROOT", Append(o, Pairs(0)), t, d)'
<1>0. key \in Text
  BY KeysAreText DEF Keys
<1>1. /\ todo' = t /\ reader_ok' /\ string_element(key)
      /\ m_parsing_account_step = "ROOT" /\ account = d /\ ~past
      /\ GoOn => open' = Append(o, Pairs(l - 1))
      /\ Leave => open' = Append(o, Pairs(0))
  BY <1>0, StringIsRead
<1>2. ~Known(key)
  BY <1>1 DEF Known, KeyLeadsTo
<1>3. UnknownKey(key)
  BY <1>1, <1>2 DEF string_element, KnownKey, NameStored, NameStoredPastTheArray, StringIgnored,
                    KeyNeeded, Known
<1> QED BY <1>1, <1>3 DEF At, UnknownKey

(* The name of a variable for which there is room *)
LEMMA NameRead ==
  ASSUME NEW key \in Text, NEW o \in Seq(Frame), NEW l \in Nat \ {0}, NEW t \in Seq(Elements),
           NEW d,
         At("APP_KV", Append(o, Pairs(l)), <<Str(key)>> \o t, d), Len(o) < 6, ParserStep,
         Variable(d) \in 0 .. APPS_KV_MAX_COUNT - 1
  PROVE  At("APP_KV_VAR", Append(o, Pairs(l - 1)), t, NameSet(d, key))'
<1>1. /\ todo' = t /\ reader_ok' /\ string_element(key)
      /\ m_parsing_account_step = "APP_KV" /\ account = d /\ ~past
      /\ GoOn => open' = Append(o, Pairs(l - 1))
      /\ Leave => open' = Append(o, Pairs(0))
  BY StringIsRead
<1>2. ~Known(key) /\ kv_idx = Variable(d) /\ ~(kv_idx >= APPS_KV_MAX_COUNT)
  BY <1>1 DEF Known, KeyLeadsTo, kv_idx, Variable, Slot
<1>3. NameStored(key)
  BY <1>1, <1>2 DEF string_element, KnownKey, UnknownKey, NameStoredPastTheArray, StringIgnored,
                    KeyNeeded, Known
<1>4. account' = NameSet(d, key) /\ m_parsing_account_step' = "APP_KV_VAR" /\ GoOn /\ past' = past
  BY <1>1, <1>2, <1>3 DEF NameStored, NameSet
<1> QED BY <1>1, <1>4 DEF At

(* A map in a map *)
LEMMA MapInMap ==
  ASSUME NEW st, NEW o \in Seq(Frame), NEW l \in Nat \ {0}, NEW n \in Nat,
         NEW t \in Seq(Elements), NEW d,
         At(st, Append(o, Pairs(l)), <<Map(n)>> \o t, d), Len(o) < 6, ParserStep
  PROVE  At(st, Append(Append(o, Pairs(l - 1)), Pairs(2 * n)), t, d)'
<1>1. "map" \in FrameKinds /\ Pairs(l) = FrameOf("map", l) /\ Pairs(l - 1) = FrameOf("map", l - 1)
  BY DEF FrameKinds, Pairs
<1> QED BY <1>1, MapRead

(***************************************************************************)
(* Where the parser is in the encoding of an application                   *)
(***************************************************************************)
LEMMA FramesGrow ==
  ASSUME NEW o \in Seq(Frame), NEW n \in Nat
  PROVE  /\ Append(o, Pairs(n)) \in Seq(Frame) /\ Append(o, Pairs(n)) # <<>>
         /\ Len(Append(o, Pairs(n))) = Len(o) + 1 /\ Len(o) \in Nat
<1>1. Pairs(n) \in Frame
  BY FramesAreFrames
<1> QED BY <1>1, AppendProperties, LenProperties

(* In the q-th variable of x: before its map, before the key of its type,  *)
(* before its type, after it, before its value, and at the end of the map  *)
TypeAndValue(v, t) == <<Str("tt")>> \o (<<UInt(2)>> \o (ValuePart(v) \o t))
InVariable(o, t, b, x, q) ==
  LET v == x.variables[q]
      u == One(v.value # 0)
      more == 2 * (Len(x.variables) - q)
      inner == Append(o, Pairs(more))
      named == With(b, Rec(x, q - 1, Kv(v.name, 0, 0)))
      typed == With(b, Rec(x, q - 1, Kv(v.name, 2, 0)))
  IN
  \/ At("APP_KV_VAR", Append(o, Pairs(more + 1)), <<Map(1 + u)>> \o TypeAndValue(v, t), named)
  \/ At("APP_KV_VAR", Append(inner, Pairs(2 * (1 + u))), TypeAndValue(v, t), named)
  \/ At("APP_KV_TYPE", Append(inner, Pairs(2 * u + 1)), <<UInt(2)>> \o (ValuePart(v) \o t), named)
  \/ At("APP_KV_VAR", Append(inner, Pairs(2 * u)), ValuePart(v) \o t, typed)
  \/ v.value # 0 /\ At("APP_KV_VALUE_INT", Append(inner, Pairs(1)), <<UInt(v.value)>> \o t, typed)
  \/ At("APP_KV_VAR", Append(inner, Pairs(0)), t, With(b, Rec(x, q - 1, v)))

(* A step in a variable leads to another of its places, or to the next variable. *)
LEMMA VariableStep ==
  ASSUME NEW o \in Seq(Frame), Len(o) < 5, NEW t \in Seq(Elements), NEW b, HasRoom(b),
         NEW x \in App, Len(x.variables) <= APPS_KV_MAX_COUNT, NEW q \in 1 .. Len(x.variables),
         x.variables[q].type = 2, InVariable(o, t, b, x, q), ParserStep
  PROVE  \/ InVariable(o, t, b, x, q)'
         \/ At("APP_KV", Append(o, Pairs(2 * (Len(x.variables) - q))), t,
               With(b, Rec(x, q, NoKeyValue)))'
<1> DEFINE v == x.variables[q]
           u == One(v.value # 0)
           more == 2 * (Len(x.variables) - q)
           inner == Append(o, Pairs(more))
           n == q - 1
           named == With(b, Rec(x, n, Kv(v.name, 0, 0)))
           typed == With(b, Rec(x, n, Kv(v.name, 2, 0)))
           read == With(b, Rec(x, n, v))
           rest == <<UInt(2)>> \o (ValuePart(v) \o t)
<1>1. /\ v \in KeyValue /\ v.name \in Text /\ v.value \in Nat /\ v = Kv(v.name, 2, v.value)
      /\ u \in {0, 1} /\ more \in Nat /\ n \in 0 .. APPS_KV_MAX_COUNT - 1 /\ n + 1 = q
  <2>1. x.variables \in Seq(KeyValue) /\ Len(x.variables) \in Nat
    BY LenProperties DEF App
  <2>2. v \in KeyValue
    BY <2>1, ElementOfSeq
  <2>3. v.name \in Text /\ v.value \in Nat /\ v = Kv(v.name, 2, v.value)
    BY <2>2 DEF KeyValue, Kv
  <2>4. u \in {0, 1} /\ more \in Nat /\ n \in 0 .. APPS_KV_MAX_COUNT - 1 /\ n + 1 = q
    BY <2>1, OneIsNat
  <2> QED BY <2>2, <2>3, <2>4
<1> HIDE DEF v, u, more, n
<1>2. inner \in Seq(Frame) /\ inner # <<>> /\ Len(inner) < 6 /\ Len(o) < 6
  BY <1>1, FramesGrow
<1>3. /\ "tt" \in Text /\ "ui" \in Text /\ ValuePart(v) \in Seq(Elements)
      /\ ValuePart(v) \o t \in Seq(Elements) /\ rest \in Seq(Elements)
      /\ TypeAndValue(v, t) \in Seq(Elements) /\ TypeAndValue(v, t) = <<Str("tt")>> \o rest
  <2>1. "tt" \in Text /\ "ui" \in Text /\ UInt(2) \in Elements /\ Str("tt") \in Elements
    BY KeysAreText, ElementTypes DEF Keys
  <2>2. ValuePart(v) \in Seq(Elements) /\ ValuePart(v) \o t \in Seq(Elements)
    BY <1>1, VariableEncoded, ConcatProperties
  <2>3. rest \in Seq(Elements)
    BY <2>1, <2>2, NextElement
  <2>4. TypeAndValue(v, t) = <<Str("tt")>> \o rest
    BY DEF TypeAndValue
  <2> QED BY <2>1, <2>2, <2>3, <2>4, NextElement
<1>4. /\ TypeSet(named, 2) = typed /\ ValueSet(typed, v.value) = read
      /\ Variable(named) = n /\ Variable(typed) = n
      /\ VariableDone(read) = With(b, Rec(x, q, NoKeyValue))
  <2>1. TypeSet(named, 2) = typed
    BY <1>1, VariableFieldsSet
  <2>2. ValueSet(typed, v.value) = read
    BY <1>1, VariableFieldsSet
  <2>3. Variable(named) = n /\ Variable(typed) = n
    BY SlotOfWith, AppFieldsSet DEF Variable, Rec
  <2>4. VariableDone(read) = With(b, Rec(x, n + 1, NoKeyValue))
    BY <1>1, VariableCounted DEF v
  <2> QED BY <1>1, <2>1, <2>2, <2>3, <2>4
<1> HIDE DEF v, u, more, inner, n, named, typed, read, rest
<1>5. CASE At("APP_KV_VAR", Append(o, Pairs(more + 1)), <<Map(1 + u)>> \o TypeAndValue(v, t), named)
  <2>1. At("APP_KV_VAR", Append(inner, Pairs(2 * (1 + u))), TypeAndValue(v, t), named)'
    <3>1. more + 1 \in Nat \ {0} /\ (more + 1) - 1 = more /\ 1 + u \in Nat
      BY <1>1
    <3> QED BY <1>2, <1>3, <1>5, <3>1, MapInMap DEF inner
  <2> QED BY <2>1 DEF InVariable, v, u, more, inner, n, named
<1>6. CASE At("APP_KV_VAR", Append(inner, Pairs(2 * (1 + u))), TypeAndValue(v, t), named)
  <2>1. At("APP_KV_TYPE", Append(inner, Pairs(2 * u + 1)), rest, named)'
    <3>1. 2 * (1 + u) \in Nat \ {0} /\ 2 * (1 + u) - 1 = 2 * u + 1
      BY <1>1
    <3>2. <<"APP_KV_VAR", "tt", "APP_KV_TYPE">> \in KeyLeadsTo
      BY DEF KeyLeadsTo
    <3> QED BY <1>2, <1>3, <1>6, <3>1, <3>2, KeyRead
  <2> QED BY <2>1 DEF InVariable, v, u, more, inner, n, named, rest
<1>7. CASE At("APP_KV_TYPE", Append(inner, Pairs(2 * u + 1)), rest, named)
  <2>1. At("APP_KV_VAR", Append(inner, Pairs(2 * u)), ValuePart(v) \o t, typed)'
    <3>1. 2 * u + 1 \in Nat \ {0} /\ (2 * u + 1) - 1 = 2 * u /\ 2 \in Nat
      BY <1>1
    <3> QED BY <1>1, <1>2, <1>3, <1>4, <1>7, <3>1, TypeRead DEF rest
  <2> QED BY <2>1 DEF InVariable, v, u, more, inner, n, typed
<1>8. CASE At("APP_KV_VAR", Append(inner, Pairs(0)), t, read)
  <2>1. At("APP_KV", inner, t, VariableDone(read))'
    BY <1>2, <1>8, MapEnds
  <2> QED BY <1>4, <2>1 DEF more, inner
<1>9. CASE At("APP_KV_VAR", Append(inner, Pairs(2 * u)), ValuePart(v) \o t, typed)
  <2>1. CASE v.value = 0
    <3>1. u = 0 /\ ValuePart(v) \o t = t
      BY <1>3, <2>1, PartOf DEF u, One, ValuePart, Part
    <3>2. typed = read
      BY <1>1, <2>1 DEF typed, read
    <3> QED BY <1>8, <1>9, <3>1, <3>2
  <2>2. CASE v.value # 0
    <3>1. u = 1 /\ ValuePart(v) \o t = <<Str("ui")>> \o (<<UInt(v.value)>> \o t)
      <4>1. <<UInt(v.value)>> \in Seq(Elements)
        BY <1>1, ElementTypes, OneElement
      <4>2. u = 1 /\ ValuePart(v) = Part(TRUE, "ui", <<UInt(v.value)>>)
        BY <2>2 DEF u, One, ValuePart
      <4>3. "ui" \in Text /\ t \in Seq(Elements)
        BY <1>3, KeysAreText DEF Keys
      <4>4. Part(TRUE, "ui", <<UInt(v.value)>>) \o t = <<Str("ui")>> \o (<<UInt(v.value)>> \o t)
        BY <4>1, <4>3, PartOf
      <4> QED BY <4>2, <4>4
    <3>2. <<"APP_KV_VAR", "ui", "APP_KV_VALUE_INT">> \in KeyLeadsTo
      BY DEF KeyLeadsTo
    <3>3. <<UInt(v.value)>> \o t \in Seq(Elements)
      BY <1>1, ElementTypes, NextElement
    <3>4. At("APP_KV_VALUE_INT", Append(inner, Pairs(1)), <<UInt(v.value)>> \o t, typed)'
      <4>1. 2 * u = 2 /\ 2 - 1 = 1 /\ 2 \in Nat \ {0}
        BY <3>1
      <4> QED BY <1>2, <1>3, <1>9, <3>1, <3>2, <3>3, <4>1, KeyRead
    <3> QED BY <2>2, <3>4 DEF InVariable, v, u, more, inner, n, typed
  <2> QED BY <2>1, <2>2
<1>10. CASE At("APP_KV_VALUE_INT", Append(inner, Pairs(1)), <<UInt(v.value)>> \o t, typed)
  <2>1. At("APP_KV_VAR", Append(inner, Pairs(0)), t, read)'
    <3>1. 1 \in Nat \ {0} /\ 1 - 1 = 0
      OBVIOUS
    <3> QED BY <1>1, <1>2, <1>4, <1>10, <3>1, ValueRead
  <2> QED BY <2>1 DEF InVariable, v, u, more, inner, n, read
<1> QED BY <1>5, <1>6, <1>7, <1>8, <1>9, <1>10
        DEF InVariable, v, u, more, inner, n, named, typed, read, rest

(* Before the next variable of x, of which r were read, or in it *)
InVariables(o, t, b, x) ==
  \/ \E r \in 0 .. Len(x.variables) :
       At("APP_KV", Append(o, Pairs(2 * (Len(x.variables) - r))), VariablesFrom(x, r + 1) \o t,
          With(b, Rec(x, r, NoKeyValue)))
  \/ \E q \in 1 .. Len(x.variables) : InVariable(o, VariablesFrom(x, q + 1) \o t, b, x, q)

(* Variables the parser was written for *)
PlainApp(x) ==
  /\ x \in App /\ Len(x.variables) <= APPS_KV_MAX_COUNT
  /\ \A q \in 1 .. Len(x.variables) : x.variables[q].type = 2

(* A step in the variables leads to another place in them, or to their end. *)
LEMMA VariablesStep ==
  ASSUME NEW o \in Seq(Frame), o # <<>>, Len(o) < 5, NEW t \in Seq(Elements), NEW b, HasRoom(b),
         NEW x, PlainApp(x), InVariables(o, t, b, x), ParserStep
  PROVE  InVariables(o, t, b, x)' \/ At("APPL_ID", o, t, With(b, AppRecord(x)))'
<1> DEFINE k == Len(x.variables)
           From(q) == VariablesFrom(x, q) \o t
<1>1. x \in App /\ k <= APPS_KV_MAX_COUNT /\ k \in Nat /\ x.variables \in Seq(KeyValue)
      /\ \A q \in 1 .. k : x.variables[q].type = 2
  BY LenProperties DEF PlainApp, App
<1>2. \A q \in Nat \ {0} : VariablesFrom(x, q) \in Seq(Elements) /\ From(q) \in Seq(Elements)
  BY <1>1, VariablesEncoded, ConcatProperties
<1>3. CASE \E q \in 1 .. k : InVariable(o, From(q + 1), b, x, q)
  <2>1. PICK q \in 1 .. k : InVariable(o, From(q + 1), b, x, q)
    BY <1>3
  <2>2. q + 1 \in Nat \ {0} /\ q \in 0 .. k
    BY <1>1
  <2>3. From(q + 1) \in Seq(Elements)
    BY <1>2, <2>2
  <2> HIDE DEF From
  <2>4. \/ InVariable(o, From(q + 1), b, x, q)'
        \/ At("APP_KV", Append(o, Pairs(2 * (Len(x.variables) - q))), From(q + 1),
              With(b, Rec(x, q, NoKeyValue)))'
    BY <1>1, <2>1, <2>3, VariableStep
  <2> QED BY <2>2, <2>4 DEF InVariables, From
<1>4. CASE \E r \in 0 .. k : At("APP_KV", Append(o, Pairs(2 * (k - r))), From(r + 1),
                                With(b, Rec(x, r, NoKeyValue)))
  <2>1. PICK r \in 0 .. k : At("APP_KV", Append(o, Pairs(2 * (k - r))), From(r + 1),
                               With(b, Rec(x, r, NoKeyValue)))
    BY <1>4
  <2>2. CASE r = k
    <3>1. From(k + 1) = t /\ 2 * (k - k) = 0
      <4>1. VariablesFrom(x, k + 1) = <<>>
        BY <1>1, VariablesEncoded
      <4>2. <<>> \o t = t
        BY ConcatEmptySeq
      <4>3. 2 * (k - k) = 0
        BY <1>1
      <4> QED BY <4>1, <4>2, <4>3
    <3>2. Rec(x, k, NoKeyValue) = AppRecord(x)
      BY <1>1, AllVariablesCounted
    <3> HIDE DEF From, k
    <3>3. At("APP_KV", Append(o, Pairs(0)), t, With(b, AppRecord(x)))
      BY <2>1, <2>2, <3>1, <3>2
    <3> QED BY <3>3, MapEnds
  <2>3. CASE r # k
    <3> DEFINE q == r + 1
               v == x.variables[q]
               more == 2 * (k - q)
               rest == From(q + 1)
    <3>1. q \in 1 .. k /\ r \in 0 .. APPS_KV_MAX_COUNT - 1 /\ q + 1 \in Nat \ {0} /\ q - 1 = r
          /\ more \in Nat /\ 2 * (k - r) = more + 2
      <4>1. k \in Nat /\ k <= APPS_KV_MAX_COUNT /\ r \in 0 .. k /\ r # k
        BY <1>1, <2>3
      <4> HIDE DEF k
      <4> QED BY <4>1
    <3>2. v \in KeyValue /\ v.name \in Text /\ v.type = 2
      <4>1. v \in KeyValue
        BY <1>1, <3>1, ElementOfSeq
      <4> QED BY <1>1, <3>1, <4>1 DEF KeyValue
    <3>3. rest \in Seq(Elements) /\ From(q) = VariableFields(v) \o rest
      BY <1>1, <1>2, <3>1, VariablesEncoded
    <3> DEFINE fields == <<Map(1 + One(v.value # 0))>> \o TypeAndValue(v, rest)
    <3> HIDE DEF From, q, v, more, rest, k
    <3>4. fields \in Seq(Elements) /\ From(q) = <<Str(v.name)>> \o fields
      <4>1. ValuePart(v) \o rest \in Seq(Elements)
        BY <3>2, <3>3, VariableEncoded, ConcatProperties
      <4>2. TypeAndValue(v, rest) \in Seq(Elements)
        <5>1. Str("tt") \in Elements /\ UInt(2) \in Elements
          BY KeysAreText, ElementTypes DEF Keys
        <5> QED BY <4>1, <5>1, NextElement DEF TypeAndValue
      <4>3. Map(1 + One(v.value # 0)) \in Elements
        BY OneIsNat, ElementTypes
      <4> QED BY <3>2, <3>3, <4>2, <4>3, VariableEncoded, NextElement DEF TypeAndValue
    <3> HIDE DEF fields
    <3>5. /\ At("APP_KV", Append(o, Pairs(more + 2)), <<Str(v.name)>> \o fields,
                With(b, Rec(x, r, NoKeyValue)))
          /\ more + 2 \in Nat \ {0} /\ (more + 2) - 1 = more + 1 /\ Len(o) < 6
      <4>1. From(r + 1) = <<Str(v.name)>> \o fields
        BY <3>4 DEF q
      <4>2. Len(o) < 6
        BY LenProperties
      <4>3. At("APP_KV", Append(o, Pairs(more + 2)), <<Str(v.name)>> \o fields,
               With(b, Rec(x, r, NoKeyValue)))
        BY <2>1, <3>1, <4>1
      <4> QED BY <3>1, <4>2, <4>3
    <3>6. /\ Variable(With(b, Rec(x, r, NoKeyValue))) \in 0 .. APPS_KV_MAX_COUNT - 1
          /\ NameSet(With(b, Rec(x, r, NoKeyValue)), v.name) = With(b, Rec(x, r, Kv(v.name, 0, 0)))
      <4>1. Variable(With(b, Rec(x, r, NoKeyValue))) = r
        BY SlotOfWith, AppFieldsSet DEF Variable, Rec
      <4>2. NameSet(With(b, Rec(x, r, Kv("", 0, 0))), v.name) = With(b, Rec(x, r, Kv(v.name, 0, 0)))
        <5>1. ASSUME NEW e, NEW s PROVE NameSet(With(b, Rec(x, r, Kv(e, 0, 0))), s)
                                          = With(b, Rec(x, r, Kv(s, 0, 0)))
          BY <3>1, VariableFieldsSet
        <5> QED BY <5>1
      <4> QED BY <3>1, <4>1, <4>2, NothingYet
    <3>7. At("APP_KV_VAR", Append(o, Pairs(more + 1)), fields,
            With(b, Rec(x, r, Kv(v.name, 0, 0))))'
      BY <3>2, <3>4, <3>5, <3>6, NameRead
    <3>8. InVariable(o, rest, b, x, q)'
      BY <3>1, <3>7 DEF InVariable, fields, v, more, k
    <3> QED BY <3>1, <3>8 DEF InVariables, rest, k, From
  <2> QED BY <2>2, <2>3
<1> QED BY <1>3, <1>4 DEF InVariables

(* In the schema of x, with the account as it is *)
InSchema(o, t, x, d) ==
  LET n == One(x.nui > 0) IN
  \/ At("APP_SCH", Append(o, Pairs(2 * (One(x.nbs > 0) + n))), NbsPart(x) \o (NuiPart(x) \o t), d)
  \/ x.nbs > 0 /\ At("APP_SCH_NBS", Append(o, Pairs(2 * n + 1)),
       <<UInt(x.nbs)>> \o (NuiPart(x) \o t), d)
  \/ At("APP_SCH", Append(o, Pairs(2 * n)), NuiPart(x) \o t, d)
  \/ x.nui > 0 /\ At("APP_SCH_NUI", Append(o, Pairs(1)), <<UInt(x.nui)>> \o t, d)
  \/ At("APP_SCH", Append(o, Pairs(0)), t, d)

(* The parts of a schema, there or not *)
LEMMA SchemaParts ==
  ASSUME NEW x \in App, NEW t \in Seq(Elements)
  PROVE  /\ x.nbs \in Nat /\ x.nui \in Nat
         /\ NuiPart(x) \o t \in Seq(Elements) /\ NbsPart(x) \o t \in Seq(Elements)
         /\ <<UInt(x.nbs)>> \o t \in Seq(Elements) /\ <<UInt(x.nui)>> \o t \in Seq(Elements)
         /\ x.nbs > 0 => NbsPart(x) \o t = <<Str("nbs")>> \o (<<UInt(x.nbs)>> \o t)
         /\ x.nui > 0 => NuiPart(x) \o t = <<Str("nui")>> \o (<<UInt(x.nui)>> \o t)
         /\ ~(x.nbs > 0) => NbsPart(x) \o t = t
         /\ ~(x.nui > 0) => NuiPart(x) \o t = t
<1>1. x.nbs \in Nat /\ x.nui \in Nat
  BY DEF App
<1>2. "nbs" \in Text /\ "nui" \in Text
  BY KeysAreText DEF Keys
<1>3. <<UInt(x.nbs)>> \in Seq(Elements) /\ <<UInt(x.nui)>> \in Seq(Elements)
  BY <1>1, ElementTypes, OneElement
<1>4. NuiPart(x) \in Seq(Elements) /\ NbsPart(x) \in Seq(Elements)
  BY SchemaEncoded
<1>5. /\ Part(TRUE, "nbs", <<UInt(x.nbs)>>) \o t = <<Str("nbs")>> \o (<<UInt(x.nbs)>> \o t)
      /\ Part(FALSE, "nbs", <<UInt(x.nbs)>>) \o t = t
  BY <1>2, <1>3, PartOf
<1>6. /\ Part(TRUE, "nui", <<UInt(x.nui)>>) \o t = <<Str("nui")>> \o (<<UInt(x.nui)>> \o t)
      /\ Part(FALSE, "nui", <<UInt(x.nui)>>) \o t = t
  BY <1>2, <1>3, PartOf
<1>7. /\ x.nbs > 0 => NbsPart(x) = Part(TRUE, "nbs", <<UInt(x.nbs)>>)
      /\ ~(x.nbs > 0) => NbsPart(x) = Part(FALSE, "nbs", <<UInt(x.nbs)>>)
      /\ x.nui > 0 => NuiPart(x) = Part(TRUE, "nui", <<UInt(x.nui)>>)
      /\ ~(x.nui > 0) => NuiPart(x) = Part(FALSE, "nui", <<UInt(x.nui)>>)
  BY DEF NbsPart, NuiPart, Part
<1> QED BY <1>1, <1>3, <1>4, <1>5, <1>6, <1>7, ConcatProperties

(* A step in a schema stays in it, or comes to its end. *)
LEMMA SchemaStep ==
  ASSUME NEW o \in Seq(Frame), o # <<>>, Len(o) < 6, NEW t \in Seq(Elements), NEW x \in App, NEW d,
         InSchema(o, t, x, d), ParserStep
  PROVE  InSchema(o, t, x, d)' \/ At("APPL_ID", o, t, d)'
<1> DEFINE m == One(x.nbs > 0)
           n == One(x.nui > 0)
           nbs == <<UInt(x.nbs)>> \o (NuiPart(x) \o t)
           nui == <<UInt(x.nui)>> \o t
<1>1. m \in {0, 1} /\ n \in {0, 1} /\ (x.nbs > 0 => m = 1) /\ (x.nui > 0 => n = 1)
      /\ (~(x.nbs > 0) => m = 0) /\ (~(x.nui > 0) => n = 0)
  BY DEF One
<1>2. NuiPart(x) \o t \in Seq(Elements) /\ nui \in Seq(Elements)
      /\ (x.nui > 0 => NuiPart(x) \o t = <<Str("nui")>> \o nui)
      /\ (~(x.nui > 0) => NuiPart(x) \o t = t)
  BY SchemaParts
<1>3. nbs \in Seq(Elements)
      /\ (x.nbs > 0 => NbsPart(x) \o (NuiPart(x) \o t) = <<Str("nbs")>> \o nbs)
      /\ (~(x.nbs > 0) => NbsPart(x) \o (NuiPart(x) \o t) = NuiPart(x) \o t)
  BY <1>2, SchemaParts
<1>4. x.nbs \in Nat /\ x.nui \in Nat /\ "nbs" \in Text /\ "nui" \in Text
  BY KeysAreText DEF App, Keys
<1>5. /\ <<"APP_SCH", "nbs", "APP_SCH_NBS">> \in KeyLeadsTo
      /\ <<"APP_SCH", "nui", "APP_SCH_NUI">> \in KeyLeadsTo
  BY DEF KeyLeadsTo
<1> HIDE DEF m, n, nbs, nui
<1>6. CASE At("APP_SCH", Append(o, Pairs(0)), t, d)
  BY <1>6, MapEnds
<1>7. ASSUME x.nui > 0, At("APP_SCH_NUI", Append(o, Pairs(1)), nui, d)
      PROVE  At("APP_SCH", Append(o, Pairs(0)), t, d)'
  <2>1. 1 \in Nat \ {0} /\ 1 - 1 = 0
    OBVIOUS
  <2> QED BY <1>4, <1>7, <2>1, SchemaNumberRead DEF nui
<1>8. CASE At("APP_SCH", Append(o, Pairs(2 * n)), NuiPart(x) \o t, d)
  <2>1. CASE x.nui > 0
    <3>1. 2 * n = 2 /\ 2 \in Nat \ {0} /\ 2 - 1 = 1
      BY <1>1, <2>1
    <3>2. At("APP_SCH_NUI", Append(o, Pairs(1)), nui, d)'
      BY <1>2, <1>4, <1>5, <1>8, <2>1, <3>1, KeyRead
    <3> QED BY <2>1, <3>2 DEF InSchema, nui
  <2>2. CASE ~(x.nui > 0)
    <3>1. At("APP_SCH", Append(o, Pairs(0)), t, d)
      <4>1. 2 * n = 0 /\ NuiPart(x) \o t = t
        BY <1>1, <1>2, <2>2
      <4> QED BY <1>8, <4>1
    <3> QED BY <1>6, <3>1
  <2> QED BY <2>1, <2>2
<1>9. CASE x.nbs > 0 /\ At("APP_SCH_NBS", Append(o, Pairs(2 * n + 1)), nbs, d)
  <2>1. 2 * n + 1 \in Nat \ {0} /\ (2 * n + 1) - 1 = 2 * n
    BY <1>1
  <2>2. At("APP_SCH", Append(o, Pairs(2 * n)), NuiPart(x) \o t, d)'
    BY <1>2, <1>4, <1>9, <2>1, SchemaNumberRead DEF nbs
  <2> QED BY <2>2 DEF InSchema, n
<1>10. CASE At("APP_SCH", Append(o, Pairs(2 * (m + n))), NbsPart(x) \o (NuiPart(x) \o t), d)
  <2>1. CASE x.nbs > 0
    <3>1. 2 * (m + n) \in Nat \ {0} /\ 2 * (m + n) - 1 = 2 * n + 1
      BY <1>1, <2>1
    <3>2. At("APP_SCH_NBS", Append(o, Pairs(2 * n + 1)), nbs, d)'
      BY <1>3, <1>4, <1>5, <1>10, <2>1, <3>1, KeyRead
    <3> QED BY <2>1, <3>2 DEF InSchema, nbs, n
  <2>2. CASE ~(x.nbs > 0)
    <3>1. At("APP_SCH", Append(o, Pairs(2 * n)), NuiPart(x) \o t, d)
      <4>1. m = 0 /\ NbsPart(x) \o (NuiPart(x) \o t) = NuiPart(x) \o t
        BY <1>1, <1>3, <2>2
      <4>2. 2 * (m + n) = 2 * n
        BY <1>1, <4>1
      <4> QED BY <1>10, <4>1, <4>2
    <3> QED BY <1>8, <3>1
  <2> QED BY <2>1, <2>2
<1> QED BY <1>6, <1>7, <1>8, <1>9, <1>10 DEF InSchema, m, n, nbs, nui

(* In an application x, whose map is one of a map of l more elements *)
InApp(o, l, t, b, x) ==
  LET s == One(HasSchema(x))
      v == One(HasVariables(x))
      inner == Append(o, Pairs(l))
      fresh == With(b, Rec(x, 0, NoKeyValue))
      rest == VariablesPart(x) \o t
  IN
  \/ At("APPL_ID", Append(o, Pairs(l + 1)), <<Map(s + v)>> \o (SchemaPart(x) \o rest), fresh)
  \/ HasSchema(x) /\ At("APPL_ID", Append(inner, Pairs(2 * (s + v))), SchemaPart(x) \o rest, fresh)
  \/ HasSchema(x) /\ At("APP_SCH", Append(inner, Pairs(2 * v + 1)), Schema(x) \o rest, fresh)
  \/ HasSchema(x) /\ InSchema(Append(inner, Pairs(2 * v)), rest, x, fresh)
  \/ HasVariables(x) /\ At("APPL_ID", Append(inner, Pairs(2)), rest, fresh)
  \/ HasVariables(x) /\ At("APP_KV", Append(inner, Pairs(1)), Variables(x) \o t, fresh)
  \/ HasVariables(x) /\ InVariables(Append(inner, Pairs(0)), t, b, x)
  \/ At("APPL_ID", Append(inner, Pairs(0)), t, With(b, AppRecord(x)))

(* What comes of an application, part by part *)
LEMMA AppParts ==
  ASSUME NEW x \in App, NEW t \in Seq(Elements)
  PROVE  /\ SchemaPart(x) \o t \in Seq(Elements) /\ VariablesPart(x) \o t \in Seq(Elements)
         /\ Schema(x) \o t \in Seq(Elements) /\ Variables(x) \o t \in Seq(Elements)
         /\ HasSchema(x) => SchemaPart(x) \o t = <<Str("hsch")>> \o (Schema(x) \o t)
         /\ ~HasSchema(x) => SchemaPart(x) \o t = t
         /\ HasVariables(x) => VariablesPart(x) \o t = <<Str("tkv")>> \o (Variables(x) \o t)
         /\ ~HasVariables(x) => VariablesPart(x) \o t = t
<1>1. "hsch" \in Text /\ "tkv" \in Text
  BY KeysAreText DEF Keys
<1>2. Schema(x) \in Seq(Elements) /\ Variables(x) \in Seq(Elements)
  BY SchemaEncoded, VariablesEncoded
<1>3. SchemaPart(x) \in Seq(Elements) /\ VariablesPart(x) \in Seq(Elements)
  BY AppEncoded
<1>4. /\ Part(TRUE, "hsch", Schema(x)) \o t = <<Str("hsch")>> \o (Schema(x) \o t)
      /\ Part(FALSE, "hsch", Schema(x)) \o t = t
  BY <1>1, <1>2, PartOf
<1>5. /\ Part(TRUE, "tkv", Variables(x)) \o t = <<Str("tkv")>> \o (Variables(x) \o t)
      /\ Part(FALSE, "tkv", Variables(x)) \o t = t
  BY <1>1, <1>2, PartOf
<1>6. /\ HasSchema(x) => SchemaPart(x) = Part(TRUE, "hsch", Schema(x))
      /\ ~HasSchema(x) => SchemaPart(x) = Part(FALSE, "hsch", Schema(x))
      /\ HasVariables(x) => VariablesPart(x) = Part(TRUE, "tkv", Variables(x))
      /\ ~HasVariables(x) => VariablesPart(x) = Part(FALSE, "tkv", Variables(x))
  BY DEF SchemaPart, VariablesPart, Part
<1> QED BY <1>2, <1>3, <1>4, <1>5, <1>6, ConcatProperties

(* A step in an application stays in it, or counts it. *)
LEMMA AppStep ==
  ASSUME NEW o \in Seq(Frame), o # <<>>, Len(o) < 3, NEW l \in Nat, NEW t \in Seq(Elements),
         NEW b, HasRoom(b), NEW x, PlainApp(x), HasVariables(x) => HasSchema(x),
         InApp(o, l, t, b, x), ParserStep
  PROVE  InApp(o, l, t, b, x)'
           \/ At("APPL", Append(o, Pairs(l)), t, AppDone(With(b, AppRecord(x))))'
<1> DEFINE s == One(HasSchema(x))
           v == One(HasVariables(x))
           inner == Append(o, Pairs(l))
           fresh == With(b, Rec(x, 0, NoKeyValue))
           rest == VariablesPart(x) \o t
           done == With(b, AppRecord(x))
<1>1. /\ s \in {0, 1} /\ v \in {0, 1} /\ (HasSchema(x) => s = 1) /\ (~HasSchema(x) => s = 0)
      /\ (HasVariables(x) => v = 1) /\ (~HasVariables(x) => v = 0)
  BY DEF One
<1>2. /\ inner \in Seq(Frame) /\ inner # <<>> /\ Len(inner) < 4 /\ Len(inner) \in Nat
      /\ Len(o) < 6 /\ Len(inner) < 6
      /\ \A n \in Nat : /\ Append(inner, Pairs(n)) \in Seq(Frame) /\ Append(inner, Pairs(n)) # <<>>
                        /\ Len(Append(inner, Pairs(n))) < 5 /\ Len(Append(inner, Pairs(n))) < 6
  <2>1. inner \in Seq(Frame) /\ inner # <<>> /\ Len(inner) = Len(o) + 1 /\ Len(o) \in Nat
    BY FramesGrow
  <2> HIDE DEF inner
  <2>2. \A n \in Nat : /\ Append(inner, Pairs(n)) \in Seq(Frame) /\ Append(inner, Pairs(n)) # <<>>
                       /\ Len(Append(inner, Pairs(n))) = Len(inner) + 1
    BY <2>1, FramesGrow
  <2> QED BY <2>1, <2>2
<1>3. x \in App
  BY DEF PlainApp
<1>4. /\ rest \in Seq(Elements) /\ Variables(x) \o t \in Seq(Elements)
      /\ (HasVariables(x) => rest = <<Str("tkv")>> \o (Variables(x) \o t))
      /\ (~HasVariables(x) => rest = t)
  BY <1>3, AppParts
<1>5. /\ SchemaPart(x) \o rest \in Seq(Elements) /\ Schema(x) \o rest \in Seq(Elements)
      /\ (HasSchema(x) => SchemaPart(x) \o rest = <<Str("hsch")>> \o (Schema(x) \o rest))
      /\ (~HasSchema(x) => SchemaPart(x) \o rest = rest)
  BY <1>3, <1>4, AppParts
<1>6. ~HasVariables(x) => fresh = done
  <2>1. ASSUME ~HasVariables(x) PROVE Rec(x, 0, NoKeyValue) = AppRecord(x)
    <3>1. Len(x.variables) = 0 /\ Len(x.variables) <= APPS_KV_MAX_COUNT
      BY <1>3, <2>1, EmptySeq DEF HasVariables, PlainApp
    <3> QED BY <1>3, <3>1, AllVariablesCounted
  <2> QED BY <2>1
<1>7. /\ <<"APPL_ID", "hsch", "APP_SCH">> \in KeyLeadsTo /\ "hsch" \in Text
      /\ <<"APPL_ID", "tkv", "APP_KV">> \in KeyLeadsTo /\ "tkv" \in Text
  BY KeysAreText DEF KeyLeadsTo, Keys
<1> HIDE DEF s, v, inner, fresh, rest, done
<1>8. CASE At("APPL_ID", Append(inner, Pairs(0)), t, done)
  <2>1. At("APPL", inner, t, AppDone(done))'
    BY <1>2, <1>8, MapEnds
  <2> QED BY <2>1 DEF inner, done
<1>9. CASE HasVariables(x) /\ InVariables(Append(inner, Pairs(0)), t, b, x)
  <2>1. \/ InVariables(Append(inner, Pairs(0)), t, b, x)'
        \/ At("APPL_ID", Append(inner, Pairs(0)), t, done)'
    BY <1>2, <1>9, VariablesStep DEF done
  <2> QED BY <1>9, <2>1 DEF InApp, inner, done
<1>10. CASE HasVariables(x) /\ At("APP_KV", Append(inner, Pairs(1)), Variables(x) \o t, fresh)
  <2> DEFINE k == Len(x.variables)
  <2>1. Variables(x) \o t = <<Map(k)>> \o (VariablesFrom(x, 1) \o t)
    BY <1>3, VariablesEncoded
  <2>2. VariablesFrom(x, 1) \o t \in Seq(Elements) /\ k \in Nat
    <3>1. VariablesFrom(x, 1) \in Seq(Elements) /\ k \in Nat
      <4>1. 1 \in Nat \ {0} /\ x.variables \in Seq(KeyValue)
        BY <1>3 DEF App
      <4>2. VariablesFrom(x, 1) \in Seq(Elements)
        BY <1>3, <4>1, VariablesEncoded
      <4> QED BY <4>1, <4>2, LenProperties
    <3> QED BY <3>1, ConcatProperties
  <2> HIDE DEF k
  <2>3. At("APP_KV", Append(Append(inner, Pairs(0)), Pairs(2 * k)), VariablesFrom(x, 1) \o t,
          fresh)'
    <3>1. 1 \in Nat \ {0} /\ 1 - 1 = 0
      OBVIOUS
    <3> QED BY <1>2, <1>10, <2>1, <2>2, <3>1, MapInMap
  <2>4. InVariables(Append(inner, Pairs(0)), t, b, x)'
    <3>1. 0 \in 0 .. k /\ k - 0 = k /\ 0 + 1 = 1
      BY <2>2
    <3> QED BY <2>3, <3>1 DEF InVariables, k, fresh
  <2> QED BY <1>10, <2>4 DEF InApp, inner
<1>11. CASE HasVariables(x) /\ At("APPL_ID", Append(inner, Pairs(2)), rest, fresh)
  <2>1. 2 \in Nat \ {0} /\ 2 - 1 = 1
    OBVIOUS
  <2>2. At("APP_KV", Append(inner, Pairs(1)), Variables(x) \o t, fresh)'
    BY <1>2, <1>4, <1>7, <1>11, <2>1, KeyRead
  <2> QED BY <1>11, <2>2 DEF InApp, inner, fresh
<1>12. CASE HasSchema(x) /\ InSchema(Append(inner, Pairs(2 * v)), rest, x, fresh)
  <2>1. 2 * v \in Nat /\ (HasVariables(x) => 2 * v = 2) /\ (~HasVariables(x) => 2 * v = 0)
    BY <1>1
  <2>2. \/ InSchema(Append(inner, Pairs(2 * v)), rest, x, fresh)'
        \/ At("APPL_ID", Append(inner, Pairs(2 * v)), rest, fresh)'
    BY <1>2, <1>3, <1>4, <1>12, <2>1, SchemaStep
  <2>3. CASE At("APPL_ID", Append(inner, Pairs(2 * v)), rest, fresh)'
    <3>1. CASE HasVariables(x)
      <4>1. At("APPL_ID", Append(inner, Pairs(2)), rest, fresh)'
        BY <2>1, <2>3, <3>1
      <4> QED BY <3>1, <4>1 DEF InApp, inner, rest, fresh
    <3>2. CASE ~HasVariables(x)
      <4>1. At("APPL_ID", Append(inner, Pairs(0)), t, done)'
        BY <1>4, <1>6, <2>1, <2>3, <3>2
      <4> QED BY <4>1 DEF InApp, inner, done
    <3> QED BY <3>1, <3>2
  <2> QED BY <1>12, <2>2, <2>3 DEF InApp, inner, v, rest, fresh
<1>13. CASE HasSchema(x) /\ At("APP_SCH", Append(inner, Pairs(2 * v + 1)), Schema(x) \o rest, fresh)
  <2> DEFINE m == One(x.nbs > 0) + One(x.nui > 0)
             parts == NbsPart(x) \o (NuiPart(x) \o rest)
  <2>1. Schema(x) \o rest = <<Map(m)>> \o parts
    BY <1>3, <1>4, SchemaEncoded
  <2>2. parts \in Seq(Elements) /\ m \in Nat
    <3>1. NuiPart(x) \o rest \in Seq(Elements)
      BY <1>3, <1>4, SchemaParts
    <3>2. parts \in Seq(Elements)
      BY <1>3, <3>1, SchemaParts
    <3>3. m \in Nat
      BY DEF One
    <3> QED BY <3>2, <3>3
  <2> HIDE DEF m, parts
  <2>3. 2 * v + 1 \in Nat \ {0} /\ (2 * v + 1) - 1 = 2 * v
    BY <1>1
  <2>4. At("APP_SCH", Append(Append(inner, Pairs(2 * v)), Pairs(2 * m)), parts, fresh)'
    BY <1>2, <1>13, <2>1, <2>2, <2>3, MapInMap
  <2>5. InSchema(Append(inner, Pairs(2 * v)), rest, x, fresh)'
    BY <2>4 DEF InSchema, m, parts
  <2> QED BY <1>13, <2>5 DEF InApp, inner, v, rest, fresh
<1>14. CASE HasSchema(x)
              /\ At("APPL_ID", Append(inner, Pairs(2 * (s + v))), SchemaPart(x) \o rest, fresh)
  <2>1. 2 * (s + v) \in Nat \ {0} /\ 2 * (s + v) - 1 = 2 * v + 1
    BY <1>1, <1>14
  <2>2. At("APP_SCH", Append(inner, Pairs(2 * v + 1)), Schema(x) \o rest, fresh)'
    BY <1>2, <1>5, <1>7, <1>14, <2>1, KeyRead
  <2> QED BY <1>14, <2>2 DEF InApp, inner, v, rest, fresh
<1>15. CASE At("APPL_ID", Append(o, Pairs(l + 1)), <<Map(s + v)>> \o (SchemaPart(x) \o rest), fresh)
  <2>1. l + 1 \in Nat \ {0} /\ (l + 1) - 1 = l /\ s + v \in Nat
    BY <1>1
  <2>2. At("APPL_ID", Append(inner, Pairs(2 * (s + v))), SchemaPart(x) \o rest, fresh)'
    BY <1>2, <1>5, <1>15, <2>1, MapInMap DEF inner
  <2>3. CASE HasSchema(x)
    BY <2>2, <2>3 DEF InApp, inner, s, v, rest, fresh
  <2>4. CASE ~HasSchema(x)
    <3>1. 2 * (s + v) = 0 /\ SchemaPart(x) \o rest = t /\ fresh = done
      BY <1>1, <1>4, <1>5, <1>6, <2>4
    <3>2. At("APPL_ID", Append(inner, Pairs(0)), t, done)'
      BY <2>2, <3>1
    <3> QED BY <3>2 DEF InApp, inner, done
  <2> QED BY <2>3, <2>4
<1> QED BY <1>8, <1>9, <1>10, <1>11, <1>12, <1>13, <1>14, <1>15
        DEF InApp, s, v, inner, fresh, rest, done

(***************************************************************************)
(* Where the parser is in an answer                                        *)
(***************************************************************************)
Outer(a) == Append(<<Pam(0)>>, Pairs(2 * Len(a.others)))
InApps(a, d) ==
  \/ \E n \in 0 .. Len(a.apps) :
       /\ d.app_idx + n <= APPS_MAX_COUNT
       /\ At("APPL", Append(Outer(a), Pairs(2 * (Len(a.apps) - n))), After(a, n + 1),
            Stored(a, d, n))
  \/ \E n \in 0 .. Len(a.apps) - 1 :
       /\ d.app_idx + n < APPS_MAX_COUNT
       /\ InApp(Outer(a), 2 * (Len(a.apps) - (n + 1)), After(a, (n + 1) + 1), Stored(a, d, n),
                a.apps[n + 1])

(* What may be left of an answer when the parser gave up in its            *)
(* applications: something of x and then t, for one of them                *)
AppMap(x) == Map(One(HasSchema(x)) + One(HasVariables(x)))
Left(rest, x, t) ==
  LET more == VariablesPart(x) \o t IN
  \/ rest = <<UInt(x.id)>> \o (<<AppMap(x)>> \o (SchemaPart(x) \o more))
  \/ rest = <<AppMap(x)>> \o (SchemaPart(x) \o more)
  \/ HasSchema(x) /\ rest = Schema(x) \o more
  \/ rest = <<UInt(x.nbs)>> \o (NuiPart(x) \o more)
  \/ rest = <<UInt(x.nui)>> \o more
  \/ rest = NuiPart(x) \o more
  \/ rest = more
Rest(a, rest) ==
  \/ \E p \in 1 .. Len(a.apps) : Left(rest, a.apps[p], After(a, p + 1))
  \/ rest = Others(a)
AppKeys == {"hsch", "nbs", "nui", "tkv"}
KeyNext(a, rest) ==
  \E key \in AppKeys, t \in Seq(Elements) : rest = <<Str(key)>> \o t /\ Rest(a, t)

(* The first element of it, for a parser that waits for no application     *)
Unread(a, rest) ==
  \/ \E n \in Nat, t \in Seq(Elements) : rest = <<UInt(n)>> \o t /\ Rest(a, t)
  \/ \E t \in Seq(Elements) : rest = <<Map(0)>> \o t /\ Rest(a, t)
  \/ \E n \in Nat \ {0}, t \in Seq(Elements) : rest = <<Map(n)>> \o t /\ KeyNext(a, t)
  \/ \E key \in AppKeys, t \in Seq(Elements) : rest = <<Str(key)>> \o t
  \/ rest = Others(a)

(* What follows an application is a rest of the answer. *)
LEMMA AfterIsRest ==
  ASSUME NEW a \in AccountAnswer, NEW p \in 1 .. Len(a.apps)
  PROVE  /\ After(a, p + 1) \in Seq(Elements) /\ a.apps[p] \in App
         /\ HasVariables(a.apps[p]) => HasSchema(a.apps[p])
         /\ Rest(a, After(a, p + 1)) /\ Unread(a, After(a, p + 1))
<1>1. Len(a.apps) \in Nat /\ \A q \in 1 .. Len(a.apps) :
        a.apps[q] \in App /\ (HasVariables(a.apps[q]) => HasSchema(a.apps[q]))
  BY AnswerTypes
<1>2. \A q \in Nat \ {0} : After(a, q) \in Seq(Elements)
  BY AppsEncoded
<1>3. CASE p = Len(a.apps)
  <2>1. After(a, p + 1) = Others(a)
    BY <1>3, AppsEncoded
  <2> QED BY <1>1, <1>2, <2>1 DEF Rest, Unread
<1>4. CASE p # Len(a.apps)
  <2> DEFINE q == p + 1
             x == a.apps[q]
             t == After(a, q + 1)
             map == <<AppMap(x)>> \o (SchemaPart(x) \o (VariablesPart(x) \o t))
  <2>1. q \in 1 .. Len(a.apps) /\ q + 1 \in Nat \ {0} /\ q \in Nat \ {0}
    BY <1>1, <1>4
  <2>2. x \in App /\ t \in Seq(Elements) /\ x.id \in Nat
    BY <1>1, <1>2, <2>1 DEF App
  <2>3. After(a, q) = AppFields(x) \o t
    BY <2>1, AppsEncoded
  <2> HIDE DEF x, t, q
  <2>4. After(a, q) = <<UInt(x.id)>> \o map
    BY <2>2, <2>3, AppEncoded DEF AppMap
  <2>5. map \in Seq(Elements)
    <3>1. SchemaPart(x) \o (VariablesPart(x) \o t) \in Seq(Elements)
      BY <2>2, AppParts
    <3>2. AppMap(x) \in Elements
      BY OneIsNat, ElementTypes DEF AppMap
    <3> QED BY <3>1, <3>2, NextElement
  <2>6. Left(After(a, q), x, t) /\ Left(map, x, t)
    BY <2>4 DEF Left
  <2>7. Rest(a, After(a, q)) /\ Rest(a, map)
    BY <2>1, <2>6 DEF Rest, x, t
  <2> HIDE DEF map
  <2>8. Unread(a, After(a, q))
    BY <2>2, <2>4, <2>5, <2>7 DEF Unread
  <2> QED BY <1>1, <1>2, <2>1, <2>7, <2>8 DEF q
<1> QED BY <1>3, <1>4

(* The cases of what may be left *)
LEMMA LeftCases ==
  ASSUME NEW r, NEW x, NEW t, Left(r, x, t)
  PROVE  \/ r = <<UInt(x.id)>> \o (<<AppMap(x)>> \o (SchemaPart(x) \o (VariablesPart(x) \o t)))
         \/ r = <<AppMap(x)>> \o (SchemaPart(x) \o (VariablesPart(x) \o t))
         \/ HasSchema(x) /\ r = Schema(x) \o (VariablesPart(x) \o t)
         \/ r = <<UInt(x.nbs)>> \o (NuiPart(x) \o (VariablesPart(x) \o t))
         \/ r = <<UInt(x.nui)>> \o (VariablesPart(x) \o t)
         \/ r = NuiPart(x) \o (VariablesPart(x) \o t)
         \/ r = VariablesPart(x) \o t
BY Zenon DEF Left

(* A rest of the answer is unread, and consists of elements. *)
LEMMA FirstIsRest ==
  ASSUME NEW a \in AccountAnswer, NEW rest, Rest(a, rest)
  PROVE  Unread(a, rest) /\ rest \in Seq(Elements)
<1>1. CASE rest = Others(a)
  BY <1>1, AppsEncoded DEF Unread
<1>2. CASE \E p \in 1 .. Len(a.apps) : Left(rest, a.apps[p], After(a, p + 1))
  <2>1. PICK p \in 1 .. Len(a.apps) : Left(rest, a.apps[p], After(a, p + 1))
    BY <1>2
  <2> DEFINE x == a.apps[p]
             t == After(a, p + 1)
             more == VariablesPart(x) \o t
  <2>2. x \in App /\ t \in Seq(Elements) /\ (HasVariables(x) => HasSchema(x)) /\ Unread(a, t)
          /\ Rest(a, t)
    BY AfterIsRest
  <2>3. \A r : Left(r, x, t) => Rest(a, r)
    BY DEF Rest
  <2>0. Left(rest, x, t)
    BY <2>1
  <2> HIDE DEF x, t
  <2>4. /\ more \in Seq(Elements) /\ Variables(x) \o t \in Seq(Elements)
        /\ (HasVariables(x) => more = <<Str("tkv")>> \o (Variables(x) \o t))
        /\ (~HasVariables(x) => more = t)
    BY <2>2, AppParts
  <2>5. Unread(a, more) /\ Rest(a, more)
    <3>1. Rest(a, more)
      BY <2>3 DEF Left
    <3>2. CASE HasVariables(x)
      BY <2>4, <3>1, <3>2 DEF Unread, AppKeys
    <3>3. CASE ~HasVariables(x)
      BY <2>2, <2>4, <3>1, <3>3
    <3> QED BY <3>2, <3>3
  <2> DEFINE nui == NuiPart(x) \o more
             nbs == NbsPart(x) \o nui
             schema == Schema(x) \o more
             parts == SchemaPart(x) \o more
  <2>6. /\ x.nui \in Nat /\ x.nbs \in Nat /\ x.id \in Nat
        /\ nui \in Seq(Elements) /\ <<UInt(x.nui)>> \o more \in Seq(Elements)
        /\ (x.nui > 0 => nui = <<Str("nui")>> \o (<<UInt(x.nui)>> \o more))
        /\ (~(x.nui > 0) => nui = more)
    BY <2>2, <2>4, SchemaParts DEF App
  <2>7. /\ nbs \in Seq(Elements) /\ <<UInt(x.nbs)>> \o nui \in Seq(Elements)
        /\ (x.nbs > 0 => nbs = <<Str("nbs")>> \o (<<UInt(x.nbs)>> \o nui))
        /\ (~(x.nbs > 0) => nbs = nui)
    BY <2>2, <2>6, SchemaParts
  <2>8. /\ parts \in Seq(Elements) /\ schema \in Seq(Elements)
        /\ (HasSchema(x) => parts = <<Str("hsch")>> \o schema)
        /\ (~HasSchema(x) => parts = more)
    BY <2>2, <2>4, AppParts
  <2>9. schema = <<Map(One(x.nbs > 0) + One(x.nui > 0))>> \o nbs
    BY <2>2, <2>4, SchemaEncoded
  <2>10. /\ Left(<<UInt(x.nui)>> \o more, x, t) /\ Left(nui, x, t)
              /\ Left(<<UInt(x.nbs)>> \o nui, x, t)
         /\ (HasSchema(x) => Left(schema, x, t)) /\ Left(<<AppMap(x)>> \o parts, x, t)
    BY DEF Left
  <2>11. /\ Rest(a, <<UInt(x.nui)>> \o more) /\ Rest(a, nui) /\ Rest(a, <<UInt(x.nbs)>> \o nui)
         /\ (HasSchema(x) => Rest(a, schema)) /\ Rest(a, <<AppMap(x)>> \o parts)
    BY <2>3, <2>10
  <2>12. \/ rest = <<UInt(x.id)>> \o (<<AppMap(x)>> \o parts)
         \/ rest = <<AppMap(x)>> \o parts
         \/ HasSchema(x) /\ rest = schema
         \/ rest = <<UInt(x.nbs)>> \o nui
         \/ rest = <<UInt(x.nui)>> \o more
         \/ rest = nui
         \/ rest = more
    BY <2>0, LeftCases, Zenon
  <2> HIDE DEF more, nui, nbs, schema, parts
  <2>13. CASE rest = nui
    <3>1. CASE x.nui > 0
      BY <2>6, <2>13, <3>1 DEF Unread, AppKeys
    <3>2. CASE ~(x.nui > 0)
      BY <2>4, <2>5, <2>6, <2>13, <3>2
    <3> QED BY <3>1, <3>2
  <2>14. CASE rest = <<UInt(x.nui)>> \o more
    BY <2>4, <2>5, <2>6, <2>14 DEF Unread
  <2>15. CASE rest = <<UInt(x.nbs)>> \o nui
    BY <2>6, <2>7, <2>11, <2>15 DEF Unread
  <2>16. CASE HasSchema(x) /\ rest = schema
    <3> DEFINE m == One(x.nbs > 0) + One(x.nui > 0)
    <3>1. m \in Nat \ {0}
      BY <2>6, <2>16 DEF One, HasSchema
    <3>2. KeyNext(a, nbs)
      <4>1. CASE x.nbs > 0
        BY <2>7, <2>11, <4>1 DEF KeyNext, AppKeys
      <4>2. CASE ~(x.nbs > 0)
        <5>1. x.nui > 0
          BY <2>6, <2>16, <4>2 DEF HasSchema
        <5> QED BY <2>6, <2>7, <2>11, <4>2, <5>1 DEF KeyNext, AppKeys
      <4> QED BY <4>1, <4>2
    <3> HIDE DEF m
    <3> QED BY <2>7, <2>8, <2>9, <2>16, <3>1, <3>2 DEF Unread, m
  <2>17. CASE rest = <<AppMap(x)>> \o parts
    <3>0. rest \in Seq(Elements)
      <4>1. AppMap(x) \in Elements
        BY OneIsNat, ElementTypes DEF AppMap
      <4> QED BY <2>8, <2>17, <4>1, NextElement
    <3>1. CASE HasSchema(x)
      <4> DEFINE m == One(HasSchema(x)) + One(HasVariables(x))
      <4>1. m \in Nat \ {0} /\ rest = <<Map(m)>> \o parts
        BY <2>17, <3>1 DEF One, AppMap
      <4>2. KeyNext(a, parts)
        BY <2>8, <2>11, <3>1 DEF KeyNext, AppKeys
      <4> HIDE DEF m
      <4> QED BY <2>8, <3>0, <4>1, <4>2 DEF Unread
    <3>2. CASE ~HasSchema(x)
      <4>1. rest = <<Map(0)>> \o more
        BY <2>2, <2>8, <2>17, <3>2 DEF One, AppMap
      <4> QED BY <2>4, <2>5, <3>0, <4>1 DEF Unread
    <3> QED BY <3>1, <3>2
  <2>18. CASE rest = <<UInt(x.id)>> \o (<<AppMap(x)>> \o parts)
    <3>1. AppMap(x) \in Elements
      BY OneIsNat, ElementTypes DEF AppMap
    <3>2. <<AppMap(x)>> \o parts \in Seq(Elements) /\ rest \in Seq(Elements)
      BY <2>6, <2>8, <2>18, <3>1, ElementTypes, NextElement
    <3> QED BY <2>6, <2>11, <2>18, <3>2 DEF Unread
  <2>19. CASE rest = more
    BY <2>4, <2>5, <2>19
  <2> QED BY <2>12, <2>13, <2>14, <2>15, <2>16, <2>17, <2>18, <2>19
<1> QED BY <1>1, <1>2 DEF Rest

(***************************************************************************)
(* The end of an answer: the applications were told, or as many as fit     *)
(***************************************************************************)
AllTold(a, d, n) ==
  /\ n \in 0 .. Len(a.apps) /\ d.app_idx + n <= APPS_MAX_COUNT
  /\ n = Len(a.apps) \/ d.app_idx + n = APPS_MAX_COUNT
QuietElements == {e \in Elements : e.kind = "str" => e.s \notin {"algo", "appl"}}
SameApps(acc, s) ==
  acc.amount = s.amount /\ acc.app_idx = s.app_idx /\ acc.apps_local = s.apps_local
QuietSteps == {"ROOT", "EBASE", "ERN", "TSCH", "TSCH_NUI"}

(* Only fields are left that write neither the amount nor an application. *)
Harmless(a, d) ==
  /\ m_parsing_account_step \in QuietSteps /\ ~past /\ todo \in Seq(QuietElements)
  /\ \E n \in 0 .. Len(a.apps) : AllTold(a, d, n) /\ SameApps(account, Stored(a, d, n))

(* The parser left the loops, with some of the answer unread. *)
Ended(a, d) ==
  \E n \in 0 .. Len(a.apps), rest \in Seq(Elements) :
    /\ AllTold(a, d, n)
    /\ \/ At("ROOT", Append(<<Pam(0)>>, Pairs(0)), rest, Stored(a, d, n))
       \/ At("ROOT", <<Pam(0)>>, rest, Stored(a, d, n))

(* The parser left the loop over the applications, and reads what is left  *)
(* of them as fields of the account.                                       *)
Skipping(a, d) ==
  \E n \in 0 .. Len(a.apps), rest \in Seq(Elements), l \in Nat :
    LET outer == Append(<<Pam(0)>>, Pairs(l)) IN
    /\ AllTold(a, d, n)
    /\ \/ Rest(a, rest) /\ At("APPL", Append(outer, Pairs(0)), rest, Stored(a, d, n))
       \/ Rest(a, rest) /\ At("ROOT", outer, rest, Stored(a, d, n))
       \/ Rest(a, rest) /\ At("ROOT", Append(outer, Pairs(0)), rest, Stored(a, d, n))
       \/ \E m \in Nat \ {0} :
            KeyNext(a, rest) /\ At("ROOT", Append(outer, Pairs(m)), rest, Stored(a, d, n))

(* The other fields write neither the amount nor an application. *)
LEMMA OthersAreQuiet ==
  ASSUME NEW a \in AccountAnswer
  PROVE  Others(a) \in Seq(QuietElements)
<1>1. a.others \in Seq(Seq(Elements))
  BY AnswerTypes
<1>2. \A n \in DOMAIN a.others : \A m \in DOMAIN a.others[n] :
        a.others[n][m].kind = "str" => a.others[n][m].s \notin {"algo", "appl"}
  BY AnswerAssumption, Zenon DEF AnswerAssumption
<1>3. ASSUME NEW n \in 1 .. Len(a.others) PROVE a.others[n] \in Seq(QuietElements)
  <2> DEFINE row == a.others[n]
  <2>1. row \in Seq(Elements) /\ n \in DOMAIN a.others
    BY <1>1, ElementOfSeq, LenProperties
  <2>2. \A m \in DOMAIN row : row[m].kind = "str" => row[m].s \notin {"algo", "appl"}
    BY <1>2, <2>1
  <2>3. Len(row) \in Nat /\ DOMAIN row = 1 .. Len(row) /\ \A m \in 1 .. Len(row) :
          row[m] \in Elements
    BY <2>1, ElementOfSeq, LenProperties
  <2>4. row = [m \in 1 .. Len(row) |-> row[m]]
    BY <2>1
  <2>5. \A m \in 1 .. Len(row) : row[m] \in QuietElements
    BY <2>2, <2>3 DEF QuietElements
  <2> HIDE DEF row
  <2>6. row \in [1 .. Len(row) -> QuietElements]
    BY <2>4, <2>5
  <2> QED BY <2>3, <2>6, RowsAreASeq DEF row
<1>4. a.others \in Seq(Seq(QuietElements))
  <2> DEFINE rows == a.others
  <2>1. Len(rows) \in Nat /\ rows = [n \in 1 .. Len(rows) |-> rows[n]]
    BY <1>1, LenProperties
  <2>2. rows \in [1 .. Len(rows) -> Seq(QuietElements)]
    BY <1>3, <2>1
  <2> HIDE DEF rows
  <2> QED BY <2>1, <2>2, RowsAreASeq DEF rows
<1> QED BY <1>4, FlattenSeqType DEF Others

(* Keys that lead from the root, but those of the amount and applications, *)
(* lead to steps whose numbers are not of the properties.                  *)
LEMMA HarmlessStep ==
  ASSUME NEW a \in AccountAnswer, NEW d, ParserTypes, Harmless(a, d), ParserStep
  PROVE  Harmless(a, d)'
<1>1. PICK n \in 0 .. Len(a.apps) : AllTold(a, d, n) /\ SameApps(account, Stored(a, d, n))
  BY DEF Harmless
<1>2. m_parsing_account_step \in QuietSteps /\ ~past /\ todo \in Seq(QuietElements)
      /\ account \in AccountDetails
  BY DEF Harmless, ParserTypes
<1>3. SUFFICES /\ m_parsing_account_step' \in QuietSteps /\ ~past' /\ todo' \in Seq(QuietElements)
               /\ account'.amount = account.amount /\ account'.app_idx = account.app_idx
               /\ account'.apps_local = account.apps_local
  BY <1>1 DEF Harmless, SameApps
<1> USE DEF QuietSteps
<1>4. CASE ReaderFails
  BY <1>2, <1>4 DEF ReaderFails
<1>5. CASE FinishElement
  BY <1>2, <1>5 DEF FinishElement, finish_map
<1>6. CASE parse_element
  <2> DEFINE e == Head(todo)
  <2>1. todo # <<>> /\ todo' = Tail(todo)
    BY <1>6 DEF parse_element
  <2>2. e \in QuietElements /\ todo' \in Seq(QuietElements)
    BY <1>2, <2>1, HeadTailProperties
  <2>3. CASE e.kind = "str" /\ string_element(e.s)
    <3>1. e.s \notin {"algo", "appl"}
      BY <2>2, <2>3 DEF QuietElements
    <3>2. account' = account /\ past' = past
      BY <1>2, <2>3
         DEF string_element, KnownKey, UnknownKey, NameStored, NameStoredPastTheArray, StringIgnored
    <3>3. m_parsing_account_step' \in QuietSteps
      <4>1. CASE KnownKey(e.s)
        <5>1. PICK t \in KeyLeadsTo : t[1] = m_parsing_account_step /\ t[2] = e.s
                                      /\ m_parsing_account_step' = t[3]
          BY <4>1 DEF KnownKey
        <5> QED BY <1>2, <3>1, <5>1 DEF KeyLeadsTo
      <4>2. CASE ~KnownKey(e.s)
        BY <1>2, <2>3, <4>2
           DEF string_element, UnknownKey, NameStored, NameStoredPastTheArray, StringIgnored
      <4> QED BY <4>1, <4>2
    <3> QED BY <1>2, <2>2, <3>2, <3>3
  <2>4. CASE e.kind = "uint" /\ uint_element(e.n)
    <3>1. CASE NumberRead(e.n)
      <4>1. /\ m_parsing_account_step' = "ROOT" /\ past' = past
            /\ \/ account' = [account EXCEPT !.reward_base = AsInt32(e.n)]
               \/ account' = [account EXCEPT !.rewards = AsInt32(e.n)]
        BY <1>2, <3>1 DEF NumberRead
      <4> QED BY <1>2, <2>2, <4>1 DEF AccountDetails
    <3>2. CASE NumberIgnored
      BY <1>2, <2>2, <3>2 DEF NumberIgnored
    <3> QED BY <1>2, <2>4, <3>1, <3>2 DEF uint_element, AppStarts, AppRefused, VariableRead,
                 SchemaRead
  <2>5. CASE UNCHANGED <<m_parsing_account_step, account, past>>
    BY <1>2, <2>2, <2>5
  <2> QED BY <1>6, <2>3, <2>4, <2>5 DEF parse_element, start_map_or_array
<1> QED BY <1>4, <1>5, <1>6 DEF ParserStep

(* The first call of parse_element wants no more elements. *)
LEMMA Outermost ==
  ASSUME NEW st, NEW t, NEW d, At(st, <<Pam(0)>>, t, d)
  PROVE  ~ParserStep
<1>1. open = <<Pam(0)>> /\ reader_ok
  BY DEF At
<1>2. Len(open) = 1 /\ open[1] = Pam(0)
  BY <1>1
<1>3. Top.left = 0
  BY <1>2 DEF Top, Pam, FrameOf
<1> QED BY <1>2, <1>3 DEF ParserStep, parse_element, ReaderFails, FinishElement, Reads

(* The loop of the call, and a map in it *)
LEMMA PamIsAFrame ==
  /\ <<Pam(0)>> \in Seq(Frame) /\ <<Pam(0)>> # <<>> /\ Len(<<Pam(0)>>) = 1 /\ Len(<<Pam(0)>>) < 6
  /\ \A l \in Nat : LET outer == Append(<<Pam(0)>>, Pairs(l)) IN
       /\ outer \in Seq(Frame) /\ outer # <<>> /\ Len(outer) = 2 /\ Len(outer) < 6 /\ Len(outer) < 3
<1>1. Pam(0) \in Frame
  BY FramesAreFrames
<1>2. <<Pam(0)>> \in Seq(Frame) /\ <<Pam(0)>> # <<>> /\ Len(<<Pam(0)>>) = 1
  BY <1>1
<1>3. ASSUME NEW l \in Nat
      PROVE  LET outer == Append(<<Pam(0)>>, Pairs(l)) IN
             outer \in Seq(Frame) /\ outer # <<>> /\ Len(outer) = 2
  <2> DEFINE o == <<Pam(0)>>
  <2>1. o \in Seq(Frame) /\ Len(o) = 1
    BY <1>2
  <2> HIDE DEF o
  <2>2. Append(o, Pairs(l)) \in Seq(Frame) /\ Append(o, Pairs(l)) # <<>>
          /\ Len(Append(o, Pairs(l))) = Len(o) + 1
    BY <2>1, FramesGrow
  <2>3. Len(Append(o, Pairs(l))) = 2
    BY <2>1, <2>2
  <2> QED BY <2>2, <2>3 DEF o
<1> QED BY <1>2, <1>3

(* A map of no step of its own ends. *)
LEMMA OuterMapEnds ==
  ASSUME NEW st \in {"APPL", "ROOT"}, NEW o \in Seq(Frame), o # <<>>, NEW t, NEW d,
         At(st, Append(o, Pairs(0)), t, d), ParserStep
  PROVE  At("ROOT", o, t, d)'
<1>1. st \notin {"APP_KV_VAR", "APP_KV", "APP_SCH", "APPL_ID"}
  OBVIOUS
<1> QED BY <1>1, MapEnds

(* A parser that has come to the other fields stays with them. *)
LEMMA EndedStep ==
  ASSUME NEW a, NEW d, Ended(a, d), ParserStep
  PROVE  Ended(a, d)'
<1>1. PICK n \in 0 .. Len(a.apps), rest \in Seq(Elements) :
        /\ AllTold(a, d, n)
        /\ \/ At("ROOT", Append(<<Pam(0)>>, Pairs(0)), rest, Stored(a, d, n))
           \/ At("ROOT", <<Pam(0)>>, rest, Stored(a, d, n))
  BY DEF Ended
<1>2. ~At("ROOT", <<Pam(0)>>, rest, Stored(a, d, n))
  BY Outermost
<1>3. At("ROOT", <<Pam(0)>>, rest, Stored(a, d, n))'
  <2> DEFINE o == <<Pam(0)>>
  <2>1. o \in Seq(Frame) /\ o # <<>> /\ At("ROOT", Append(o, Pairs(0)), rest, Stored(a, d, n))
    BY <1>1, <1>2, PamIsAFrame
  <2> HIDE DEF o
  <2>2. At("ROOT", o, rest, Stored(a, d, n))'
    BY <2>1, OuterMapEnds
  <2> QED BY <2>2 DEF o
<1> QED BY <1>1, <1>3 DEF Ended

(* The parser reads what is left of the applications. *)
LEMMA SkippingStep ==
  ASSUME NEW a \in AccountAnswer, NEW d, ParserTypes, Skipping(a, d), ParserStep
  PROVE  Skipping(a, d)' \/ Harmless(a, d)' \/ Ended(a, d)'
<1> DEFINE Outside(l) == Append(<<Pam(0)>>, Pairs(l))
<1>1. PICK n \in 0 .. Len(a.apps), rest \in Seq(Elements), l \in Nat :
        /\ AllTold(a, d, n)
        /\ \/ Rest(a, rest) /\ At("APPL", Append(Outside(l), Pairs(0)), rest, Stored(a, d, n))
           \/ Rest(a, rest) /\ At("ROOT", Outside(l), rest, Stored(a, d, n))
           \/ Rest(a, rest) /\ At("ROOT", Append(Outside(l), Pairs(0)), rest, Stored(a, d, n))
           \/ \E m \in Nat \ {0} :
                KeyNext(a, rest) /\ At("ROOT", Append(Outside(l), Pairs(m)), rest, Stored(a, d, n))
  BY DEF Skipping
<1> DEFINE s == Stored(a, d, n)
<1>2. \A k \in Nat : /\ Outside(k) \in Seq(Frame) /\ Outside(k) # <<>> /\ Len(Outside(k)) < 6
  BY PamIsAFrame
<1>3. /\ \A t \in Seq(Elements), k \in Nat :
           Rest(a, t) /\ (At("ROOT", Outside(k), t, s)'
             \/ At("ROOT", Append(Outside(k), Pairs(0)), t, s)')
           => Skipping(a, d)'
      /\ \A t \in Seq(Elements), k \in Nat, m \in Nat \ {0} :
           KeyNext(a, t) /\ At("ROOT", Append(Outside(k), Pairs(m)), t, s)' => Skipping(a, d)'
  BY <1>1 DEF Skipping
<1>4. \A t \in Seq(Elements) :
        At("ROOT", Append(<<Pam(0)>>, Pairs(0)), t, s)' \/ At("ROOT", <<Pam(0)>>, t, s)'
          => Ended(a, d)'
  BY <1>1 DEF Ended
<1>5. \A k \in Nat : Outside(k) = Append(<<Pam(0)>>, Pairs(k))
  OBVIOUS
<1> HIDE DEF Outside, s
<1>6. CASE Rest(a, rest) /\ At("APPL", Append(Outside(l), Pairs(0)), rest, s)
  <2>1. At("ROOT", Outside(l), rest, s)'
    BY <1>2, <1>6, OuterMapEnds
  <2> QED BY <1>1, <1>3, <1>6, <2>1
<1>7. CASE Rest(a, rest) /\ At("ROOT", Append(Outside(l), Pairs(0)), rest, s)
  <2>1. At("ROOT", Outside(l), rest, s)'
    BY <1>2, <1>7, OuterMapEnds
  <2> QED BY <1>1, <1>3, <1>7, <2>1
<1>8. CASE \E m \in Nat \ {0} : KeyNext(a, rest)
             /\ At("ROOT", Append(Outside(l), Pairs(m)), rest, s)
  <2>1. PICK m \in Nat \ {0} : KeyNext(a, rest) /\ At("ROOT", Append(Outside(l), Pairs(m)), rest, s)
    BY <1>8
  <2>2. PICK key \in AppKeys, t \in Seq(Elements) : rest = <<Str(key)>> \o t /\ Rest(a, t)
    BY <2>1 DEF KeyNext
  <2>3. At("ROOT", Append(Outside(l), Pairs(0)), t, s)'
    BY <1>2, <2>1, <2>2, KeySkipped DEF AppKeys
  <2> QED BY <1>3, <2>2, <2>3
<1>9. CASE Rest(a, rest) /\ At("ROOT", Outside(l), rest, s)
  <2> DEFINE o == <<Pam(0)>>
  <2>1. At("ROOT", Append(o, Pairs(l)), rest, s) /\ Outside(l - 1) = Append(o, Pairs(l - 1))
    BY <1>9 DEF Outside
  <2>2. o \in Seq(Frame) /\ o # <<>> /\ Len(o) < 6
    BY PamIsAFrame
  <2>3. \A t \in Seq(Elements) :
          At("ROOT", Append(o, Pairs(0)), t, s)' \/ At("ROOT", o, t, s)' => Ended(a, d)'
    BY <1>4
  <2> HIDE DEF o
  <2>4. CASE l = 0
    <3>1. At("ROOT", o, rest, s)'
      BY <2>1, <2>2, <2>4, OuterMapEnds
    <3> QED BY <1>1, <2>3, <3>1
  <2>5. CASE l # 0
    <3>0. l \in Nat \ {0} /\ l - 1 \in Nat
      BY <2>5
    <3>1. Unread(a, rest)
      BY <1>9, FirstIsRest
    <3>2. ASSUME NEW k \in Nat, NEW t \in Seq(Elements), rest = <<UInt(k)>> \o t, Rest(a, t)
          PROVE  Skipping(a, d)'
      <4>1. At("ROOT", Outside(l - 1), t, s)'
        BY <2>1, <2>2, <3>0, <3>2, NumberSkipped
      <4> QED BY <1>3, <3>0, <3>2, <4>1
    <3>3. ASSUME NEW k \in Nat, NEW t \in Seq(Elements), rest = <<Map(k)>> \o t
          PROVE  At("ROOT", Append(Outside(l - 1), Pairs(2 * k)), t, s)'
      BY <2>1, <2>2, <3>0, <3>3, MapInMap
    <3>4. ASSUME NEW t \in Seq(Elements), rest = <<Map(0)>> \o t, Rest(a, t)
          PROVE  Skipping(a, d)'
      <4>1. 0 \in Nat /\ 2 * 0 = 0
        OBVIOUS
      <4>2. At("ROOT", Append(Outside(l - 1), Pairs(0)), t, s)'
        BY <3>3, <3>4, <4>1
      <4> QED BY <1>3, <3>0, <3>4, <4>2
    <3>5. ASSUME NEW k \in Nat \ {0}, NEW t \in Seq(Elements), rest = <<Map(k)>> \o t, KeyNext(a, t)
          PROVE  Skipping(a, d)'
      <4>1. 2 * k \in Nat \ {0}
        OBVIOUS
      <4>2. At("ROOT", Append(Outside(l - 1), Pairs(2 * k)), t, s)'
        BY <3>3, <3>5
      <4> QED BY <1>3, <3>0, <3>5, <4>1, <4>2
    <3>6. ASSUME NEW key \in AppKeys, NEW t \in Seq(Elements), rest = <<Str(key)>> \o t
          PROVE  Ended(a, d)'
      <4>1. At("ROOT", Append(o, Pairs(0)), t, s)'
        BY <2>1, <2>2, <3>0, <3>6, KeySkipped DEF AppKeys
      <4> QED BY <2>3, <4>1
    <3>7. CASE rest = Others(a)
      <4>1. Harmless(a, d)
        <5>1. todo \in Seq(QuietElements)
          BY <1>9, <3>7, OthersAreQuiet DEF At
        <5>2. m_parsing_account_step = "ROOT" /\ ~past /\ SameApps(account, Stored(a, d, n))
          BY <1>9 DEF At, SameApps, s
        <5> QED BY <1>1, <5>1, <5>2 DEF Harmless, QuietSteps
      <4> QED BY <4>1, HarmlessStep
    <3> QED BY <3>1, <3>2, <3>4, <3>5, <3>6, <3>7 DEF Unread
  <2> QED BY <2>4, <2>5
<1> QED BY <1>1, <1>6, <1>7, <1>8, <1>9 DEF s

(* The loops around the applications *)
LEMMA OuterIsFrames ==
  ASSUME NEW a \in AccountAnswer
  PROVE  /\ Outer(a) \in Seq(Frame) /\ Outer(a) # <<>> /\ Len(Outer(a)) < 6 /\ Len(Outer(a)) < 3
         /\ 2 * Len(a.others) \in Nat /\ Outer(a) = Append(<<Pam(0)>>, Pairs(2 * Len(a.others)))
<1>1. 2 * Len(a.others) \in Nat
  BY AnswerTypes
<1> QED BY <1>1, PamIsAFrame DEF Outer

(* From one application to the next *)
LEMMA AppsStep ==
  ASSUME NEW a \in AccountAnswer, \A p \in 1 .. Len(a.apps) : PlainApp(a.apps[p]),
         NEW d, Fresh(d), InApps(a, d), ParserStep
  PROVE  InApps(a, d)' \/ Skipping(a, d)' \/ Harmless(a, d)'
<1> DEFINE o == Outer(a)
           k == Len(a.apps)
<1>1. /\ o \in Seq(Frame) /\ o # <<>> /\ Len(o) < 6 /\ Len(o) < 3 /\ k \in Nat
      /\ d.app_idx \in Nat /\ d.app_idx <= APPS_MAX_COUNT
  BY OuterIsFrames, AnswerTypes DEF Fresh
<1>2. \A n \in Nat : Stored(a, d, n).app_idx = d.app_idx + n
  BY DetailsFields DEF Stored
<1>3. /\ \A n \in 0 .. k :
           d.app_idx + n <= APPS_MAX_COUNT
             /\ At("APPL", Append(o, Pairs(2 * (k - n))), After(a, n + 1), Stored(a, d, n))'
           => InApps(a, d)'
      /\ \A n \in 0 .. k - 1 :
           d.app_idx + n < APPS_MAX_COUNT
           /\ InApp(o, 2 * (k - (n + 1)), After(a, (n + 1) + 1), Stored(a, d, n), a.apps[n + 1])'
           => InApps(a, d)'
  BY DEF InApps
<1>4. CASE \E n \in 0 .. k :
             /\ d.app_idx + n <= APPS_MAX_COUNT
             /\ At("APPL", Append(o, Pairs(2 * (k - n))), After(a, n + 1), Stored(a, d, n))
  <2>1. PICK n \in 0 .. k :
             /\ d.app_idx + n <= APPS_MAX_COUNT
             /\ At("APPL", Append(o, Pairs(2 * (k - n))), After(a, n + 1), Stored(a, d, n))
    BY <1>4
  <2> DEFINE b == Stored(a, d, n)
  <2>2. b.app_idx = d.app_idx + n
    BY <1>1, <1>2
  <2>3. CASE n = k
    <3>2. After(a, k + 1) = Others(a)
      BY AppsEncoded
    <3>0. After(a, k + 1) = Others(a) /\ 2 * (k - k) = 0
      <4> HIDE DEF k
      <4> QED BY <1>1, <3>2
    <3>1. 2 * (k - n) = 0 /\ After(a, n + 1) = Others(a) /\ AllTold(a, d, n)
      BY <2>1, <2>3, <3>0 DEF AllTold
    <3>5. At("ROOT", o, Others(a), b)'
      BY <1>1, <2>1, <3>1, OuterMapEnds
    <3>3. Others(a) \in Seq(QuietElements)
      BY OthersAreQuiet
    <3>4. m_parsing_account_step' = "ROOT" /\ ~past' /\ todo' \in Seq(QuietElements)
          /\ SameApps(account, Stored(a, d, n))'
      BY <3>5, <3>3 DEF At, SameApps
    <3> QED BY <3>1, <3>4 DEF Harmless, QuietSteps
  <2>4. CASE n # k
    <3> DEFINE x == a.apps[n + 1]
               t == After(a, (n + 1) + 1)
               map == <<AppMap(x)>> \o (SchemaPart(x) \o (VariablesPart(x) \o t))
               l == 2 * (k - (n + 1))
    <3>1. n + 1 \in 1 .. k /\ n \in 0 .. k - 1 /\ n \in Nat
      BY <1>1, <2>4
    <3>2. l \in Nat /\ 2 * (k - n) \in Nat \ {0} /\ 2 * (k - n) - 1 = l + 1
      BY <1>1, <3>1
    <3>3. x \in App /\ t \in Seq(Elements) /\ x.id \in Nat
      BY <3>1, AfterIsRest DEF App
    <3>4. After(a, n + 1) = AppFields(x) \o t
      BY <3>1, AppsEncoded
    <3>5. \A r : Left(r, x, t) => Rest(a, r)
      BY <3>1 DEF Rest
    <3> HIDE DEF x, t
    <3>6. After(a, n + 1) = <<UInt(x.id)>> \o map
      BY <3>3, <3>4, AppEncoded DEF AppMap
    <3>7. map \in Seq(Elements)
      <4>1. SchemaPart(x) \o (VariablesPart(x) \o t) \in Seq(Elements)
        BY <3>3, AppParts
      <4>2. AppMap(x) \in Elements
        BY OneIsNat, ElementTypes DEF AppMap
      <4> QED BY <4>1, <4>2, NextElement
    <3>8. Rest(a, map)
      BY <3>5 DEF Left
    <3>9. At("APPL", Append(o, Pairs(2 * (k - n))), <<UInt(x.id)>> \o map, b)
      BY <2>1, <3>6
    <3>10. CASE d.app_idx + n < APPS_MAX_COUNT
      <4>1. IdSet(b, x.id) = With(b, Rec(x, 0, NoKeyValue))
        BY <3>1, <3>10, AppIdWritten
      <4> DEFINE m == 2 * (k - n)
                 id == x.id
      <4>5. m \in Nat \ {0} /\ m - 1 = l + 1 /\ id \in Nat
        BY <3>2, <3>3
      <4>6. At("APPL", Append(o, Pairs(m)), <<UInt(id)>> \o map, b)
        BY <3>9
      <4>7. b.app_idx < APPS_MAX_COUNT /\ b.app_idx \in Nat
        BY <1>1, <2>2, <3>1, <3>10
      <4> HIDE DEF map, b, l, o, m, id
      <4>8. At("APPL_ID", Append(o, Pairs(m - 1)), map, IdSet(b, id))'
        BY <1>1, <3>7, <4>5, <4>6, <4>7, AppIdRead
      <4>2. At("APPL_ID", Append(o, Pairs(l + 1)), map, IdSet(b, x.id))'
        BY <4>5, <4>8 DEF id
      <4>3. At("APPL_ID", Append(o, Pairs(l + 1)), map, With(b, Rec(x, 0, NoKeyValue)))'
        BY <4>1, <4>2
      <4>4. InApp(o, l, t, b, x)'
        BY <4>3 DEF InApp, map, AppMap
      <4> QED BY <1>3, <3>1, <3>10, <4>4 DEF b, l, o, t, x
    <3>11. CASE ~(d.app_idx + n < APPS_MAX_COUNT)
      <4>3. APPS_MAX_COUNT \in Nat
        BY ParserAssumption, Zenon DEF ParserAssumption
      <4>0. d.app_idx + n = APPS_MAX_COUNT
        <5> DEFINE i == d.app_idx + n
        <5>1. i \in Nat
          BY <1>1, <3>1
        <5>2. i <= APPS_MAX_COUNT /\ ~(i < APPS_MAX_COUNT)
          BY <2>1, <3>11
        <5> HIDE DEF i
        <5>3. i = APPS_MAX_COUNT
          BY <4>3, <5>1, <5>2
        <5> QED BY <5>3 DEF i
      <4>1. d.app_idx + n = APPS_MAX_COUNT /\ AllTold(a, d, n)
        BY <2>1, <4>0 DEF AllTold
      <4> HIDE DEF map, b, o
      <4>2. At("APPL", Append(o, Pairs(0)), map, b)'
        BY <1>1, <2>2, <3>2, <3>3, <3>7, <3>9, <4>1, AppNotRead
      <4> QED BY <3>1, <3>7, <3>8, <4>1, <4>2, OuterIsFrames DEF Skipping, b, o
    <3> QED BY <3>10, <3>11
  <2> QED BY <2>3, <2>4
<1>5. CASE \E n \in 0 .. k - 1 :
             /\ d.app_idx + n < APPS_MAX_COUNT
             /\ InApp(o, 2 * (k - (n + 1)), After(a, (n + 1) + 1), Stored(a, d, n), a.apps[n + 1])
  <2>1. PICK n \in 0 .. k - 1 :
             /\ d.app_idx + n < APPS_MAX_COUNT
             /\ InApp(o, 2 * (k - (n + 1)), After(a, (n + 1) + 1), Stored(a, d, n), a.apps[n + 1])
    BY <1>5
  <2> DEFINE b == Stored(a, d, n)
             x == a.apps[n + 1]
             t == After(a, (n + 1) + 1)
             l == 2 * (k - (n + 1))
  <2>2. n + 1 \in 1 .. k /\ n \in Nat /\ l \in Nat /\ n + 1 \in 0 .. k
    <3>1. k \in Nat /\ n \in 0 .. k - 1
      BY <1>1, <2>1
    <3> HIDE DEF b, x, t, o, k
    <3> QED BY <3>1 DEF l
  <2>10. d.app_idx + (n + 1) <= APPS_MAX_COUNT
    <3>1. APPS_MAX_COUNT \in Nat
      BY ParserAssumption, Zenon DEF ParserAssumption
    <3> QED BY <1>1, <2>1, <2>2, <3>1
  <2>3. PlainApp(x) /\ t \in Seq(Elements) /\ (HasVariables(x) => HasSchema(x))
    BY <2>2, AfterIsRest
  <2>4. HasRoom(b)
    BY <2>1, <2>2, StoredHasRoom
  <2>5. AppDone(With(b, AppRecord(x))) = Stored(a, d, n + 1)
    BY <2>1, <2>2, AppStored
  <2>6. InApp(o, l, t, b, x)
    BY <2>1
  <2> HIDE DEF b, x, t, l, o
  <2>7. InApp(o, l, t, b, x)' \/ At("APPL", Append(o, Pairs(l)), t, AppDone(With(b, AppRecord(x))))'
    BY <1>1, <2>2, <2>3, <2>4, <2>6, AppStep
  <2>8. CASE InApp(o, l, t, b, x)'
    BY <1>3, <2>1, <2>8 DEF b, x, t, l
  <2>9. CASE At("APPL", Append(o, Pairs(l)), t, Stored(a, d, n + 1))'
    BY <1>3, <2>2, <2>9, <2>10 DEF t, l
  <2> QED BY <2>5, <2>7, <2>8, <2>9
<1> QED BY <1>4, <1>5 DEF InApps

(***************************************************************************)
(* The fields before the applications                                      *)
(***************************************************************************)
FromApps(a) == AppsPart(a) \o Others(a)
InHead(a, d) ==
  LET more == One(a.apps # <<>>) + Len(a.others) IN
  \/ At("ROOT", Append(<<>>, FrameOf("parser_account_mpack", 1)), AccountBody(a), d)
  \/ /\ a.amount # 0
     /\ At("ROOT", Append(<<Pam(0)>>, Pairs(2 * more + 2)),
           <<Str("algo")>> \o (<<UInt(a.amount)>> \o FromApps(a)), d)
  \/ /\ a.amount # 0
     /\ At("ALGO", Append(<<Pam(0)>>, Pairs(2 * more + 1)), <<UInt(a.amount)>> \o FromApps(a), d)
  \/ /\ a.apps # <<>>
     /\ At("ROOT", Append(<<Pam(0)>>, Pairs(2 * more)), FromApps(a), Stored(a, d, 0))
  \/ /\ a.apps # <<>>
     /\ At("APPL", Append(<<Pam(0)>>, Pairs(2 * Len(a.others) + 1)), Apps(a) \o Others(a),
           Stored(a, d, 0))

(* What comes of the fields before the applications *)
LEMMA HeadParts ==
  ASSUME NEW a \in AccountAnswer
  PROVE  /\ FromApps(a) \in Seq(Elements) /\ Apps(a) \o Others(a) \in Seq(Elements)
         /\ <<UInt(a.amount)>> \o FromApps(a) \in Seq(Elements)
         /\ a.apps = <<>> => FromApps(a) = Others(a)
         /\ a.apps # <<>> => FromApps(a) = <<Str("appl")>> \o (Apps(a) \o Others(a))
         /\ a.amount = 0 => AmountPart(a) \o FromApps(a) = FromApps(a)
         /\ a.amount # 0 =>
              AmountPart(a) \o FromApps(a) = <<Str("algo")>> \o (<<UInt(a.amount)>> \o FromApps(a))
<1>1. /\ Others(a) \in Seq(Elements) /\ Apps(a) \in Seq(Elements) /\ AppsPart(a) \in Seq(Elements)
      /\ "algo" \in Text /\ "appl" \in Text /\ a.amount \in Nat
  BY AppsEncoded, BodyEncoded, KeysAreText, AnswerTypes DEF Keys
<1>2. FromApps(a) \in Seq(Elements) /\ Apps(a) \o Others(a) \in Seq(Elements)
  BY <1>1, ConcatProperties DEF FromApps
<1>3. /\ Part(TRUE, "appl", Apps(a)) \o Others(a) = <<Str("appl")>> \o (Apps(a) \o Others(a))
      /\ Part(FALSE, "appl", Apps(a)) \o Others(a) = Others(a)
  BY <1>1, PartOf
<1>4. /\ a.apps = <<>> => FromApps(a) = Others(a)
      /\ a.apps # <<>> => FromApps(a) = <<Str("appl")>> \o (Apps(a) \o Others(a))
  <2>1. CASE a.apps = <<>>
    <3>1. AppsPart(a) = Part(FALSE, "appl", Apps(a))
      BY <2>1 DEF AppsPart, Part
    <3> QED BY <1>3, <2>1, <3>1 DEF FromApps
  <2>2. CASE a.apps # <<>>
    <3>1. AppsPart(a) = Part(TRUE, "appl", Apps(a))
      BY <2>2 DEF AppsPart, Part
    <3> QED BY <1>3, <2>2, <3>1 DEF FromApps
  <2> QED BY <2>1, <2>2
<1> DEFINE t == FromApps(a)
           v == <<UInt(a.amount)>>
<1>5. t \in Seq(Elements) /\ v \in Seq(Elements) /\ v \o t \in Seq(Elements)
  BY <1>1, <1>2, ElementTypes, OneElement, NextElement
<1>6. AmountPart(a) = IF a.amount # 0 THEN Part(TRUE, "algo", v) ELSE Part(FALSE, "algo", v)
  BY DEF AmountPart, Part
<1> HIDE DEF t, v
<1>7. /\ Part(TRUE, "algo", v) \o t = <<Str("algo")>> \o (v \o t)
      /\ Part(FALSE, "algo", v) \o t = t
  BY <1>1, <1>5, PartOf
<1>8. /\ a.amount = 0 => AmountPart(a) \o t = t
      /\ a.amount # 0 => AmountPart(a) \o t = <<Str("algo")>> \o (v \o t)
  BY <1>6, <1>7
<1> QED BY <1>2, <1>4, <1>5, <1>8 DEF t, v

(* Before the applications, or, if there are none, before the other fields *)
LEMMA BeforeApps ==
  ASSUME NEW a \in AccountAnswer, NEW d, Fresh(d), NEW l,
         l = 2 * (One(a.apps # <<>>) + Len(a.others)),
         At("ROOT", Append(<<Pam(0)>>, Pairs(l)), FromApps(a), Stored(a, d, 0))'
  PROVE  InHead(a, d)' \/ Harmless(a, d)'
<1>1. CASE a.apps = <<>>
  <2>1. Len(a.apps) = 0
    BY <1>1, EmptySeq
  <2>2. 0 \in 0 .. Len(a.apps) /\ AllTold(a, d, 0)
    BY <2>1 DEF AllTold, Fresh
  <2>3. Others(a) \in Seq(QuietElements) /\ FromApps(a) = Others(a)
    BY <1>1, OthersAreQuiet, HeadParts
  <2>4. /\ m_parsing_account_step' = "ROOT" /\ ~past' /\ todo' \in Seq(QuietElements)
        /\ SameApps(account, Stored(a, d, 0))'
    BY <2>3 DEF At, SameApps
  <2> QED BY <2>2, <2>4 DEF Harmless, QuietSteps
<1>2. CASE a.apps # <<>>
  BY <1>2 DEF InHead
<1> QED BY <1>1, <1>2

(* A step there stays there, or goes on to the applications or past them. *)
LEMMA HeadStep ==
  ASSUME NEW a \in AccountAnswer, ~a.created, NEW d, Fresh(d), InHead(a, d), ParserStep
  PROVE  InHead(a, d)' \/ InApps(a, d)' \/ Harmless(a, d)'
<1> DEFINE more == One(a.apps # <<>>) + Len(a.others)
           o == <<Pam(0)>>
           t == FromApps(a)
           s == Stored(a, d, 0)
           head == <<UInt(a.amount)>> \o t
<1>1. more \in Nat /\ o \in Seq(Frame) /\ Len(o) < 6 /\ o # <<>> /\ a.amount \in Nat
        /\ Len(a.others) \in Nat
      /\ (a.apps # <<>> => more = Len(a.others) + 1)
  <2> DEFINE n == Len(a.others)
             one == One(a.apps # <<>>)
  <2>1. n \in Nat /\ a.amount \in Nat
    BY AnswerTypes
  <2>2. one \in {0, 1} /\ (a.apps # <<>> => one = 1)
    BY DEF One
  <2> HIDE DEF n, one
  <2>3. one + n \in Nat /\ (a.apps # <<>> => one + n = n + 1)
    BY <2>1, <2>2
  <2> QED BY <2>1, <2>3, PamIsAFrame DEF n, one
<1>2. t \in Seq(Elements) /\ head \in Seq(Elements)
  BY HeadParts
<1>3. /\ \A l : l = 2 * more /\ At("ROOT", Append(o, Pairs(l)), t, s)' => InHead(a, d)'
           \/ Harmless(a, d)'
      /\ a.amount # 0 /\ At("ROOT", Append(o, Pairs(2 * more + 2)), <<Str("algo")>> \o head, d)'
           => InHead(a, d)'
      /\ a.amount # 0 /\ At("ALGO", Append(o, Pairs(2 * more + 1)), head, d)' => InHead(a, d)'
      /\ a.apps # <<>>
           /\ At("APPL", Append(o, Pairs(2 * Len(a.others) + 1)), Apps(a) \o Others(a), s)'
         => InHead(a, d)'
  <2>1. ASSUME NEW l, l = 2 * more, At("ROOT", Append(o, Pairs(l)), t, s)'
        PROVE  InHead(a, d)' \/ Harmless(a, d)'
    BY <2>1, BeforeApps
  <2> QED BY <2>1 DEF InHead
<1>4. /\ a.amount = 0 => s = d /\ AmountPart(a) \o t = t
      /\ a.amount # 0 => AmountSet(d, AsInt32(a.amount)) = s
           /\ AmountPart(a) \o t = <<Str("algo")>> \o head
  BY NothingStored, HeadParts
<1>5. /\ <<"ROOT", "algo", "ALGO">> \in KeyLeadsTo /\ "algo" \in Text
      /\ <<"ROOT", "appl", "APPL">> \in KeyLeadsTo /\ "appl" \in Text
  BY KeysAreText DEF KeyLeadsTo, Keys
<1>6. CASE At("ROOT", Append(<<>>, FrameOf("parser_account_mpack", 1)), AccountBody(a), d)
  <2> DEFINE n == One(a.amount # 0) + One(a.apps # <<>>) + Len(a.others)
             parts == AmountPart(a) \o t
             empty == <<>>
  <2>1. AccountBody(a) = <<Map(n)>> \o parts
    BY BodyEncoded DEF FromApps
  <2>2. /\ n \in Nat /\ (a.amount = 0 => 2 * n = 2 * more) /\ (a.amount # 0 => 2 * n = 2 * more + 2)
    <3> DEFINE k == Len(a.others)
               one == One(a.apps # <<>>)
               two == One(a.amount # 0)
    <3>1. k \in Nat
      BY AnswerTypes
    <3>2. one \in {0, 1} /\ two \in {0, 1} /\ (a.amount = 0 => two = 0) /\ (a.amount # 0 => two = 1)
      BY DEF One
    <3> HIDE DEF k, one, two
    <3>3. /\ two + one + k \in Nat /\ (a.amount = 0 => 2 * (two + one + k) = 2 * (one + k))
          /\ (a.amount # 0 => 2 * (two + one + k) = 2 * (one + k) + 2)
      BY <3>1, <3>2
    <3> QED BY <3>3 DEF k, one, two
  <2>3. parts \in Seq(Elements)
    BY <1>2, BodyEncoded, ConcatProperties
  <2>4. /\ empty \in Seq(Frame) /\ Len(empty) < 6
             /\ Append(empty, FrameOf("parser_account_mpack", 0)) = o
        /\ "parser_account_mpack" \in FrameKinds /\ 1 \in Nat \ {0} /\ 1 - 1 = 0
    BY DEF FrameKinds, Pam
  <2>5. At("ROOT", Append(empty, FrameOf("parser_account_mpack", 1)), <<Map(n)>> \o parts, d)
    BY <1>6, <2>1
  <2> HIDE DEF n, parts, empty, o
  <2>6. At("ROOT", Append(Append(empty, FrameOf("parser_account_mpack", 1 - 1)), Pairs(2 * n)),
          parts, d)'
    BY <2>2, <2>3, <2>4, <2>5, MapRead
  <2>7. At("ROOT", Append(o, Pairs(2 * n)), parts, d)'
    BY <2>4, <2>6
  <2>8. CASE a.amount = 0
    <3>1. At("ROOT", Append(o, Pairs(2 * n)), t, s)' /\ 2 * n = 2 * more
      BY <1>4, <2>2, <2>7, <2>8 DEF parts
    <3> QED BY <1>3, <3>1
  <2>9. CASE a.amount # 0
    <3>1. At("ROOT", Append(o, Pairs(2 * more + 2)), <<Str("algo")>> \o head, d)'
      BY <1>4, <2>2, <2>7, <2>9 DEF parts
    <3> QED BY <1>3, <2>9, <3>1
  <2> QED BY <2>8, <2>9
<1>7. CASE a.amount # 0 /\ At("ROOT", Append(o, Pairs(2 * more + 2)), <<Str("algo")>> \o head, d)
  <2> DEFINE l == 2 * more + 2
  <2>1. l \in Nat \ {0} /\ l - 1 = 2 * more + 1
    BY <1>1
  <2>2. At("ROOT", Append(o, Pairs(l)), <<Str("algo")>> \o head, d)
    BY <1>7
  <2> HIDE DEF l, head, o
  <2>3. At("ALGO", Append(o, Pairs(l - 1)), head, d)'
    BY <1>1, <1>2, <1>5, <2>1, <2>2, KeyRead
  <2> QED BY <1>3, <1>7, <2>1, <2>3
<1>8. CASE a.amount # 0 /\ At("ALGO", Append(o, Pairs(2 * more + 1)), head, d)
  <2> DEFINE l == 2 * more + 1
             n == a.amount
  <2>1. l \in Nat \ {0} /\ l - 1 = 2 * more /\ n \in Nat
    BY <1>1
  <2>2. At("ALGO", Append(o, Pairs(l)), <<UInt(n)>> \o t, d)
    BY <1>8
  <2>4. AmountSet(d, AsInt32(n)) = s
    BY <1>4, <1>8
  <2> HIDE DEF l, o, n, t, s
  <2>3. At("ROOT", Append(o, Pairs(l - 1)), t, AmountSet(d, AsInt32(n)))'
    BY <1>1, <1>2, <2>1, <2>2, AmountRead
  <2> QED BY <1>3, <2>1, <2>3, <2>4
<1>9. CASE a.apps # <<>> /\ At("ROOT", Append(o, Pairs(2 * more)), t, s)
  <2> DEFINE l == 2 * more
             u == Apps(a) \o Others(a)
  <2>1. l \in Nat \ {0} /\ l - 1 = 2 * Len(a.others) + 1
    BY <1>1, <1>9
  <2>2. At("ROOT", Append(o, Pairs(l)), <<Str("appl")>> \o u, s) /\ u \in Seq(Elements)
    BY <1>9, HeadParts
  <2> HIDE DEF l, u, o, s
  <2>3. At("APPL", Append(o, Pairs(l - 1)), u, s)'
    BY <1>1, <1>5, <2>1, <2>2, KeyRead
  <2> QED BY <1>3, <1>9, <2>1, <2>3 DEF u
<1>10. CASE a.apps # <<>>
              /\ At("APPL", Append(o, Pairs(2 * Len(a.others) + 1)), Apps(a) \o Others(a), s)
  <2> DEFINE l == 2 * Len(a.others) + 1
             n == Len(a.apps)
             u == After(a, 1)
  <2>1. l \in Nat \ {0} /\ l - 1 = 2 * Len(a.others) /\ n \in Nat /\ u \in Seq(Elements)
    <3>1. n \in Nat /\ Len(a.others) \in Nat
      BY AnswerTypes
    <3>2. u \in Seq(Elements)
      <4>1. \A p \in Nat \ {0} : After(a, p) \in Seq(Elements)
        BY AppsEncoded
      <4>2. 1 \in Nat \ {0}
        OBVIOUS
      <4> QED BY <4>1, <4>2
    <3> DEFINE k == Len(a.others)
    <3> HIDE DEF k
    <3>3. 2 * k + 1 \in Nat \ {0} /\ (2 * k + 1) - 1 = 2 * k
      BY <3>1 DEF k
    <3> QED BY <3>1, <3>2, <3>3 DEF k
  <2>2. At("APPL", Append(o, Pairs(l)), <<Map(n)>> \o u, s)
    BY <1>10, AppsEncoded
  <2> HIDE DEF l, n, u, o, s
  <2>3. At("APPL", Append(Append(o, Pairs(l - 1)), Pairs(2 * n)), u, s)'
    BY <1>1, <2>1, <2>2, MapInMap
  <2>4. Append(o, Pairs(l - 1)) = Outer(a)
    BY <2>1 DEF Outer, o
  <2>5. 0 \in 0 .. n /\ n - 0 = n /\ 0 + 1 = 1 /\ d.app_idx + 0 <= APPS_MAX_COUNT
    BY <2>1 DEF Fresh
  <2>6. At("APPL", Append(Outer(a), Pairs(2 * (n - 0))), After(a, 0 + 1), Stored(a, d, 0))'
    BY <2>3, <2>4, <2>5 DEF u, s
  <2> QED BY <2>5, <2>6 DEF InApps, n
<1> QED BY <1>6, <1>7, <1>8, <1>9, <1>10 DEF InHead

(***************************************************************************)
(* From the request to the end of the call                                 *)
(***************************************************************************)
Follows(a, d) ==
  InHead(a, d) \/ InApps(a, d) \/ Skipping(a, d) \/ Ended(a, d) \/ Harmless(a, d)

(* A step of the parser leads from one place in the answer to another. *)
LEMMA FollowsStep ==
  ASSUME NEW a \in AccountAnswer, Plain(a), NEW d, Fresh(d), ParserTypes, Follows(a, d), ParserStep
  PROVE  Follows(a, d)'
<1>1. \A p \in 1 .. Len(a.apps) : PlainApp(a.apps[p])
  <2> TAKE p \in 1 .. Len(a.apps)
  <2> DEFINE x == a.apps[p]
  <2>1. p \in DOMAIN a.apps /\ x \in App
    BY AnswerTypes
  <2>2. Len(x.variables) <= APPS_KV_MAX_COUNT /\ \A k \in DOMAIN x.variables :
          x.variables[k].type = 2
    BY <2>1 DEF Plain
  <2>3. x.variables \in Seq(KeyValue)
    BY <2>1 DEF App
  <2> HIDE DEF x
  <2>4. DOMAIN x.variables = 1 .. Len(x.variables)
    BY <2>3, LenProperties
  <2>5. PlainApp(x)
    BY <2>1, <2>2, <2>4 DEF PlainApp, x
  <2> QED BY <2>5 DEF x
<1>2. ~a.created
  BY DEF Plain
<1>3. CASE InHead(a, d)
  BY <1>2, <1>3, HeadStep DEF Follows
<1>4. CASE InApps(a, d)
  BY <1>1, <1>4, AppsStep DEF Follows
<1>5. CASE Skipping(a, d)
  BY <1>5, SkippingStep DEF Follows
<1>6. CASE Ended(a, d)
  BY <1>6, EndedStep DEF Follows
<1>7. CASE Harmless(a, d)
  BY <1>7, HarmlessStep DEF Follows
<1> QED BY <1>3, <1>4, <1>5, <1>6, <1>7 DEF Follows

(* What the parser's variables say, they say as long as those stay. *)
LEMMA FollowsUnchanged ==
  ASSUME NEW a, NEW d, Follows(a, d), UNCHANGED parserVars
  PROVE  Follows(a, d)'
<1>1. /\ \A st, o, t, e : At(st, o, t, e)' = At(st, o, t, e)
  BY DEF At, parserVars
<1>2. Harmless(a, d)' = Harmless(a, d)
  BY DEF Harmless, parserVars
<1>3. /\ \A o, t, x, e : InSchema(o, t, x, e)' = InSchema(o, t, x, e)
      /\ \A o, t, b, x, q : InVariable(o, t, b, x, q)' = InVariable(o, t, b, x, q)
  BY <1>1 DEF InSchema, InVariable
<1>4. \A o, t, b, x : InVariables(o, t, b, x)' = InVariables(o, t, b, x)
  BY <1>1, <1>3 DEF InVariables
<1>5. \A o, l, t, b, x : InApp(o, l, t, b, x)' = InApp(o, l, t, b, x)
  BY <1>1, <1>3, <1>4 DEF InApp
<1> QED BY <1>1, <1>2, <1>5 DEF Follows, InHead, InApps, Skipping, Ended

(***************************************************************************)
(* When the call returns                                                   *)
(***************************************************************************)
Deep == Len(open) # 1 /\ ~past
Settled(a, d) == \E n \in 0 .. Len(a.apps) : AllTold(a, d, n) /\ SameApps(account, Stored(a, d, n))

(* In an answer, the parser is in more loops than that of the call. *)
LEMMA AtIsDeep ==
  ASSUME NEW st, NEW S, NEW o \in Seq(S), o # <<>>, NEW f, NEW t, NEW d, At(st, Append(o, f), t, d)
  PROVE  Deep
<1>1. open = Append(o, f) /\ ~past
  BY DEF At
<1>2. o \in Seq(S \cup {f}) /\ f \in S \cup {f} /\ Len(o) \in Nat \ {0}
  BY EmptySeq, LenProperties
<1>3. Len(Append(o, f)) = Len(o) + 1
  BY <1>2, AppendProperties
<1> QED BY <1>1, <1>2, <1>3 DEF Deep

(* A loop is opened, whatever it is. *)
LEMMA Opens ==
  ASSUME NEW S, NEW o \in Seq(S), NEW f
  PROVE  Append(o, f) \in Seq(S \cup {f}) /\ Append(o, f) # <<>>
<1>1. o \in Seq(S \cup {f}) /\ f \in S \cup {f} /\ Len(o) \in Nat
  BY LenProperties
<1>2. Append(o, f) \in Seq(S \cup {f}) /\ Len(Append(o, f)) = Len(o) + 1
  BY <1>1, AppendProperties
<1> QED BY <1>1, <1>2, EmptySeq

(* So it is in an application. *)
LEMMA InAppIsDeep ==
  ASSUME NEW o \in Seq(Frame), o # <<>>, NEW l \in Nat, NEW t, NEW b, NEW x, InApp(o, l, t, b, x)
  PROVE  Deep
<1>1. \A n \in Nat : Append(o, Pairs(n)) \in Seq(Frame) /\ Append(o, Pairs(n)) # <<>>
  BY FramesGrow
<1>2. One(HasVariables(x)) \in Nat
  BY DEF One
<1>3. ASSUME NEW u \in Seq(Frame), u # <<>>, NEW s, NEW v, NEW w, InSchema(u, s, v, w)
      PROVE  Deep
  BY <1>3, AtIsDeep DEF InSchema
<1>4. ASSUME NEW u \in Seq(Frame), u # <<>>, NEW s, NEW v, NEW w, NEW q, InVariable(u, s, v, w, q)
      PROVE  Deep
  <2> DEFINE f == Pairs(2 * (Len(w.variables) - q))
             inner == Append(u, f)
  <2>1. inner \in Seq(Frame \cup {f}) /\ inner # <<>>
    BY <1>4, Opens
  <2>2. \E st, g, r, e : At(st, Append(u, g), r, e) \/ At(st, Append(inner, g), r, e)
    BY <1>4 DEF InVariable
  <2> HIDE DEF inner, f
  <2> QED BY <1>4, <2>1, <2>2, AtIsDeep
<1>5. ASSUME NEW u \in Seq(Frame), u # <<>>, NEW s, NEW v, NEW w, InVariables(u, s, v, w)
      PROVE  Deep
  BY <1>4, <1>5, AtIsDeep DEF InVariables
<1>6. Append(o, Pairs(l)) \in Seq(Frame) /\ Append(o, Pairs(l)) # <<>>
      /\ 2 * One(HasVariables(x)) \in Nat /\ 0 \in Nat
  BY <1>1, <1>2
<1> DEFINE inner == Append(o, Pairs(l))
<1>7. \A n \in Nat : Append(inner, Pairs(n)) \in Seq(Frame) /\ Append(inner, Pairs(n)) # <<>>
  BY <1>6, FramesGrow
<1>8. \/ \E n \in Nat : \E s, v, w : InSchema(Append(inner, Pairs(n)), s, v, w)
      \/ \E n \in Nat : \E s, v, w : InVariables(Append(inner, Pairs(n)), s, v, w)
      \/ \E st, g, r, e : At(st, Append(o, g), r, e) \/ At(st, Append(inner, g), r, e)
  BY <1>6 DEF InApp
<1> HIDE DEF inner
<1>9. CASE \E n \in Nat : \E s, v, w : InSchema(Append(inner, Pairs(n)), s, v, w)
  BY <1>3, <1>7, <1>9
<1>10. CASE \E n \in Nat : \E s, v, w : InVariables(Append(inner, Pairs(n)), s, v, w)
  BY <1>5, <1>7, <1>10
<1>11. CASE \E st, g, r, e : At(st, Append(o, g), r, e) \/ At(st, Append(inner, g), r, e)
  BY <1>6, <1>11, AtIsDeep DEF inner
<1> QED BY <1>8, <1>9, <1>10, <1>11

(* When the call of a plain answer returns, its applications were stored,  *)
(* or as many as fit; nothing was written past an array before.            *)
LEMMA CallEnds ==
  ASSUME NEW a \in AccountAnswer, NEW d, Follows(a, d)
  PROVE  ~past /\ (Parsed => Settled(a, d))
<1> DEFINE o == <<Pam(0)>>
<1>1. o \in Seq(Frame) /\ o # <<>>
  BY PamIsAFrame
<1>2. /\ \A l \in Nat : Append(o, Pairs(l)) \in Seq(Frame) /\ Append(o, Pairs(l)) # <<>>
      /\ Outer(a) \in Seq(Frame) /\ Outer(a) # <<>>
  BY <1>1, FramesGrow, OuterIsFrames
<1>3. Deep => ~past /\ ~Parsed
  BY DEF Deep, Parsed
<1>4. ASSUME NEW st, NEW f, NEW t, NEW e, NEW l \in Nat,
             At(st, Append(o, f), t, e) \/ At(st, Append(Append(o, Pairs(l)), f), t, e)
             \/ At(st, Append(Outer(a), f), t, e)
      PROVE  Deep
  <2> HIDE DEF o
  <2> QED BY <1>1, <1>2, <1>4, AtIsDeep
<1>5. CASE InHead(a, d)
  <2>1. CASE At("ROOT", Append(<<>>, FrameOf("parser_account_mpack", 1)), AccountBody(a), d)
    <3>1. open = <<FrameOf("parser_account_mpack", 1)>> /\ reader_ok /\ ~past
      BY <2>1 DEF At
    <3>2. open[1].left = 1
      BY <3>1 DEF FrameOf
    <3> QED BY <3>1, <3>2 DEF Parsed
  <2>2. CASE \E st, f, t, e : At(st, Append(o, f), t, e)
    <3>1. 0 \in Nat
      OBVIOUS
    <3> QED BY <1>3, <1>4, <2>2, <3>1
  <2> QED BY <1>5, <2>1, <2>2 DEF InHead
<1>6. CASE InApps(a, d)
  <2>1. CASE \E st, f, t, e : At(st, Append(Outer(a), f), t, e)
    <3>1. 0 \in Nat
      OBVIOUS
    <3> QED BY <1>3, <1>4, <2>1, <3>1
  <2>2. CASE \E n \in 0 .. Len(a.apps) - 1 : \E t, b, x :
               InApp(Outer(a), 2 * (Len(a.apps) - (n + 1)), t, b, x)
    <3>1. PICK n \in 0 .. Len(a.apps) - 1 :
                 \E t, b, x : InApp(Outer(a), 2 * (Len(a.apps) - (n + 1)), t, b, x)
      BY <2>2
    <3>2. 2 * (Len(a.apps) - (n + 1)) \in Nat
      BY AnswerTypes
    <3> QED BY <1>2, <1>3, <3>1, <3>2, InAppIsDeep
  <2> QED BY <1>6, <2>1, <2>2 DEF InApps
<1>7. CASE Skipping(a, d)
  <2>1. \E l \in Nat : \E st, f, t, e :
          At(st, Append(o, f), t, e) \/ At(st, Append(Append(o, Pairs(l)), f), t, e)
    BY <1>7 DEF Skipping
  <2> QED BY <1>3, <1>4, <2>1
<1>8. CASE Ended(a, d)
  <2>1. PICK n \in 0 .. Len(a.apps), t \in Seq(Elements) :
          /\ AllTold(a, d, n)
          /\ At("ROOT", Append(o, Pairs(0)), t, Stored(a, d, n))
               \/ At("ROOT", o, t, Stored(a, d, n))
    BY <1>8 DEF Ended
  <2>2. account = Stored(a, d, n) /\ ~past
    BY <2>1 DEF At
  <2> QED BY <2>1, <2>2 DEF Settled, SameApps
<1>9. CASE Harmless(a, d)
  BY <1>9 DEF Harmless, Settled
<1> QED BY <1>5, <1>6, <1>7, <1>8, <1>9 DEF Follows

(***************************************************************************)
(* What an account has after some answers                                  *)
(***************************************************************************)
ToldIn(heard) == FlattenSeq([n \in DOMAIN heard |-> heard[n].apps])
Holds(details, told) ==
  /\ details.app_idx = IF Len(told) < APPS_MAX_COUNT THEN Len(told) ELSE APPS_MAX_COUNT
  /\ \A j \in 0 .. APPS_MAX_COUNT - 1 :
       details.apps_local[j] = IF j < details.app_idx THEN AppRecord(told[j + 1]) ELSE NoApp
Balanced(amount, heard) ==
  \A n \in DOMAIN heard :
    LET told == heard[n].amount IN
    /\ told # 0 /\ 2 * told < INT32_RANGE
    /\ \A later \in DOMAIN heard : later > n => heard[later].amount = 0
    => amount = told

(* A number that fits an int32_t is stored as it is. *)
LEMMA SmallAsInt32 ==
  ASSUME NEW n \in Nat, 2 * n < INT32_RANGE
  PROVE  AsInt32(n) = n
<1>1. INT32_RANGE \in Nat \ {0}
  BY ParserAssumption, Zenon DEF ParserAssumption
<1>2. n % INT32_RANGE = n
  BY <1>1
<1> QED BY <1>2 DEF AsInt32

(* A sequence with one more element *)
LEMMA OneMore ==
  ASSUME NEW T, NEW s \in Seq(T), NEW e \in T, NEW u, u = Append(s, e)
  PROVE  /\ u \in Seq(T) /\ u # <<>> /\ Len(u) = Len(s) + 1 /\ Len(s) \in Nat
         /\ DOMAIN u = 1 .. Len(s) + 1 /\ DOMAIN s = 1 .. Len(s)
         /\ \A n \in 1 .. Len(s) : u[n] = s[n]
         /\ u[Len(s) + 1] = e /\ u[Len(u)] = e
         /\ SubSeq(u, 1, Len(u) - 1) = s
<1>1. /\ u \in Seq(T) /\ Len(u) = Len(s) + 1 /\ Len(s) \in Nat
      /\ \A n \in 1 .. Len(s) : u[n] = s[n]
      /\ u[Len(s) + 1] = e
  BY AppendProperties, LenProperties
<1>2. u # <<>> /\ DOMAIN u = 1 .. Len(s) + 1 /\ DOMAIN s = 1 .. Len(s)
  BY <1>1, LenProperties, EmptySeq
<1>3. SubSeq(u, 1, Len(u) - 1) = s
  <2>1. Len(u) - 1 = Len(s) /\ Len(s) \in 1 - 1 .. Len(u)
    BY <1>1
  <2> DEFINE v == SubSeq(u, 1, Len(s))
  <2>2. Len(v) = Len(s) /\ v \in Seq(T) /\ \A i \in 1 .. Len(s) : v[i] = u[i]
    BY <1>1
  <2> HIDE DEF v
  <2>3. v = s
    BY <1>1, <2>2, SeqEqual
  <2> QED BY <2>1, <2>3 DEF v
<1> QED BY <1>1, <1>2, <1>3

(* The applications told are applications. *)
LEMMA ToldType ==
  ASSUME NEW heard \in Seq(AccountAnswer)
  PROVE  ToldIn(heard) \in Seq(App)
<1> DEFINE rows == [n \in DOMAIN heard |-> heard[n].apps]
<1>1. Len(heard) \in Nat /\ DOMAIN heard = 1 .. Len(heard)
  BY LenProperties
<1>2. \A n \in 1 .. Len(heard) : heard[n].apps \in Seq(App)
  <2> TAKE n \in 1 .. Len(heard)
  <2>1. heard[n] \in AccountAnswer
    BY ElementOfSeq
  <2> QED BY <2>1, AnswerTypes
<1>3. rows \in [1 .. Len(heard) -> Seq(App)]
  BY <1>1, <1>2
<1>4. rows \in Seq(Seq(App))
  BY <1>1, <1>3, RowsAreASeq
<1> QED BY <1>4, FlattenSeqType DEF ToldIn

(* One more answer tells of its applications after those of the others. *)
LEMMA ToldMore ==
  ASSUME NEW heard \in Seq(AccountAnswer), NEW a \in AccountAnswer
  PROVE  /\ ToldIn(heard) \in Seq(App)
         /\ ToldIn(Append(heard, a)) = ToldIn(heard) \o a.apps
<1> DEFINE all == Append(heard, a)
           rows == [n \in DOMAIN heard |-> heard[n].apps]
           more == [n \in DOMAIN all |-> all[n].apps]
<1>1. /\ all \in Seq(AccountAnswer) /\ Len(all) = Len(heard) + 1 /\ Len(heard) \in Nat
      /\ DOMAIN all = 1 .. Len(heard) + 1 /\ DOMAIN heard = 1 .. Len(heard)
      /\ \A n \in 1 .. Len(heard) : all[n] = heard[n]
      /\ all[Len(heard) + 1] = a
  BY OneMore
<1>2. \A n \in 1 .. Len(heard) : heard[n].apps \in Seq(App)
  <2> TAKE n \in 1 .. Len(heard)
  <2>1. heard[n] \in AccountAnswer
    BY ElementOfSeq
  <2> QED BY <2>1, AnswerTypes
<1>3. a.apps \in Seq(App)
  BY AnswerTypes
<1>4. rows \in [1 .. Len(heard) -> Seq(App)]
  BY <1>1, <1>2
<1>5. rows \in Seq(Seq(App)) /\ Len(rows) = Len(heard)
  BY <1>1, <1>4, RowsAreASeq
<1>6. \A n \in 1 .. Len(heard) : rows[n] = heard[n].apps
  BY <1>1
<1>7. /\ more \in [1 .. Len(heard) + 1 -> Seq(App)]
      /\ \A n \in 1 .. Len(heard) + 1 :
           more[n] = IF n = Len(heard) + 1 THEN a.apps ELSE heard[n].apps
  <2> HIDE DEF all
  <2>1. \A n \in 1 .. Len(heard) + 1 :
          more[n] = IF n = Len(heard) + 1 THEN a.apps ELSE heard[n].apps
    BY <1>1
  <2>2. \A n \in 1 .. Len(heard) + 1 : more[n] \in Seq(App)
    BY <1>1, <1>2, <1>3, <2>1
  <2> QED BY <1>1, <2>1, <2>2
<1>8. more \in Seq(Seq(App)) /\ Len(more) = Len(heard) + 1
  <2> HIDE DEF more
  <2>1. Len(heard) + 1 \in Nat
    BY <1>1
  <2> QED BY <1>7, <2>1, RowsAreASeq
<1> HIDE DEF rows, more
<1> DEFINE joined == Append(rows, a.apps)
<1>9. /\ joined \in Seq(Seq(App)) /\ Len(joined) = Len(heard) + 1
      /\ \A n \in 1 .. Len(heard) : joined[n] = rows[n]
      /\ joined[Len(heard) + 1] = a.apps
  BY <1>3, <1>5, AppendProperties
<1> HIDE DEF joined
<1>10. \A n \in 1 .. Len(more) : more[n] = joined[n]
  <2> DEFINE k == Len(heard)
  <2>1. SUFFICES ASSUME NEW n \in 1 .. k + 1 PROVE more[n] = joined[n]
    BY <1>8
  <2>2. CASE n = k + 1
    BY <1>7, <1>9, <2>2
  <2>3. CASE n # k + 1
    <3>1. n \in 1 .. k
      BY <1>1, <2>1, <2>3
    <3> QED BY <1>6, <1>7, <1>9, <2>1, <2>3, <3>1
  <2> QED BY <2>2, <2>3
<1>11. more = joined
  BY <1>8, <1>9, <1>10, SeqEqual
<1>12. FlattenSeq(more) = FlattenSeq(rows) \o a.apps /\ FlattenSeq(rows) \in Seq(App)
  BY <1>3, <1>5, <1>11, FlattenSeqAppend, FlattenSeqType DEF joined
<1> QED BY <1>12 DEF ToldIn, rows, more

(* Nothing was told, and an empty structure holds it. *)
LEMMA NothingTold == ToldIn(<<>>) = <<>> /\ Holds(Zeroed, <<>>)
<1>1. [n \in DOMAIN <<>> |-> <<>>[n].apps] = <<>>
  OBVIOUS
<1>2. ToldIn(<<>>) = <<>>
  BY <1>1, FlattenSeqEmpty DEF ToldIn
<1>3. APPS_MAX_COUNT \in Nat \ {0} /\ Len(<<>>) = 0
  BY ParserAssumption, EmptySeq DEF ParserAssumption
<1>4. Zeroed.app_idx = 0 /\ \A j \in 0 .. APPS_MAX_COUNT - 1 : Zeroed.apps_local[j] = NoApp
  BY DEF Zeroed
<1>5. Holds(Zeroed, <<>>)
  BY <1>3, <1>4 DEF Holds
<1> QED BY <1>2, <1>5

(* The applications of one more answer, as many as fit, come after the others. *)
LEMMA HoldsMore ==
  ASSUME NEW a \in AccountAnswer, NEW told \in Seq(App), NEW d, Holds(d, told),
         NEW n, AllTold(a, d, n), NEW acc, SameApps(acc, Stored(a, d, n))
  PROVE  Holds(acc, told \o a.apps)
<1> DEFINE m == Len(told)
           k == Len(a.apps)
           all == told \o a.apps
           max == APPS_MAX_COUNT
<1>1. max \in Nat \ {0} /\ m \in Nat /\ k \in Nat
  BY AnswerTypes, LenProperties, ParserAssumption DEF ParserAssumption
<1>2. a.apps \in Seq(App)
  BY AnswerTypes
<1>3. /\ Len(all) = m + k
      /\ \A i \in 1 .. m : all[i] = told[i]
      /\ \A i \in m + 1 .. m + k : all[i] = a.apps[i - m]
  BY <1>1, <1>2, ConcatProperties
<1>4. acc.app_idx = d.app_idx + n /\ acc.apps_local = AppsKept(a, d, n)
  BY DetailsFields DEF SameApps, Stored
<1>5. d.app_idx = (IF m < max THEN m ELSE max) /\ \A j \in 0 .. max - 1 :
        d.apps_local[j] = IF j < d.app_idx THEN AppRecord(told[j + 1]) ELSE NoApp
  BY DEF Holds
<1>6. n \in 0 .. k /\ d.app_idx + n <= max /\ (n = k \/ d.app_idx + n = max)
  BY DEF AllTold
<1>7. \A j \in 0 .. max - 1 :
        acc.apps_local[j] = IF j < d.app_idx THEN d.apps_local[j]
                            ELSE IF j < d.app_idx + n THEN AppRecord(a.apps[j - d.app_idx + 1]) ELSE NoApp
  BY <1>4 DEF AppsKept
<1> HIDE DEF m, k, all, max
<1> DEFINE i == d.app_idx
<1>8. i = (IF m < max THEN m ELSE max) /\ i + n <= max /\ (n = k \/ i + n = max)
        /\ acc.app_idx = i + n
  BY <1>4, <1>5, <1>6
<1> HIDE DEF i
<1>9. i \in 0 .. max /\ i <= m /\ (n > 0 => i = m) /\ n \in Nat /\ n <= k
  BY <1>1, <1>6, <1>8
<1>10. i + n = IF m + k < max THEN m + k ELSE max
  BY <1>1, <1>8, <1>9
<1>11. ASSUME NEW j \in 0 .. max - 1
       PROVE  acc.apps_local[j] = IF j < i + n THEN AppRecord(all[j + 1]) ELSE NoApp
  <2>1. CASE j < i
    <3>1. j + 1 \in 1 .. m /\ j < i + n
      BY <1>1, <1>9, <2>1
    <3>2. all[j + 1] = told[j + 1]
      BY <1>3, <3>1
    <3> QED BY <1>5, <1>7, <2>1, <3>1, <3>2 DEF i
  <2>2. CASE ~(j < i) /\ j < i + n
    <3>1. i = m /\ j + 1 \in m + 1 .. m + k /\ (j + 1) - m = j - i + 1
      BY <1>1, <1>9, <2>2
    <3>2. all[j + 1] = a.apps[j - i + 1]
      BY <1>3, <3>1
    <3> QED BY <1>7, <2>2, <3>2 DEF i
  <2>3. CASE ~(j < i) /\ ~(j < i + n)
    BY <1>7, <2>3 DEF i
  <2> QED BY <2>1, <2>2, <2>3
<1> QED BY <1>3, <1>8, <1>10, <1>11 DEF Holds, all, max

(* The amount of one more answer is kept, or the one before if it tells of none. *)
LEMMA BalancedMore ==
  ASSUME NEW heard \in Seq(AccountAnswer), NEW a \in AccountAnswer, NEW d, Balanced(d.amount, heard)
  PROVE  Balanced(NewAmount(a, d), Append(heard, a))
<1> DEFINE all == Append(heard, a)
           k == Len(heard)
<1>1. /\ DOMAIN all = 1 .. k + 1 /\ DOMAIN heard = 1 .. k /\ k \in Nat
      /\ \A n \in 1 .. k : all[n] = heard[n]
      /\ all[k + 1] = a
  BY OneMore
<1> HIDE DEF all, k
<1>2. SUFFICES ASSUME NEW n \in 1 .. k + 1, all[n].amount # 0, 2 * all[n].amount < INT32_RANGE,
                      \A later \in 1 .. k + 1 : later > n => all[later].amount = 0
               PROVE  NewAmount(a, d) = all[n].amount
  BY <1>1 DEF Balanced, all
<1>3. CASE n = k + 1
  <2>1. all[n] = a /\ a.amount \in Nat
    BY <1>1, <1>3, AnswerTypes
  <2> QED BY <1>2, <2>1, SmallAsInt32 DEF NewAmount
<1>4. CASE n # k + 1
  <2>1. n \in 1 .. k /\ k + 1 \in 1 .. k + 1 /\ k + 1 > n
    BY <1>1, <1>4
  <2>2. a.amount = 0
    BY <1>1, <1>2, <2>1
  <2>3. \A later \in 1 .. k : later > n => heard[later].amount = 0
    BY <1>1, <1>2
  <2>4. all[n] = heard[n]
    BY <1>1, <2>1
  <2>5. d.amount = heard[n].amount
    BY <1>1, <1>2, <2>1, <2>3, <2>4 DEF Balanced
  <2> QED BY <2>2, <2>4, <2>5 DEF NewAmount
<1> QED BY <1>3, <1>4

(***************************************************************************)
(* The invariant                                                           *)
(***************************************************************************)
ForLocal == call.op \in {"account_new", "account_update"}

(* The answers that were parsed: not yet that of the call *)
Heard(i) ==
  IF ForLocal /\ call.account = i THEN SubSeq(answers[i], 1, Len(answers[i]) - 1) ELSE answers[i]

AsTold(i) ==
  /\ m_accounts[i].status = "NONE" => m_accounts[i].account = Zeroed /\ answers[i] = <<>>
       /\ plain[i]
  /\ plain[i] => /\ Holds(m_accounts[i].account, ToldIn(Heard(i)))
                 /\ Balanced(m_accounts[i].account.amount, Heard(i))

(* The parser is somewhere in the last answer, if that is plain. *)
Followed ==
  ForLocal /\ plain[call.account] =>
    \E heard \in Seq(AccountAnswer), a \in AccountAnswer, d \in AccountDetails :
      /\ answers[call.account] = Append(heard, a) /\ d = m_accounts[call.account].account
      /\ Plain(a) /\ Follows(a, d)

CallOrder ==
  /\ ForLocal => m_accounts[call.account].status = "ADDED"
  /\ call = NoCall => ~past
  /\ call # NoCall => on_complete = NoChoice

ToldTypes == answers \in [Local -> Seq(AccountAnswer)] /\ plain \in [Local -> BOOLEAN]
ToldInv ==
  /\ ToldTypes /\ \A i \in Local : AsTold(i)
  /\ Followed /\ CallOrder /\ OptInsAreNeeded

(* No call of an application was made. *)
LEMMA NoChoiceIsNone ==
  (on_complete = NoChoice => OptInsAreNeeded) /\ (on_complete' = NoChoice => OptInsAreNeeded')
<1>1. NoChoice.sender \notin Local
  BY DEF NoChoice, Local
<1> QED BY <1>1 DEF OptInsAreNeeded

(* When nothing is parsed, the accounts have what all answers told. *)
LEMMA NoCallIsIdle ==
  ASSUME call = NoCall
  PROVE  ~ForLocal /\ \A i \in Local : Heard(i) = answers[i]
BY DEF NoCall, ForLocal, Heard

(* At the start nothing was told. *)
LEMMA InitTold == Init => ToldInv
<1> SUFFICES ASSUME Init PROVE ToldInv
  OBVIOUS
<1>1. ToldTypes
  BY EmptySeq DEF Init, ToldTypes
<1>2. ASSUME NEW i \in Local PROVE AsTold(i)
  <2>1. m_accounts[i].account = Zeroed /\ answers[i] = <<>> /\ plain[i]
    BY DEF Init
  <2>2. Heard(i) = <<>>
    BY <2>1, NoCallIsIdle DEF Init
  <2>3. Holds(m_accounts[i].account, ToldIn(Heard(i)))
    BY <2>1, <2>2, NothingTold
  <2>4. Balanced(m_accounts[i].account.amount, Heard(i))
    BY <2>2 DEF Balanced
  <2> QED BY <2>1, <2>3, <2>4 DEF AsTold
<1>3. Followed /\ CallOrder
  BY NoCallIsIdle DEF Init, Followed, CallOrder
<1>4. OptInsAreNeeded
  BY NoChoiceIsNone DEF Init
<1> QED BY <1>1, <1>2, <1>3, <1>4 DEF ToldInv

(* A request for a local account, whose structure was not changed *)
LEMMA RequestTold ==
  ASSUME IInv, ToldInv, IInv', Idle, NEW i \in Local, NEW op \in {"account_new", "account_update"},
         provider_account_info_get(op, i),
         \A j \in Local : m_accounts'[j].account = m_accounts[j].account
                          /\ (m_accounts'[j].status = "NONE" => m_accounts[j].status = "NONE"),
         m_accounts'[i].status = "ADDED"
  PROVE  ToldInv'
<1>1. call = NoCall /\ ~past /\ (\A j \in Local : Heard(j) = answers[j])
  BY NoCallIsIdle DEF Idle
<1>2. /\ answers \in [Local -> Seq(AccountAnswer)] /\ plain \in [Local -> BOOLEAN]
      /\ \A j \in Local :
           /\ m_accounts[j].status = "NONE" => m_accounts[j].account = Zeroed
                /\ answers[j] = <<>> /\ plain[j]
           /\ plain[j] => /\ Holds(m_accounts[j].account, ToldIn(answers[j]))
                          /\ Balanced(m_accounts[j].account.amount, answers[j])
  BY <1>1 DEF ToldInv, ToldTypes, AsTold
<1>3. on_complete' = NoChoice
  BY DEF provider_account_info_get, Requested
<1>4. OptInsAreNeeded'
  BY <1>3, NoChoiceIsNone
<1>5. ASSUME NEW a \in AccountAnswer, Parses(op, i, AccountBody(a), m_accounts[i].account),
             answers' = [answers EXCEPT ![i] = Append(@, a)],
             plain' = [plain EXCEPT ![i] = @ /\ Plain(a)]
      PROVE  ToldInv'
  <2>1. call' = [op |-> op, account |-> i]
          /\ parser_account_mpack(AccountBody(a), m_accounts[i].account)
    BY <1>5 DEF Parses
  <2>2. call'.account = i /\ call'.op = op /\ ForLocal' /\ call' # NoCall
    BY <2>1 DEF ForLocal, NoCall
  <2>3. /\ answers'[i] = Append(answers[i], a) /\ answers[i] \in Seq(AccountAnswer)
        /\ \A j \in Local : j # i => answers'[j] = answers[j] /\ plain'[j] = plain[j]
    BY <1>2, <1>5
  <2>4. ToldTypes'
    <3>1. Append(answers[i], a) \in Seq(AccountAnswer)
      BY <2>3, OneMore
    <3>2. plain' \in [Local -> BOOLEAN]
      BY <1>2, <1>5, Zenon DEF Plain
    <3> QED BY <1>2, <1>5, <3>1, <3>2 DEF ToldTypes
  <2>5. \A j \in Local : Heard(j)' = answers[j]
    <3>1. SubSeq(answers'[i], 1, Len(answers'[i]) - 1) = answers[i]
      BY <2>3, OneMore
    <3> QED BY <2>2, <2>3, <3>1 DEF Heard
  <2>6. plain'[i] => plain[i] /\ Plain(a)
    BY <1>2, <1>5, Zenon
  <2>7. ASSUME NEW j \in Local PROVE AsTold(j)'
    <3>1. m_accounts'[j].status = "NONE" => j # i
      OBVIOUS
    <3>2. plain'[j] => plain[j]
      BY <2>3, <2>6
    <3> QED BY <1>2, <2>3, <2>5, <3>1, <3>2 DEF AsTold
  <2>8. Followed'
    <3>1. SUFFICES ASSUME plain'[i] PROVE
            \E heard \in Seq(AccountAnswer), b \in AccountAnswer, d \in AccountDetails :
              /\ answers'[i] = Append(heard, b) /\ d = m_accounts'[i].account
              /\ Plain(b) /\ Follows(b, d)'
      BY <2>2 DEF Followed
    <3> DEFINE d == m_accounts[i].account
    <3>2. d \in AccountDetails
      BY DEF IInv, InfoTypes
    <3>3. At("ROOT", Append(<<>>, FrameOf("parser_account_mpack", 1)), AccountBody(a), d)'
      BY <1>1, <2>1 DEF parser_account_mpack, At, FrameOf
    <3>4. Follows(a, d)'
      BY <3>3 DEF Follows, InHead
    <3> QED BY <2>3, <2>6, <3>1, <3>2, <3>4
  <2>9. CallOrder'
    BY <1>3, <2>2 DEF CallOrder
  <2> QED BY <1>4, <2>4, <2>7, <2>8, <2>9 DEF ToldInv
<1>6. ASSUME NEW body \in OtherAnswer, Parses(op, i, body, m_accounts[i].account),
             plain' = [plain EXCEPT ![i] = FALSE], answers' = answers
      PROVE  ToldInv'
  <2>1. call' = [op |-> op, account |-> i]
    BY <1>6 DEF Parses
  <2>2. call'.account = i /\ call'.op = op /\ ForLocal' /\ call' # NoCall
    BY <2>1 DEF ForLocal, NoCall
  <2>3. /\ ~plain'[i] /\ \A j \in Local : j # i => plain'[j] = plain[j]
    BY <1>2, <1>6
  <2>4. \A j \in Local : j # i => Heard(j)' = answers[j]
    BY <1>6, <2>2 DEF Heard
  <2>5. ASSUME NEW j \in Local PROVE AsTold(j)'
    <3>1. CASE j = i
      BY <2>3, <3>1 DEF AsTold
    <3>2. CASE j # i
      BY <1>2, <1>6, <2>3, <2>4, <3>2 DEF AsTold
    <3> QED BY <3>1, <3>2
  <2>6. ToldTypes'
    BY <1>2, <1>6 DEF ToldTypes
  <2>7. Followed' /\ CallOrder'
    BY <1>3, <2>2, <2>3 DEF Followed, CallOrder
  <2> QED BY <1>4, <2>5, <2>6, <2>7 DEF ToldInv
<1>7. CASE UNCHANGED <<parserVars, call, answers, plain>>
  <2>1. call' = NoCall /\ ~past' /\ answers' = answers /\ plain' = plain
    BY <1>1, <1>7 DEF parserVars
  <2>2. ~ForLocal' /\ \A j \in Local : Heard(j)' = answers[j]
    BY <2>1 DEF NoCall, ForLocal, Heard
  <2>3. ASSUME NEW j \in Local PROVE AsTold(j)'
    BY <1>2, <2>1, <2>2 DEF AsTold
  <2> QED BY <1>2, <1>4, <2>1, <2>2, <2>3 DEF ToldInv, ToldTypes, Followed, CallOrder
<1> QED BY <1>5, <1>6, <1>7 DEF provider_account_info_get

(* An account that is freed has no answers. *)
LEMMA FreedTold ==
  ASSUME IInv, ToldInv, NEW i \in Local, account_free(i)
  PROVE  ToldInv'
<1>1. call = NoCall /\ call' = NoCall /\ ~past' /\ on_complete' = on_complete
  BY DEF account_free, Idle, clientVars, parserVars
<1>2. /\ m_accounts' = [m_accounts EXCEPT ![i] = Freed(i)]
      /\ answers' = [answers EXCEPT ![i] = <<>>] /\ plain' = [plain EXCEPT ![i] = TRUE]
  BY DEF account_free
<1>3. /\ answers \in [Local -> Seq(AccountAnswer)] /\ plain \in [Local -> BOOLEAN]
      /\ \A j \in Local : AsTold(j) /\ Heard(j) = answers[j]
      /\ DOMAIN m_accounts = Local
  BY <1>1, NoCallIsIdle DEF ToldInv, ToldTypes, IInv, InfoTypes
<1>4. /\ m_accounts'[i].account = Zeroed /\ answers'[i] = <<>> /\ plain'[i]
      /\ \A j \in Local : j # i => m_accounts'[j] = m_accounts[j] /\ answers'[j] = answers[j]
                                  /\ plain'[j] = plain[j]
  BY <1>2, <1>3 DEF Freed
<1>5. ~ForLocal' /\ \A j \in Local : Heard(j)' = answers'[j]
  BY <1>1 DEF NoCall, ForLocal, Heard
<1>6. ToldTypes'
  <2>1. <<>> \in Seq(AccountAnswer)
    BY EmptySeq
  <2> QED BY <1>2, <1>3, <2>1 DEF ToldTypes
<1>7. ASSUME NEW j \in Local PROVE AsTold(j)'
  <2>1. CASE j = i
    <3>1. Heard(i)' = <<>>
      BY <1>4, <1>5
    <3>2. Holds(Zeroed, ToldIn(<<>>)) /\ Balanced(Zeroed.amount, <<>>)
      BY NothingTold DEF Balanced
    <3> QED BY <1>4, <2>1, <3>1, <3>2 DEF AsTold
  <2>2. CASE j # i
    BY <1>3, <1>4, <1>5, <2>2 DEF AsTold
  <2> QED BY <2>1, <2>2
<1>8. OptInsAreNeeded'
  <2> DEFINE a == on_complete.sender
  <2>1. CASE a \in Local /\ a # i
    <3>1. answers'[a] = answers[a] /\ plain'[a] = plain[a]
      BY <1>4, <2>1
    <3> QED BY <1>1, <3>1 DEF ToldInv, OptInsAreNeeded, Told
  <2>2. CASE a = i
    <3>1. Len(answers'[i]) # 1
      BY <1>4
    <3> QED BY <1>1, <2>2, <3>1 DEF OptInsAreNeeded
  <2>3. CASE a \notin Local
    BY <1>1, <2>3 DEF OptInsAreNeeded
  <2> QED BY <2>1, <2>2, <2>3
<1> QED BY <1>1, <1>5, <1>6, <1>7, <1>8 DEF ToldInv, Followed, CallOrder

(* Neither the accounts nor what was told changes, and the call is not one *)
(* for a local account before or after. *)
LEMMA NothingNewTold ==
  ASSUME ToldInv, ~ForLocal, ~ForLocal', UNCHANGED <<m_accounts, answers, plain>>
  PROVE  ToldTypes' /\ (\A i \in Local : AsTold(i)') /\ Followed'
<1>1. \A i \in Local : Heard(i)' = Heard(i)
  BY DEF Heard
<1>2. ASSUME NEW i \in Local PROVE AsTold(i)'
  BY <1>1 DEF ToldInv, AsTold
<1> QED BY <1>2 DEF ToldInv, ToldTypes, Followed

(* A step of the parser keeps its place in the answer. *)
LEMMA ParseTold ==
  ASSUME IInv, ToldInv, Parse
  PROVE  ToldInv'
<1>1. call # NoCall /\ ParserStep /\ call' = call /\ on_complete' = on_complete
      /\ UNCHANGED <<m_accounts, answers, plain>>
  BY DEF Parse, infoVars, clientVars
<1>2. /\ ToldTypes' /\ CallOrder'
      /\ \A i \in Local : Heard(i)' = Heard(i)
  BY <1>1 DEF ToldInv, ToldTypes, CallOrder, Heard, ForLocal
<1>3. ASSUME NEW i \in Local PROVE AsTold(i)'
  BY <1>1, <1>2 DEF ToldInv, AsTold
<1>4. OptInsAreNeeded'
  BY <1>1, NoChoiceIsNone DEF ToldInv, CallOrder
<1>5. Followed'
  <2>1. SUFFICES ASSUME ForLocal, plain[call.account]
                 PROVE  \E heard \in Seq(AccountAnswer), a \in AccountAnswer, d \in AccountDetails :
                          /\ answers[call.account] = Append(heard, a)
                               /\ d = m_accounts[call.account].account
                          /\ Plain(a) /\ Follows(a, d)'
    BY <1>1 DEF Followed, ForLocal
  <2>2. PICK heard \in Seq(AccountAnswer), a \in AccountAnswer, d \in AccountDetails :
          /\ answers[call.account] = Append(heard, a) /\ d = m_accounts[call.account].account
          /\ Plain(a) /\ Follows(a, d)
    BY <2>1 DEF ToldInv, Followed
  <2>3. Fresh(d)
    <3> DEFINE i == call.account
               told == ToldIn(Heard(i))
    <3>1. i \in Local
      BY <2>1 DEF IInv, InfoTypes, Calls, ForLocal, NoCall
    <3>2. Holds(d, told)
      BY <2>1, <2>2, <3>1 DEF ToldInv, AsTold
    <3>3. told \in Seq(App)
      <4>1. Heard(i) = heard
        BY <2>1, <2>2, OneMore DEF Heard
      <4> QED BY <2>2, <4>1, ToldType
    <3> HIDE DEF told, i
    <3>4. Len(told) \in Nat /\ APPS_MAX_COUNT \in Nat
      BY <3>3, LenProperties, ParserAssumption DEF ParserAssumption
    <3>5. d.app_idx \in 0 .. APPS_MAX_COUNT
      BY <3>2, <3>4 DEF Holds
    <3>6. \A j \in d.app_idx .. APPS_MAX_COUNT - 1 : d.apps_local[j] = NoApp
      BY <3>2, <3>4, <3>5 DEF Holds
    <3> QED BY <2>2, <3>5, <3>6 DEF Fresh
  <2>4. Follows(a, d)'
    BY <1>1, <2>2, <2>3, FollowsStep DEF IInv
  <2> QED BY <2>2, <2>4
<1> QED BY <1>2, <1>3, <1>4, <1>5 DEF ToldInv

(* When the call returns, the account has what the answer told, too. *)
LEMMA ParsedTold ==
  ASSUME IInv, ToldInv, AccountParsed
  PROVE  ToldInv'
<1>1. /\ call # NoCall /\ Parsed /\ ~past /\ call' = NoCall /\ ~past'
      /\ answers' = answers /\ plain' = plain /\ on_complete' = on_complete
  BY DEF AccountParsed, clientVars
<1>2. on_complete' = NoChoice
  BY <1>1 DEF ToldInv, CallOrder
<1>3. ToldTypes' /\ OptInsAreNeeded'
  BY <1>1, <1>2, NoChoiceIsNone DEF ToldInv, ToldTypes
<1>4. ~ForLocal' /\ \A i \in Local : Heard(i)' = answers[i]
  BY <1>1 DEF NoCall, ForLocal, Heard
<1>5. Followed' /\ CallOrder'
  BY <1>1, <1>4 DEF Followed, CallOrder
<1>6. ASSUME NEW i \in Local PROVE AsTold(i)'
  <2>1. CASE ForLocal /\ call.account = i
    <3>1. m_accounts' = [m_accounts EXCEPT ![i].account = account]
      BY <2>1 DEF AccountParsed, ForLocal
    <3>2. m_accounts'[i].account = account /\ m_accounts'[i].status = "ADDED"
      BY <2>1, <3>1 DEF ToldInv, CallOrder, IInv, InfoTypes
    <3>3. ASSUME plain[i]
          PROVE  Holds(account, ToldIn(answers[i])) /\ Balanced(account.amount, answers[i])
      <4>1. PICK heard \in Seq(AccountAnswer), a \in AccountAnswer, d \in AccountDetails :
              /\ answers[i] = Append(heard, a) /\ d = m_accounts[i].account
              /\ Plain(a) /\ Follows(a, d)
        BY <2>1, <3>3 DEF ToldInv, Followed
      <4>2. Settled(a, d)
        BY <1>1, <4>1, CallEnds
      <4>3. PICK n \in 0 .. Len(a.apps) : AllTold(a, d, n) /\ SameApps(account, Stored(a, d, n))
        BY <4>2 DEF Settled
      <4>4. Heard(i) = heard
        BY <2>1, <4>1, OneMore DEF Heard
      <4>5. Holds(d, ToldIn(heard)) /\ Balanced(d.amount, heard)
        BY <3>3, <4>1, <4>4 DEF ToldInv, AsTold
      <4>6. ToldIn(heard) \in Seq(App) /\ ToldIn(answers[i]) = ToldIn(heard) \o a.apps
        BY <4>1, ToldMore
      <4>7. Holds(account, ToldIn(heard) \o a.apps)
        BY <4>3, <4>5, <4>6, HoldsMore
      <4>8. account.amount = NewAmount(a, d)
        BY <4>3, DetailsFields DEF SameApps, Stored
      <4>9. Balanced(NewAmount(a, d), Append(heard, a))
        BY <4>5, BalancedMore
      <4> QED BY <4>1, <4>6, <4>7, <4>8, <4>9
    <3> QED BY <1>1, <1>4, <3>2, <3>3 DEF AsTold
  <2>2. CASE ~(ForLocal /\ call.account = i)
    <3>1. m_accounts'[i] = m_accounts[i]
      BY <1>1, <2>2 DEF AccountParsed, ForLocal, IInv, InfoTypes, Calls
    <3>2. Heard(i) = answers[i]
      BY <2>2 DEF Heard
    <3> QED BY <1>1, <1>4, <3>1, <3>2 DEF ToldInv, AsTold
  <2> QED BY <2>1, <2>2
<1> QED BY <1>3, <1>5, <1>6 DEF ToldInv

(* An application is looked for among those an account has. *)
AppIsIn(d, id) == \E j \in 0 .. d.app_idx - 1 : d.apps_local[j].app_id = id
AppWasTold(told, id) == \E n \in DOMAIN told : told[n].id = id

(* An account has an application exactly if it was told of it. *)
LEMMA AppIsFound ==
  ASSUME NEW told \in Seq(App), Len(told) <= APPS_MAX_COUNT, NEW d, Holds(d, told), NEW id
  PROVE  AppIsIn(d, id) <=> AppWasTold(told, id)
<1> DEFINE m == Len(told)
<1>1. m \in Nat /\ DOMAIN told = 1 .. m /\ APPS_MAX_COUNT \in Nat
  BY LenProperties, ParserAssumption DEF ParserAssumption
<1>2. m <= APPS_MAX_COUNT /\ d.app_idx = (IF m < APPS_MAX_COUNT THEN m ELSE APPS_MAX_COUNT)
  BY DEF Holds
<1> HIDE DEF m
<1>3. d.app_idx = m
  BY <1>1, <1>2
<1>4. \A j \in 0 .. m - 1 : d.apps_local[j].app_id = told[j + 1].id
  <2> TAKE j \in 0 .. m - 1
  <2>1. j \in 0 .. APPS_MAX_COUNT - 1 /\ j < d.app_idx
    BY <1>1, <1>2, <1>3
  <2>2. d.apps_local[j] = AppRecord(told[j + 1])
    BY <2>1 DEF Holds
  <2> QED BY <2>2 DEF AppRecord
<1>5. ASSUME NEW j \in 0 .. m - 1, d.apps_local[j].app_id = id
      PROVE  \E n \in 1 .. m : told[n].id = id
  <2>1. j + 1 \in 1 .. m
    BY <1>1
  <2> QED BY <1>4, <1>5, <2>1
<1>6. ASSUME NEW n \in 1 .. m, told[n].id = id
      PROVE  \E j \in 0 .. m - 1 : d.apps_local[j].app_id = id
  <2>1. n - 1 \in 0 .. m - 1 /\ (n - 1) + 1 = n
    BY <1>1
  <2> QED BY <1>4, <1>6, <2>1
<1> QED BY <1>1, <1>3, <1>5, <1>6 DEF AppIsIn, AppWasTold

(* The choice between opting in and a call is made from what was told. *)
LEMMA ChoiceTold ==
  ASSUME IInv, ToldInv, NEW a, NEW app_id, transaction_appl(a, app_id)
  PROVE  ToldInv'
<1>1. /\ call = NoCall /\ ~past /\ call' = call /\ past' = past
      /\ UNCHANGED <<m_accounts, answers, plain>>
      /\ on_complete' = [sender |-> a, app_id |-> app_id, opt_in |-> ~account_has_app(a, app_id)]
  BY DEF transaction_appl, Idle, infoVars, parserVars
<1>2. ~ForLocal /\ ~ForLocal' /\ \A i \in Local : Heard(i) = answers[i]
  BY <1>1, NoCallIsIdle DEF ForLocal
<1>3. ToldTypes' /\ (\A i \in Local : AsTold(i)') /\ Followed'
  BY <1>1, <1>2, NothingNewTold
<1>4. CallOrder'
  BY <1>1, <1>2 DEF CallOrder
<1>5. OptInsAreNeeded'
  <2>1. on_complete'.sender = a /\ on_complete'.app_id = app_id
        /\ (on_complete'.opt_in <=> ~account_has_app(a, app_id)) /\ answers' = answers
             /\ plain' = plain
    BY <1>1
  <2>2. SUFFICES ASSUME a \in Local, plain[a], Len(Told(a)) <= APPS_MAX_COUNT
                 PROVE  ~account_has_app(a, app_id) <=> \A n \in DOMAIN Told(a) :
                          Told(a)[n].id # app_id
    BY <2>1 DEF OptInsAreNeeded, Told
  <2>3. Told(a) = ToldIn(answers[a])
    BY DEF Told, ToldIn
  <2>4. answers[a] \in Seq(AccountAnswer) /\ Holds(m_accounts[a].account, Told(a))
    BY <1>2, <2>2, <2>3 DEF ToldInv, ToldTypes, AsTold
  <2>5. Told(a) \in Seq(App)
    BY <2>3, <2>4, ToldType
  <2> DEFINE told == Told(a)
             d == m_accounts[a].account
  <2>6. told \in Seq(App) /\ Len(told) <= APPS_MAX_COUNT /\ Holds(d, told)
    BY <2>2, <2>4, <2>5
  <2>7. account_has_app(a, app_id) <=> AppIsIn(d, app_id)
    BY <2>2 DEF account_has_app, account_exists, AppIsIn
  <2> HIDE DEF told, d
  <2>8. AppIsIn(d, app_id) <=> AppWasTold(told, app_id)
    BY <2>6, AppIsFound
  <2> QED BY <2>7, <2>8 DEF told, AppWasTold
<1> QED BY <1>3, <1>4, <1>5 DEF ToldInv

(* Every step keeps the invariant. *)
LEMMA NextTold == IInv /\ IInv' /\ ToldInv /\ [Next]_vars => ToldInv'
<1> SUFFICES ASSUME IInv, IInv', ToldInv, [Next]_vars PROVE ToldInv'
  OBVIOUS
<1>1. ASSUME NEW i \in Local, account_new(i)
      PROVE  ToldInv'
  <2>1. /\ Idle /\ m_accounts' = [m_accounts EXCEPT ![i].status = "ADDED"]
        /\ provider_account_info_get("account_new", i)
    BY <1>1 DEF account_new, MayRequest
  <2>2. /\ \A j \in Local : m_accounts'[j].account = m_accounts[j].account
                            /\ (m_accounts'[j].status = "NONE" => m_accounts[j].status = "NONE")
        /\ m_accounts'[i].status = "ADDED"
    BY <2>1 DEF IInv, InfoTypes
  <2> QED BY <2>1, <2>2, RequestTold
<1>2. ASSUME NEW i \in Local, account_update(i)
      PROVE  ToldInv'
  <2>1. /\ Idle /\ m_accounts' = m_accounts /\ m_accounts[i].status = "ADDED"
        /\ provider_account_info_get("account_update", i)
    BY <1>2 DEF account_update, MayRequest
  <2>2. /\ \A j \in Local : m_accounts'[j].account = m_accounts[j].account
                            /\ (m_accounts'[j].status = "NONE" => m_accounts[j].status = "NONE")
        /\ m_accounts'[i].status = "ADDED"
    BY <2>1
  <2> QED BY <2>1, <2>2, RequestTold
<1>3. ASSUME NEW i \in Local, account_free(i)
      PROVE  ToldInv'
  BY <1>3, FreedTold
<1>4. ASSUME NEW s \in Secret, s_account_update(s)
      PROVE  ToldInv'
  <2>1. /\ call = NoCall /\ ~past /\ UNCHANGED <<m_accounts, answers, plain>>
             /\ on_complete' = NoChoice
    BY <1>4 DEF s_account_update, MayRequest, Idle, infoVars, Requested
  <2>2. ~past' /\ (call' = call \/ call'.op = "s_account_update")
    BY <1>4, <2>1 DEF s_account_update, Parses, parser_account_mpack, parserVars
  <2>3. ~ForLocal /\ ~ForLocal'
    BY <2>1, <2>2 DEF ForLocal, NoCall
  <2>4. CallOrder' /\ OptInsAreNeeded'
    BY <2>1, <2>2, <2>3, NoChoiceIsNone DEF CallOrder
  <2> QED BY <2>1, <2>3, <2>4, NothingNewTold DEF ToldInv
<1>5. CASE Parse
  BY <1>5, ParseTold
<1>6. CASE AccountParsed
  BY <1>6, ParsedTold
<1>7. ASSUME NEW a, NEW app_id, transaction_appl(a, app_id)
      PROVE  ToldInv'
  BY <1>7, ChoiceTold
<1>8. CASE UNCHANGED <<parserVars, infoVars, call, on_complete>>
  <2>1. /\ UNCHANGED <<m_accounts, answers, plain, call, on_complete, past, account, open, todo,
                      reader_ok, m_parsing_account_step>>
    BY <1>8 DEF infoVars, parserVars
  <2>2. /\ \A i \in Local : Heard(i)' = Heard(i)
        /\ ToldTypes' /\ CallOrder' /\ ForLocal' = ForLocal
    BY <2>1 DEF Heard, ForLocal, ToldInv, ToldTypes, CallOrder
  <2>3. ASSUME NEW i \in Local PROVE AsTold(i)'
    BY <2>1, <2>2 DEF ToldInv, AsTold
  <2>4. OptInsAreNeeded'
    BY <2>1 DEF ToldInv, OptInsAreNeeded, Told
  <2>5. ASSUME NEW a, NEW d, Follows(a, d) PROVE Follows(a, d)'
    BY <1>8, <2>5, FollowsUnchanged
  <2>6. Followed'
    BY <2>1, <2>2, <2>5 DEF ToldInv, Followed
  <2> QED BY <2>2, <2>3, <2>4, <2>6 DEF ToldInv
<1>9. ASSUME NEW elements, NEW states, provider_application_info_get(elements, states)
      PROVE  ToldInv'
  BY <1>8, <1>9 DEF provider_application_info_get
<1>10. CASE UNCHANGED vars
  BY <1>8, <1>10 DEF vars, infoVars, clientVars
<1> QED BY <1>1, <1>2, <1>3, <1>4, <1>5, <1>6, <1>7, <1>9, <1>10 DEF Next

(* Both invariants hold in every state. *)
LEMMA ToldAlways == Spec => [](IInv /\ ToldInv)
<1>1. Init => IInv /\ ToldInv
  BY InitInv, InitTold
<1>2. IInv /\ ToldInv /\ [Next]_vars => (IInv /\ ToldInv)'
  BY NextInv, NextTold
<1> QED BY <1>1, <1>2, PTL DEF Spec

(* Whatever applications and variables the node tells of, in answers of    *)
(* the form the parser was written for, no callback writes past an array   *)
(* of the account it parses into: that takes an answer of another form, or *)
(* the structure s_account_update leaves uninitialized on its stack.       *)
THEOREM WritesAreInside == Spec => []WritesStayInside
<1>1. IInv /\ ToldInv => WritesStayInside
  <2> SUFFICES ASSUME IInv, ToldInv, past, call.op # "s_account_update", plain[call.account]
               PROVE  FALSE
    BY DEF WritesStayInside
  <2>1. call # NoCall /\ ForLocal
    BY DEF ToldInv, CallOrder, IInv, InfoTypes, Calls, ForLocal
  <2>2. PICK a \in AccountAnswer, d \in AccountDetails : Follows(a, d)
    BY <2>1 DEF ToldInv, Followed
  <2> QED BY <2>2, CallEnds
<1> QED BY <1>1, ToldAlways, PTL

(* For every number of answers and of applications in them: after plain    *)
(* answers an account's apps_local holds the applications of all of them   *)
(* in order, as many as fit, each with its variables and nothing of        *)
(* another one, and empty entries behind them. The parser's app_idx and    *)
(* count are kept between the requests, and nothing resets or skips an     *)
(* entry.                                                                  *)
THEOREM AppsAreKept == Spec => []AppsAreThoseTold
<1>1. IInv /\ ToldInv => AppsAreThoseTold
  <2> SUFFICES ASSUME IInv, ToldInv, NEW i \in Local, Idle, plain[i]
               PROVE  Holds(m_accounts[i].account, Told(i))
    BY DEF AppsAreThoseTold, Holds
  <2>1. Heard(i) = answers[i]
    BY NoCallIsIdle DEF Idle
  <2> QED BY <2>1 DEF ToldInv, AsTold, Told, ToldIn
<1> QED BY <1>1, ToldAlways, PTL

(* The balance account_balance returns is the last amount the node told    *)
(* that was not 0, however many answers without an amount came after it,   *)
(* if it fits the int32_t the parser stores it in.                         *)
THEOREM BalanceIsTold == Spec => []BalanceAsTold
<1>1. IInv /\ ToldInv => BalanceAsTold
  <2> SUFFICES ASSUME IInv, ToldInv, NEW i \in Local, Idle, plain[i]
               PROVE  Balanced(account_balance(i), answers[i])
    BY DEF BalanceAsTold, Balanced
  <2>1. Heard(i) = answers[i]
    BY NoCallIsIdle DEF Idle
  <2> QED BY <2>1 DEF ToldInv, AsTold, account_balance
<1> QED BY <1>1, ToldAlways, PTL

(* Whatever applications the one answer for an account told of, as long as *)
(* they fit: a call of an application opts in if it was not among them and *)
(* does not if it was, for what the transaction looks for in apps_local is *)
(* what the parser put there.                                              *)
THEOREM OptInsAreRight == Spec => []OptInsAreNeeded
<1>1. ToldInv => OptInsAreNeeded
  BY DEF ToldInv
<1> QED BY <1>1, ToldAlways, PTL

(***************************************************************************)
(* The global variables of an application: after each element the          *)
(* structure has those read so far, each at its place                      *)
(***************************************************************************)
Slots == 0 .. APPS_KV_MAX_COUNT - 1
GlobalsOf(count, values, ret, overrun) ==
  [count |-> count, values |-> values, ret |-> ret, overrun |-> overrun]
IsValues(f) == f = [j \in Slots |-> f[j]] /\ \A j \in Slots : \E s, t, v : f[j] = Kv(s, t, v)
IsGlobals(g) ==
  /\ g = GlobalsOf(g.count, g.values, g.ret, g.overrun)
  /\ IsValues(g.values) /\ g.count \in Nat

(* A slot of the structure is set. *)
LEMMA SlotPut ==
  ASSUME NEW f, IsValues(f), NEW c \in Slots, NEW s, NEW t, NEW v, NEW w, w = Kv(s, t, v)
  PROVE  /\ IsValues(Put(f, c, w)) /\ Put(f, c, w)[c].value = v
         /\ \A j \in Slots : j # c => Put(f, c, w)[j] = f[j]
<1>1. /\ Put(f, c, w) = [j \in Slots |-> Put(f, c, w)[j]] /\ Put(f, c, w)[c] = w
      /\ \A j \in Slots : j # c => Put(f, c, w)[j] = f[j]
  BY DEF IsValues, Put
<1>2. w.value = v
  BY DEF Kv
<1> QED BY <1>1, <1>2 DEF IsValues

(* The fields of the structure, written *)
NamedAt(f, c, s) == Put(f, c, Renamed(f[c], s))
ReturnedAs(g, ret) == [g EXCEPT !.ret = ret]
FilledAt(g, c, v) ==
  [g EXCEPT !.values[c] = [@ EXCEPT !.type = 2, !.value = v], !.count = @ + 1]
CountedAs(g, n) == [g EXCEPT !.count = n]
WithValues(g, f) == [g EXCEPT !.values = f]
OverrunAs(g, o) == [g EXCEPT !.overrun = o]
ValueAt(f, c, v) == Put(f, c, Revalued(Retyped(f[c], 2), v))

(* The fields, read and written *)
LEMMA GlobalsFields ==
  \A c, f, r, o, u :
    LET g == GlobalsOf(c, f, r, o) IN
    /\ g.count = c /\ g.values = f /\ g.ret = r /\ g.overrun = o
    /\ ReturnedAs(g, u) = GlobalsOf(c, f, u, o) /\ CountedAs(g, u) = GlobalsOf(u, f, r, o)
    /\ WithValues(g, u) = GlobalsOf(c, u, r, o) /\ OverrunAs(g, u) = GlobalsOf(c, f, r, u)
<1> TAKE c, f, r, o, u
<1>1. LET g == GlobalsOf(c, f, r, o) IN g.count = c /\ g.values = f /\ g.ret = r /\ g.overrun = o
  BY DEF GlobalsOf
<1>2. ReturnedAs(GlobalsOf(c, f, r, o), u) = GlobalsOf(c, f, u, o)
  BY DEF GlobalsOf, ReturnedAs
<1>3. CountedAs(GlobalsOf(c, f, r, o), u) = GlobalsOf(u, f, r, o)
  BY DEF GlobalsOf, CountedAs
<1>4. WithValues(GlobalsOf(c, f, r, o), u) = GlobalsOf(c, u, r, o)
  BY DEF GlobalsOf, WithValues
<1>5. OverrunAs(GlobalsOf(c, f, r, o), u) = GlobalsOf(c, f, r, u)
  BY DEF GlobalsOf, OverrunAs
<1> QED BY <1>1, <1>2, <1>3, <1>4, <1>5

(* What an element writes *)
LEMMA GlobalsWritten ==
  ASSUME NEW g, NEW e
  PROVE  /\ Named(g, e) = WithValues(g, NamedAt(g.values, g.count,
                                              IF e.key = "long" THEN "" ELSE e.key))
         /\ \A n : FilledAt(n, n.count, e.value) =
                    CountedAs(WithValues(n, ValueAt(n.values, n.count, e.value)), n.count + 1)
<1>1. ASSUME NEW s
      PROVE  [g EXCEPT !.values[g.count].name = s] = WithValues(g, NamedAt(g.values, g.count, s))
  BY DEF WithValues, NamedAt, Put, Renamed
<1>2. ASSUME NEW n, NEW v
      PROVE  FilledAt(n, n.count, v) =
               CountedAs(WithValues(n, ValueAt(n.values, n.count, v)), n.count + 1)
  BY DEF FilledAt, CountedAs, WithValues, ValueAt, Put, Retyped, Revalued
<1> QED BY <1>1, <1>2, Zenon DEF Named

(* An element that is not skipped: what h has after it that g had before *)
IsFilled(g, e, h) ==
  /\ IsGlobals(h) /\ h.overrun = g.overrun
  /\ Unusable(e) => h.ret = "NOT_FOUND" /\ h.count = g.count
  /\ ~Unusable(e) => h.ret = g.ret /\ h.count = g.count + 1
  /\ \A j \in Slots :
       h.values[j].value = IF j = g.count /\ ~Unusable(e) /\ e.type \in {"int", "bytes"}
                           THEN e.value ELSE g.values[j].value

(* A value is written to the slot the count stands at, and to no other. *)
LEMMA GlobalFilled ==
  ASSUME NEW g, IsGlobals(g), NEW e, g.count < APPS_KV_MAX_COUNT
  PROVE  IsFilled(g, e, Filled(g, e))
<1> DEFINE c == g.count
           f == g.values
           r == g.ret
           o == g.overrun
           s == IF e.key = "long" THEN "" ELSE e.key
           named == NamedAt(f, c, s)
           n == GlobalsOf(c, named, r, o)
<1>1. c \in Slots /\ c + 1 \in Nat /\ c \in Nat
  <2>1. c \in Nat /\ APPS_KV_MAX_COUNT \in Nat
    BY ParserAssumption, Zenon DEF IsGlobals, ParserAssumption
  <2> HIDE DEF c
  <2> QED BY <2>1 DEF Slots, c
<1>2. g = GlobalsOf(c, f, r, o) /\ IsValues(f)
  BY DEF IsGlobals
<1> HIDE DEF c, f, r, o, s
<1>3. Named(g, e) = n
  <2>1. Named(g, e) = WithValues(g, named)
    BY GlobalsWritten, Zenon DEF c, f, s
  <2> QED BY <1>2, <2>1, GlobalsFields
<1>4. /\ IsValues(named)
      /\ \A j \in Slots : named[j].value = f[j].value
  <2>1. PICK a, t, v : f[c] = Kv(a, t, v)
    BY <1>1, <1>2 DEF IsValues
  <2>2. Renamed(f[c], s) = Kv(s, t, v) /\ f[c].value = v
    BY <2>1, KvFields DEF Kv
  <2> QED BY <1>1, <1>2, <2>2, SlotPut DEF NamedAt
<1> DEFINE more == ValueAt(named, c, e.value)
<1>5. /\ IsValues(more)
      /\ \A j \in Slots : more[j].value = IF j = c THEN e.value ELSE named[j].value
  <2>1. PICK a, t, v : named[c] = Kv(a, t, v)
    BY <1>1, <1>4 DEF IsValues
  <2>2. Revalued(Retyped(named[c], 2), e.value) = Kv(a, 2, e.value)
    BY <2>1, KvFields
  <2> HIDE DEF named
  <2> QED BY <1>1, <1>4, <2>2, SlotPut DEF ValueAt
<1>6. /\ n.count = c /\ n.values = named
      /\ ReturnedAs(n, "NOT_FOUND") = GlobalsOf(c, named, "NOT_FOUND", o)
      /\ CountedAs(n, c + 1) = GlobalsOf(c + 1, named, r, o)
      /\ FilledAt(n, c, e.value) = GlobalsOf(c + 1, more, r, o)
  <2> HIDE DEF named
  <2>1. /\ n.count = c /\ n.values = named
        /\ ReturnedAs(n, "NOT_FOUND") = GlobalsOf(c, named, "NOT_FOUND", o)
        /\ CountedAs(n, c + 1) = GlobalsOf(c + 1, named, r, o)
        /\ CountedAs(WithValues(n, more), c + 1) = GlobalsOf(c + 1, more, r, o)
    BY GlobalsFields
  <2>2. FilledAt(n, n.count, e.value) =
          CountedAs(WithValues(n, ValueAt(n.values, n.count, e.value)), n.count + 1)
    BY GlobalsWritten
  <2> QED BY <2>1, <2>2
<1> HIDE DEF named, n, more
<1>7. ASSUME NEW u \in Nat, NEW k, IsValues(k), NEW q
      PROVE  /\ IsGlobals(GlobalsOf(u, k, q, o)) /\ GlobalsOf(u, k, q, o).count = u
             /\ GlobalsOf(u, k, q, o).values = k /\ GlobalsOf(u, k, q, o).ret = q
             /\ GlobalsOf(u, k, q, o).overrun = o
  BY <1>7, GlobalsFields DEF IsGlobals
<1>8. CASE Unusable(e)
  <2>1. Filled(g, e) = GlobalsOf(c, named, "NOT_FOUND", o)
    BY <1>3, <1>6, <1>8 DEF Filled, ReturnedAs
  <2> QED BY <1>1, <1>4, <1>7, <1>8, <2>1 DEF IsFilled, c, f, r, o
<1>9. CASE ~Unusable(e) /\ e.type \in {"int", "bytes"}
  <2>1. Filled(g, e) = GlobalsOf(c + 1, more, r, o)
    BY <1>3, <1>6, <1>9, Zenon DEF Filled, FilledAt, c
  <2> QED BY <1>1, <1>4, <1>5, <1>7, <1>9, <2>1 DEF IsFilled, c, f, r, o
<1>10. CASE ~Unusable(e) /\ e.type \notin {"int", "bytes"}
  <2>1. Filled(g, e) = GlobalsOf(c + 1, named, r, o)
    <3>1. [n EXCEPT !.count = @ + 1] = CountedAs(n, c + 1)
      BY <1>6 DEF CountedAs
    <3> QED BY <1>3, <1>6, <1>10, <3>1, Zenon DEF Filled
  <2> QED BY <1>1, <1>4, <1>7, <1>10, <2>1 DEF IsFilled, c, f, r, o
<1> QED BY <1>8, <1>9, <1>10

(* The structure after each of the elements *)
Filling(elements, f) ==
  f = [n \in 0 .. Len(elements) |->
         IF n = 0 THEN [NoGlobals EXCEPT !.ret = "SUCCESS"] ELSE ElementRead(f[n - 1], elements[n])]

(* There is such a function, for there is no first element it ends before. *)
LEMMA FillingExists ==
  ASSUME NEW elements, Len(elements) \in Nat
  PROVE  \E f : Filling(elements, f)
<1> DEFINE start == [NoGlobals EXCEPT !.ret = "SUCCESS"]
           UpTo(n) == \E f : f = [i \in 0 .. n |->
                                    IF i = 0 THEN start ELSE ElementRead(f[i - 1], elements[i])]
           not == {n \in 0 .. Len(elements) : ~UpTo(n)}
<1>1. not \in SUBSET Nat
  <2>1. 0 .. Len(elements) \in SUBSET Nat
    OBVIOUS
  <2> HIDE DEF UpTo
  <2> QED BY <2>1
<1>2. SUFFICES ASSUME not # {} PROVE FALSE
  <2>1. UpTo(Len(elements))
    <3> HIDE DEF UpTo
    <3> QED BY <1>2
  <2> QED BY <2>1, Zenon DEF Filling
<1>3. PICK n \in not : \A k \in not : ~(k < n)
  <2> HIDE DEF not
  <2> QED BY <1>1, <1>2, LeastOf
<1>4. n \in 0 .. Len(elements) /\ ~UpTo(n)
  <2> HIDE DEF UpTo
  <2> QED OBVIOUS
<1> HIDE DEF start
<1>5. CASE n = 0
  <2> DEFINE f == [i \in 0 .. 0 |-> start]
  <2>1. f = [i \in 0 .. n |-> IF i = 0 THEN start ELSE ElementRead(f[i - 1], elements[i])]
    BY <1>5
  <2> QED BY <1>4, <2>1, Zenon
<1>6. CASE n # 0
  <2>1. n - 1 \in 0 .. Len(elements) /\ n - 1 < n
    BY <1>4, <1>6
  <2>2. UpTo(n - 1)
    <3> HIDE DEF UpTo
    <3> QED BY <1>3, <2>1
  <2>3. PICK g : g = [i \in 0 .. n - 1 |->
                        IF i = 0 THEN start ELSE ElementRead(g[i - 1], elements[i])]
    BY <2>2
  <2> DEFINE f == [i \in 0 .. n |-> IF i < n THEN g[i] ELSE ElementRead(g[n - 1], elements[n])]
  <2>4. ASSUME NEW i \in 0 .. n
        PROVE  f[i] = IF i = 0 THEN start ELSE ElementRead(f[i - 1], elements[i])
    <3>1. CASE i = n
      <4>0. n \in 0 .. n /\ n - 1 \in 0 .. n /\ ~(n < n) /\ n - 1 < n
        BY <1>4, <1>6
      <4>1. f[n] = ElementRead(g[n - 1], elements[n]) /\ f[n - 1] = g[n - 1]
        BY <4>0
      <4> QED BY <1>6, <3>1, <4>1
    <3>2. CASE i # n
      <4>1. i \in 0 .. n - 1 /\ i < n
        BY <1>4, <3>2
      <4>2. g[i] = IF i = 0 THEN start ELSE ElementRead(g[i - 1], elements[i])
        BY <2>3, <4>1
      <4>3. i # 0 => i - 1 \in 0 .. n /\ i - 1 < n
        BY <1>4
      <4> QED BY <4>1, <4>2, <4>3
    <3> QED BY <3>1, <3>2
  <2>5. f = [i \in 0 .. n |-> IF i = 0 THEN start ELSE ElementRead(f[i - 1], elements[i])]
    BY <2>4
  <2> QED BY <1>4, <2>5, Zenon
<1> QED BY <1>5, <1>6

(* What the client gets is its last value. *)
LEMMA GlobalsAreFilled ==
  ASSUME NEW elements, Len(elements) \in Nat
  PROVE  \E f : /\ Filling(elements, f)
                /\ parser_application_json(elements, NoGlobals) = f[Len(elements)]
<1> DEFINE f == CHOOSE f : Filling(elements, f)
<1>1. parser_application_json(elements, NoGlobals) = f[Len(elements)]
  BY Zenon DEF parser_application_json, Filling
<1>2. Filling(elements, f)
  BY FillingExists, Zenon
<1> QED BY <1>1, <1>2

(* Those of the first n elements that are read *)
Seen(elements, n) == {k \in Read(elements) : k <= n}

FilledUpTo(elements, g, n) ==
  /\ IsGlobals(g)
  /\ ~g.overrun =>
       /\ g.ret = IF \E u \in Useless(elements) : u <= n THEN "NOT_FOUND" ELSE "SUCCESS"
       /\ g.count = Cardinality(Seen(elements, n))
       /\ \A k \in Seen(elements, n) : elements[k].type \in {"int", "bytes"} =>
            g.values[Place(elements, k)].value = elements[k].value

(* The places of what was read are below their number, and in order. *)
LEMMA PlacesAreSlots ==
  ASSUME NEW elements, DOMAIN elements = 1 .. Len(elements), Len(elements) \in Nat, NEW n \in Nat
  PROVE  /\ IsFiniteSet(Seen(elements, n)) /\ Cardinality(Seen(elements, n)) \in Nat
         /\ \A k \in Seen(elements, n) : /\ Place(elements, k) \in Nat
                                         /\ Place(elements, k) < Cardinality(Seen(elements, n))
         /\ n + 1 \in Read(elements) =>
              /\ Seen(elements, n + 1) = Seen(elements, n) \cup {n + 1}
              /\ Cardinality(Seen(elements, n + 1)) = Cardinality(Seen(elements, n)) + 1
              /\ Place(elements, n + 1) = Cardinality(Seen(elements, n))
         /\ n + 1 \notin Read(elements) => Seen(elements, n + 1) = Seen(elements, n)
<1> DEFINE R == Read(elements)
           S == Seen(elements, n)
<1>1. R \subseteq 1 .. Len(elements) /\ R \subseteq Nat
  BY DEF Read, Keyed
<1>2. IsFiniteSet(R)
  <2>1. IsFiniteSet(1 .. Len(elements))
    BY FS_Interval
  <2> QED BY <1>1, <2>1, FS_Subset
<1>3. \A T : T \subseteq R => IsFiniteSet(T) /\ Cardinality(T) \in Nat
  BY <1>2, FS_Subset, FS_CardinalityType
<1>4. S \subseteq R
  BY DEF Seen
<1>5. ASSUME NEW k \in S
      PROVE  Place(elements, k) \in Nat /\ Place(elements, k) < Cardinality(S)
  <2> DEFINE before == {j \in R : j < k}
  <2>1. before \subseteq S /\ k \notin before /\ k \in S
    BY <1>1 DEF Seen
  <2>2. Cardinality(before) \in Nat /\ Cardinality(S) \in Nat /\ IsFiniteSet(S)
    BY <1>3, <1>4
  <2>3. Cardinality(before) <= Cardinality(S)
          /\ (Cardinality(S) = Cardinality(before) => S = before)
    <3> HIDE DEF before, S
    <3> QED BY <2>1, <2>2, FS_Subset
  <2>4. Place(elements, k) = Cardinality(before)
    BY DEF Place
  <2> HIDE DEF before, S
  <2> QED BY <2>1, <2>2, <2>3, <2>4
<1>6. n + 1 \in R => Seen(elements, n + 1) = S \cup {n + 1} /\ n + 1 \notin S
  BY <1>1 DEF Seen
<1>7. n + 1 \in R => Cardinality(S \cup {n + 1}) = Cardinality(S) + 1
  <2> HIDE DEF S, R
  <2> QED BY <1>3, <1>4, <1>6, FS_AddElement
<1>8. Place(elements, n + 1) = Cardinality(S)
  <2>1. {j \in R : j < n + 1} = S
    BY <1>1 DEF Seen
  <2> QED BY <2>1 DEF Place
<1>9. n + 1 \notin R => Seen(elements, n + 1) = S
  BY <1>1 DEF Seen
<1> QED BY <1>3, <1>4, <1>5, <1>6, <1>7, <1>8, <1>9

(* One element more *)
LEMMA OneElementRead ==
  ASSUME NEW elements, DOMAIN elements = 1 .. Len(elements), Len(elements) \in Nat,
         NEW n \in Nat, n + 1 \in 1 .. Len(elements), NEW g, FilledUpTo(elements, g, n)
  PROVE  FilledUpTo(elements, ElementRead(g, elements[n + 1]), n + 1)
<1> DEFINE e == elements[n + 1]
           h == ElementRead(g, e)
           S == Seen(elements, n)
<1>1. IsGlobals(g) /\ g.count \in Nat /\ APPS_KV_MAX_COUNT \in Nat
  BY ParserAssumption, Zenon DEF ParserAssumption, FilledUpTo, IsGlobals
<1>2. CASE g.overrun
  <2>1. h = g
    BY <1>2 DEF ElementRead
  <2> QED BY <1>1, <1>2, <2>1 DEF FilledUpTo
<1>3. CASE ~g.overrun
  <2>1. /\ g.ret = IF \E u \in Useless(elements) : u <= n THEN "NOT_FOUND" ELSE "SUCCESS"
        /\ g.count = Cardinality(S)
        /\ \A k \in S : elements[k].type \in {"int", "bytes"} =>
             g.values[Place(elements, k)].value = elements[k].value
    BY <1>3 DEF FilledUpTo
  <2>2. /\ Keyed(elements) = {k \in 1 .. Len(elements) : elements[k].key # "none"}
        /\ Useless(elements) = {k \in Keyed(elements) : Unusable(elements[k])}
        /\ Read(elements) = {k \in Keyed(elements) : \A u \in Useless(elements) : k < u}
    BY DEF Keyed, Useless, Read
  <2>3. Useless(elements) \subseteq Nat
    BY <2>2
  <2>4. ASSUME h = g, n + 1 \notin Read(elements),
               n + 1 \in Useless(elements) => \E u \in Useless(elements) : u <= n
        PROVE  FilledUpTo(elements, h, n + 1)
    <3>1. Seen(elements, n + 1) = S
      BY <2>4, PlacesAreSlots
    <3>2. (\E u \in Useless(elements) : u <= n + 1) <=> \E u \in Useless(elements) : u <= n
      BY <2>3, <2>4
    <3> QED BY <1>1, <2>1, <2>4, <3>1, <3>2 DEF FilledUpTo
  <2>5. CASE g.ret # "SUCCESS"
    <3>1. PICK u \in Useless(elements) : u <= n
      BY <2>1, <2>5
    <3>2. ~(n + 1 < u)
      BY <2>3, <3>1
    <3>3. h = g
      BY <2>5 DEF ElementRead
    <3> QED BY <2>2, <2>4, <3>1, <3>2, <3>3
  <2>6. CASE g.ret = "SUCCESS" /\ e.key = "none"
    <3>1. h = g
      BY <2>6 DEF ElementRead
    <3> QED BY <2>2, <2>4, <2>6, <3>1
  <2>7. CASE g.ret = "SUCCESS" /\ e.key # "none" /\ g.count >= APPS_KV_MAX_COUNT
    <3>1. h = OverrunAs(g, TRUE)
      BY <1>3, <2>7 DEF ElementRead, OverrunAs
    <3>2. g = GlobalsOf(g.count, g.values, g.ret, g.overrun)
      BY <1>1 DEF IsGlobals
    <3>3. \A o : OverrunAs(g, o) = GlobalsOf(g.count, g.values, g.ret, o)
      BY <3>2, GlobalsFields
    <3>4. \A o : LET full == GlobalsOf(g.count, g.values, g.ret, o) IN
                 full.overrun = o /\ IsGlobals(full)
      BY <1>1, GlobalsFields DEF IsGlobals
    <3>5. h.overrun /\ IsGlobals(h)
      BY <3>1, <3>3, <3>4, Zenon
    <3> QED BY <3>5 DEF FilledUpTo
  <2>8. CASE g.ret = "SUCCESS" /\ e.key # "none" /\ g.count < APPS_KV_MAX_COUNT
    <3>1. h = Filled(g, e)
      BY <1>1, <1>3, <2>8 DEF ElementRead
    <3>2. IsFilled(g, e, h)
      BY <1>1, <2>8, <3>1, GlobalFilled
    <3> SUFFICES FilledUpTo(elements, h, n + 1)
      OBVIOUS
    <3> HIDE DEF h
    <3>3. n + 1 \in Keyed(elements) /\ \A u \in Useless(elements) : ~(u <= n)
      BY <2>1, <2>2, <2>8
    <3>4. ~h.overrun
      BY <1>3, <3>2 DEF IsFilled
    <3>5. /\ Cardinality(S) \in Nat
          /\ \A k \in S : /\ Place(elements, k) \in Nat /\ Place(elements, k) \in Slots
                          /\ Place(elements, k) < g.count
      <4>1. /\ Cardinality(S) \in Nat
            /\ \A k \in S : Place(elements, k) \in Nat /\ Place(elements, k) < Cardinality(S)
        BY PlacesAreSlots
      <4>2. ASSUME NEW p \in Nat, p < g.count PROVE p \in Slots
        BY <1>1, <2>8, <4>2 DEF Slots
      <4> QED BY <2>1, <4>1, <4>2
    <3>6. \A k \in S : h.values[Place(elements, k)].value = g.values[Place(elements, k)].value
      <4>1. \A k \in S : Place(elements, k) # g.count
        BY <1>1, <3>5
      <4> QED BY <3>2, <3>5, <4>1 DEF IsFilled
    <3>7. CASE Unusable(e)
      <4>1. n + 1 \in Useless(elements) /\ n + 1 \notin Read(elements)
        BY <2>2, <3>3, <3>7
      <4>2. Seen(elements, n + 1) = S
        BY <4>1, PlacesAreSlots
      <4>3. h.ret = "NOT_FOUND" /\ h.count = g.count
        BY <3>2, <3>7 DEF IsFilled
      <4>4. \E u \in Useless(elements) : u <= n + 1
        BY <4>1
      <4> HIDE DEF S
      <4> QED BY <2>1, <3>2, <3>6, <4>2, <4>3, <4>4 DEF FilledUpTo, IsFilled
    <3>8. CASE ~Unusable(e)
      <4>1. n + 1 \notin Useless(elements)
        BY <2>2, <3>8
      <4>2. \A u \in Useless(elements) : n + 1 < u /\ ~(u <= n + 1)
        BY <2>3, <3>3, <4>1
      <4>3. n + 1 \in Read(elements)
        BY <2>2, <3>3, <4>2
      <4>4. /\ Seen(elements, n + 1) = S \cup {n + 1}
            /\ Cardinality(Seen(elements, n + 1)) = g.count + 1
            /\ Place(elements, n + 1) = g.count
        BY <2>1, <4>3, PlacesAreSlots
      <4>5. h.ret = "SUCCESS" /\ h.count = g.count + 1
        BY <2>8, <3>2, <3>8 DEF IsFilled
      <4>6. g.count \in Slots
        BY <1>1, <2>8 DEF Slots
      <4>7. e.type \in {"int", "bytes"} => h.values[g.count].value = e.value
        BY <3>2, <3>8, <4>6 DEF IsFilled
      <4> HIDE DEF S
      <4>8. \A k \in S \cup {n + 1} : elements[k].type \in {"int", "bytes"} =>
              h.values[Place(elements, k)].value = elements[k].value
        BY <2>1, <3>6, <4>4, <4>7
      <4> QED BY <3>2, <4>2, <4>4, <4>5, <4>8 DEF FilledUpTo, IsFilled
    <3> QED BY <3>7, <3>8
  <2> QED BY <1>1, <2>5, <2>6, <2>7, <2>8
<1> QED BY <1>2, <1>3

(* A cleared structure is filled with what was read. *)
LEMMA ElementsRead ==
  ASSUME NEW elements, DOMAIN elements = 1 .. Len(elements), Len(elements) \in Nat,
         NEW f, Filling(elements, f)
  PROVE  \A n \in 0 .. Len(elements) : FilledUpTo(elements, f[n], n)
<1> DEFINE Good(n) == FilledUpTo(elements, f[n], n)
           not == {n \in 0 .. Len(elements) : ~Good(n)}
<1>1. SUFFICES ASSUME not # {} PROVE FALSE
  OBVIOUS
<1>2. PICK n \in not : \A k \in not : ~(k < n)
  <2>1. not \in SUBSET Nat
    <3> HIDE DEF Good
    <3> QED OBVIOUS
  <2> HIDE DEF not
  <2> QED BY <1>1, <2>1, LeastOf
<1>3. n \in 0 .. Len(elements) /\ ~Good(n)
  <2> HIDE DEF Good
  <2> QED OBVIOUS
<1>4. CASE n = 0
  <2>1. f[0] = [NoGlobals EXCEPT !.ret = "SUCCESS"]
    BY DEF Filling
  <2> DEFINE none == [k \in Slots |-> NoKeyValue]
  <2>2. f[0] = GlobalsOf(0, none, "SUCCESS", FALSE)
    BY <2>1 DEF NoGlobals, GlobalsOf, Slots
  <2>3. \A k \in Slots : none[k] = Kv("", 0, 0)
    BY DEF NoKeyValue, Kv
  <2>4. IsValues(none)
    BY <2>3 DEF IsValues
  <2> HIDE DEF none
  <2>5. IsGlobals(f[0]) /\ f[0].ret = "SUCCESS" /\ f[0].count = 0
    <3>1. \A o : LET g == GlobalsOf(0, none, "SUCCESS", o) IN
                 IsGlobals(g) /\ g.ret = "SUCCESS" /\ g.count = 0
      BY <2>4, GlobalsFields DEF IsGlobals
    <3> QED BY <2>2, <3>1, Zenon
  <2>6. Seen(elements, 0) = {} /\ \A u \in Useless(elements) : ~(u <= 0)
    BY DEF Seen, Read, Useless, Keyed
  <2>7. Cardinality(Seen(elements, 0)) = 0
    BY <2>6, FS_EmptySet
  <2> QED BY <1>3, <1>4, <2>5, <2>6, <2>7 DEF FilledUpTo
<1>5. CASE n # 0
  <2>1. n - 1 \in 0 .. Len(elements) /\ n - 1 < n /\ n - 1 \in Nat /\ (n - 1) + 1 = n
        /\ n \in 1 .. Len(elements)
    BY <1>3, <1>5
  <2>2. Good(n - 1)
    <3> HIDE DEF Good
    <3> QED BY <1>2, <2>1
  <2>3. f[n] = ElementRead(f[n - 1], elements[n])
    BY <1>3, <1>5 DEF Filling
  <2>4. Good(n)
    BY <2>1, <2>2, <2>3, OneElementRead
  <2> QED BY <1>3, <2>4
<1> QED BY <1>4, <1>5

(* The global variables an application has are those the client gets, into *)
(* a structure it cleared: in their order, as many as come before one that *)
(* cannot be used, and the call's result says whether there is such a one. *)
(* The name that is written before the value is looked at, and the type of *)
(* byte slices, leave the values and their number as they are.             *)
THEOREM GlobalsAreTold == Spec => GlobalsAsTold
<1>1. ASSUME NEW elements \in GlobalsAnswer, provider_application_info_get(elements, NoGlobals),
             ~global_states'.overrun
      PROVE  HasGlobals(global_states', elements)
  <2> DEFINE g == global_states'
             m == Len(elements)
  <2>1. DOMAIN elements = 1 .. m /\ m \in Nat
    BY AccountInfoAssumption DEF AccountInfoAssumption
  <2>2. g = parser_application_json(elements, NoGlobals)
    BY <1>1 DEF provider_application_info_get
  <2>3. PICK f : Filling(elements, f) /\ g = f[m]
    BY <2>1, <2>2, GlobalsAreFilled
  <2>4. FilledUpTo(elements, g, m)
    BY <2>1, <2>3, ElementsRead
  <2>5. Useless(elements) \subseteq 1 .. m /\ Read(elements) \subseteq 1 .. m
    BY <2>1 DEF Useless, Read, Keyed
  <2>6. Seen(elements, m) = Read(elements)
    BY <2>1, <2>5 DEF Seen
  <2>7. (\E u \in Useless(elements) : u <= m) <=> Useless(elements) # {}
    BY <2>1, <2>5
  <2> QED BY <1>1, <2>4, <2>6, <2>7 DEF FilledUpTo, HasGlobals
<1>2. [Next]_vars =>
        [\A elements \in GlobalsAnswer :
           provider_application_info_get(elements, NoGlobals) /\ ~global_states'.overrun
           => HasGlobals(global_states', elements)]_vars
  BY <1>1
<1> QED BY <1>2, PTL DEF Spec, GlobalsAsTold
=============================================================================
