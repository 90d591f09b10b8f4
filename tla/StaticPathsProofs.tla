--------------------------- MODULE StaticPathsProofs ---------------------------
(***************************************************************************)
(* Proofs about StaticPaths for any requests, paths, options and files,    *)
(* and any number of calls of R.                                           *)
(***************************************************************************)
EXTENDS StaticPaths, SequencesExt, SequenceTheorems, FiniteSetTheorems,
        FunctionTheorems, WellFoundedInduction, TLAPS

(* Facts about sequences that the proofs below use.                         *)

\* A nonempty set of natural numbers has a least element.
LEMMA LeastElement ==
  ASSUME NEW T, T \subseteq Nat, T # {}
  PROVE  \E x \in T : \A y \in T : x <= y
<1> DEFINE R == OpToRel(<, Nat)
<1>1. \A x, y \in Nat : <<x, y>> \in R <=> x < y
  BY DEF OpToRel
<1>2. IsWellFoundedOn(R, Nat)
  BY NatLessThanWellFounded
<1> HIDE DEF R
<1>3. PICK x \in T : \A y \in T : ~(<<y, x>> \in R)
  BY <1>2, WFMin
<1>4. ASSUME NEW y \in T PROVE x <= y
  <2>1. x \in Nat /\ y \in Nat
    OBVIOUS
  <2>2. ~(y < x)
    BY <1>1, <1>3, <2>1
  <2> QED BY <2>1, <2>2
<1> QED BY <1>4

\* A nonempty set of natural numbers with a bound has a greatest element.
LEMMA GreatestElement ==
  ASSUME NEW n \in Nat, NEW T, T \subseteq 0..n, T # {}
  PROVE  Max(T) \in T /\ \A y \in T : y <= Max(T)
<1> DEFINE U == {n - x : x \in T}
<1>1. U \subseteq Nat
  OBVIOUS
<1>0. U # {}
  <2>1. PICK x : x \in T
    OBVIOUS
  <2>2. n - x \in U
    BY <2>1
  <2> QED BY <2>2
<1>2. PICK u \in U : \A y \in U : u <= y
  BY <1>0, <1>1, LeastElement
<1>3. PICK x \in T : u = n - x
  BY <1>2
<1>4. ASSUME NEW y \in T PROVE x >= y
  <2>1. n - y \in U
    OBVIOUS
  <2>2. n - x <= n - y
    BY <1>2, <1>3, <2>1
  <2> QED BY <2>2
<1> QED BY <1>3, <1>4 DEF Max

\* Popping the front keeps the order and brings in nothing new.
LEMMA TailRange ==
  ASSUME NEW S, NEW s \in Seq(S), s # <<>>
  PROVE  /\ Head(s) \in S /\ Tail(s) \in Seq(S) /\ Head(s) = s[1]
         /\ Len(s) \in Nat \ {0} /\ Len(Tail(s)) = Len(s) - 1
         /\ \A i \in 1..Len(Tail(s)) : Tail(s)[i] = s[i + 1]
         /\ Range(s) = {Head(s)} \cup Range(Tail(s))
<1>1. /\ Head(s) \in S /\ Tail(s) \in Seq(S) /\ Head(s) = s[1]
      /\ Len(s) \in Nat \ {0} /\ Len(Tail(s)) = Len(s) - 1
      /\ \A i \in 1..Len(Tail(s)) : Tail(s)[i] = s[i + 1]
  BY HeadTailProperties, EmptySeq
<1>2. Range(s) = {Head(s)} \cup Range(Tail(s))
  <2> DEFINE t == Tail(s)
  <2>1. Range(s) = {s[i] : i \in 1..Len(s)} /\ Range(t) = {t[i] : i \in 1..Len(t)}
    BY <1>1, RangeEquality, ZenonT(40)
  <2> HIDE DEF t
  <2>2. ASSUME NEW x \in Range(s) PROVE x \in {Head(s)} \cup Range(t)
    <3>1. PICK i \in 1..Len(s) : s[i] = x
      BY <2>1
    <3>2. CASE i = 1
      BY <1>1, <3>1, <3>2
    <3>3. CASE i # 1
      <4>1. i - 1 \in 1..Len(t) /\ t[i - 1] = s[i]
        BY <1>1, <3>3 DEF t
      <4> QED BY <2>1, <3>1, <4>1
    <3> QED BY <3>2, <3>3
  <2>3. ASSUME NEW x \in {Head(s)} \cup Range(t) PROVE x \in Range(s)
    <3>1. CASE x = Head(s)
      BY <1>1, <2>1, <3>1
    <3>2. CASE x \in Range(t)
      <4>1. PICK i \in 1..Len(t) : t[i] = x
        BY <2>1, <3>2
      <4>2. i + 1 \in 1..Len(s) /\ s[i + 1] = x
        BY <1>1, <4>1 DEF t
      <4> QED BY <2>1, <4>2
    <3> QED BY <3>1, <3>2
  <2> QED BY <2>2, <2>3 DEF t
<1> QED BY <1>1, <1>2

-----------------------------------------------------------------------------
(* Decoding gives text.  doDecodeURI is a recursive function; that there is  *)
(* one, and that its values are sequences of characters, goes from the last  *)
(* position of the URL to the first.                                         *)

Text == Seq(Char)

LEMMA CharIsText ==
  ASSUME NEW s, NEW i
  PROVE  CharAt(s, i) \in Char
<1>1. Unnamed \in Char /\ \A c \in Coded : c \in Char
  BY StaticPathsAssumption
<1>2. CASE \E c \in Coded : Code[c] = DigitsAt(s, i)
  BY <1>1, <1>2 DEF CharAt
<1>3. CASE ~ \E c \in Coded : Code[c] = DigitsAt(s, i)
  BY <1>1, <1>3 DEF CharAt
<1> QED BY <1>2, <1>3

\* What DecodeAt makes of position i depends only on the positions behind it.
LEMMA DecodeAtLooksAhead ==
  ASSUME NEW s \in Text, NEW component, NEW i \in 1..(Len(s) + 1), NEW f, NEW g,
         \A j \in (i + 1)..(Len(s) + 1) : f[j] = g[j]
  PROVE  DecodeAt(s, component, i, f) = DecodeAt(s, component, i, g)
<1>0. Len(s) \in Nat
  BY LenProperties DEF Text
<1>1. i <= Len(s) => f[i + 1] = g[i + 1]
  BY <1>0
<1>2. EscapeAt(s, i) => f[i + 3] = g[i + 3]
  BY <1>0 DEF EscapeAt
<1> QED BY <1>0, <1>1, <1>2 DEF DecodeAt

LEMMA DecodeAtType ==
  ASSUME NEW s \in Text, NEW component, NEW i \in 1..(Len(s) + 1), NEW f,
         \A j \in (i + 1)..(Len(s) + 1) : f[j] \in Text
  PROVE  DecodeAt(s, component, i, f) \in Text
<1>0. Len(s) \in Nat
  BY LenProperties DEF Text
<1>1. i <= Len(s) => f[i + 1] \in Text /\ s[i] \in Char
  BY <1>0, ElementOfSeq DEF Text
<1>2. EscapeAt(s, i) => f[i + 3] \in Text /\ SubSeq(s, i, i + 2) \in Text
  <2>1. SUFFICES ASSUME EscapeAt(s, i) PROVE f[i + 3] \in Text /\ SubSeq(s, i, i + 2) \in Text
    OBVIOUS
  <2>2. i + 3 \in (i + 1)..(Len(s) + 1) /\ i + 2 <= Len(s)
    BY <1>0, <2>1 DEF EscapeAt
  <2>3. \A j \in i..(i + 2) : s[j] \in Char
    BY <1>0, <2>2, ElementOfSeq DEF Text
  <2> QED BY <2>2, <2>3, SubSeqProperties DEF Text
<1>3. \A c \in Char : <<c>> \in Text
  BY DEF Text
<1>4. \A t, u \in Text : t \o u \in Text
  BY ConcatProperties DEF Text
<1>5. <<>> \in Text
  BY EmptySeq DEF Text
<1>6. CharAt(s, i) \in Char
  BY CharIsText
<1>7. CASE i > Len(s)
  BY <1>0, <1>5, <1>7 DEF DecodeAt
<1>8. CASE i <= Len(s) /\ ~EscapeAt(s, i)
  BY <1>0, <1>1, <1>3, <1>4, <1>8 DEF DecodeAt
<1>9. CASE i <= Len(s) /\ EscapeAt(s, i)
  <2> DEFINE stays == \/ ~(DigitsAt(s, i)[1] \in HexDigits /\ DigitsAt(s, i)[2] \in HexDigits)
                      \/ ~component /\ isReservedUrlChar(CharAt(s, i))
  <2>1. DecodeAt(s, component, i, f) = IF stays THEN SubSeq(s, i, i + 2) \o f[i + 3]
                                       ELSE <<CharAt(s, i)>> \o f[i + 3]
    BY <1>0, <1>9 DEF DecodeAt
  <2> HIDE DEF stays
  <2> QED BY <1>2, <1>3, <1>4, <1>6, <1>9, <2>1
<1> QED BY <1>0, <1>7, <1>8, <1>9

\* g is what the recursion of doDecodeURI defines from position k on.
DecodesFrom(s, component, k, g) ==
  g = [i \in k..(Len(s) + 1) |-> DecodeAt(s, component, i, g)]

LEMMA DecodeExists ==
  ASSUME NEW s \in Text, NEW component
  PROVE  \E g : DecodesFrom(s, component, 1, g)
<1> DEFINE last == Len(s) + 1
           bad == {k \in 1..last : ~ \E g : DecodesFrom(s, component, k, g)}
<1>0. Len(s) \in Nat
  BY LenProperties DEF Text
<1>1. SUFFICES ASSUME bad # {} PROVE FALSE
  <2>1. 1 \in 1..last
    BY <1>0
  <2> QED BY <2>1
<1>2. bad \subseteq 0..last /\ last \in Nat
  BY <1>0
<1> DEFINE k == Max(bad)
<1> HIDE DEF bad, last
<1>3. k \in bad /\ \A j \in bad : j <= k
  BY <1>1, <1>2, GreatestElement
<1> USE DEF bad, last
<1> HIDE DEF k
<1>4. k \in 1..last /\ ~ \E g : DecodesFrom(s, component, k, g)
  BY <1>3
<1>5. CASE k = last
  <2> DEFINE g == [i \in k..last |-> <<>>]
  <2>1. \A i \in k..last : DecodeAt(s, component, i, g) = <<>>
    BY <1>0, <1>5 DEF DecodeAt
  <2>2. DecodesFrom(s, component, k, g)
    BY <2>1 DEF DecodesFrom
  <2> QED BY <1>4, <2>2
<1>6. CASE k # last
  <2>1. k + 1 \in 1..last /\ ~(k + 1 <= k)
    BY <1>0, <1>4, <1>6
  <2>2. PICK g : DecodesFrom(s, component, k + 1, g)
    BY <1>3, <2>1
  <2> DEFINE h == [i \in k..last |-> IF i = k THEN DecodeAt(s, component, k, g) ELSE g[i]]
  <2>3. \A i \in (k + 1)..last : h[i] = g[i] /\ g[i] = DecodeAt(s, component, i, g)
    BY <1>0, <1>4, <2>2, SMTT(40) DEF DecodesFrom
  <2>4. h[k] = DecodeAt(s, component, k, g)
    BY <1>0, <1>4
  <2>9. h = [i \in k..last |-> h[i]]
    OBVIOUS
  <2> HIDE DEF h
  <2>5. ASSUME NEW i \in k..last PROVE DecodeAt(s, component, i, h) = DecodeAt(s, component, i, g)
    <3>1. i \in 1..(Len(s) + 1) /\ \A j \in (i + 1)..(Len(s) + 1) : h[j] = g[j]
      BY <1>0, <1>4, <2>3
    <3> QED BY <3>1, DecodeAtLooksAhead
  <2>6. ASSUME NEW i \in k..last PROVE h[i] = DecodeAt(s, component, i, h)
    <3>1. i = k \/ i \in (k + 1)..last
      BY <1>0, <1>4
    <3> QED BY <2>3, <2>4, <2>5, <3>1
  <2>7. DecodesFrom(s, component, k, h)
    BY <2>6, <2>9 DEF DecodesFrom
  <2> QED BY <1>4, <2>7
<1> QED BY <1>5, <1>6

\* doDecodeURI makes text of text.
LEMMA DecodeIsText ==
  ASSUME NEW s \in Text, NEW component
  PROVE  doDecodeURI(s, component) \in Text
<1> DEFINE last == Len(s) + 1
           g == CHOOSE f : f = [i \in 1..last |-> DecodeAt(s, component, i, f)]
<1>0. Len(s) \in Nat
  BY LenProperties DEF Text
<1>1. g = [i \in 1..last |-> DecodeAt(s, component, i, g)]
  <2>1. \E f : f = [i \in 1..last |-> DecodeAt(s, component, i, f)]
    BY DecodeExists DEF DecodesFrom
  <2> QED BY <2>1
<1>2. doDecodeURI(s, component) = g[1]
  BY DEF doDecodeURI
<1> HIDE DEF g
<1> DEFINE bad == {i \in 1..last : g[i] \notin Text}
<1>3. CASE bad = {}
  BY <1>0, <1>2, <1>3
<1>4. CASE bad # {}
  <2> DEFINE k == Max(bad)
  <2>1. bad \subseteq 0..last /\ last \in Nat
    BY <1>0
  <2> HIDE DEF bad, last
  <2>2. k \in bad /\ \A j \in bad : j <= k
    BY <1>4, <2>1, GreatestElement
  <2> USE DEF bad, last
  <2> HIDE DEF k
  <2>3. k \in 1..last /\ g[k] \notin Text
    BY <2>2
  <2>4. \A j \in (k + 1)..(Len(s) + 1) : g[j] \in Text
    BY <1>0, <2>2, <2>3
  <2>5. g[k] = DecodeAt(s, component, k, g)
    BY <1>1, <2>3
  <2> QED BY <2>3, <2>4, <2>5, DecodeAtType
<1> QED BY <1>3, <1>4

-------------------------------------------------------------------------------
(* The file that LocalPath names and the URL. *)

LEMMA StripFacts ==
  ASSUME NEW path \in Text
  PROVE  /\ Strip(path) \in Text /\ Len(path) \in Nat /\ Len(Strip(path)) \in Nat
         /\ \A i \in 1..Len(Strip(path)) : Strip(path)[i] = path[i]
         /\ \/ Len(Strip(path)) = Len(path)
            \/ Len(Strip(path)) = Len(path) - 1 /\ path[Len(path)] = "/"
<1>1. Len(path) \in Nat /\ \A i \in 1..Len(path) : path[i] \in Char
  BY LenProperties, ElementOfSeq DEF Text
<1>2. CASE Len(path) > 1 /\ Last(path) = "/"
  <2>1. Strip(path) = SubSeq(path, 1, Len(path) - 1)
    BY <1>2 DEF Strip, Front
  <2>2. /\ SubSeq(path, 1, Len(path) - 1) \in Text
        /\ Len(SubSeq(path, 1, Len(path) - 1)) = Len(path) - 1
        /\ \A i \in 1..(Len(path) - 1) : SubSeq(path, 1, Len(path) - 1)[i] = path[i]
    BY <1>1, <1>2, SubSeqProperties DEF Text
  <2> QED BY <1>1, <1>2, <2>1, <2>2 DEF Last
<1>3. CASE ~(Len(path) > 1 /\ Last(path) = "/")
  BY <1>1, <1>3 DEF Strip
<1> QED BY <1>2, <1>3

\* The last slash before a position, if there is one.
LEMMA SplitFacts ==
  ASSUME NEW path \in Text, NEW cut \in Nat
  PROVE  \/ SplitAt(path, cut) = 0
         \/ SplitAt(path, cut) \in 1..Len(path) /\ path[SplitAt(path, cut)] = "/"
<1> DEFINE T == {i \in DOMAIN path : path[i] = "/" /\ i < cut} \cup {0}
<1>1. Len(path) \in Nat /\ DOMAIN path = 1..Len(path)
  BY LenProperties DEF Text
<1>2. T \subseteq 0..Len(path) /\ T # {}
  BY <1>1
<1>3. Max(T) \in T
  <2> HIDE DEF T
  <2> QED BY <1>1, <1>2, GreatestElement
<1> QED BY <1>1, <1>3 DEF SplitAt

\* sub is what is left of the URL path behind one of its slashes.
RestOf(path, sub) ==
  \/ sub = <<>>
  \/ \E c \in 1..Len(Strip(path)) :
       path[c] = "/" /\ sub = SubSeq(Strip(path), c + 1, Len(Strip(path)))

LEMMA PostSlashIsRest ==
  ASSUME NEW path \in Text, NEW cut \in 1..Len(Strip(path)), Strip(path)[cut] = "/"
  PROVE  /\ RestOf(path, PostSlash(Strip(path), cut))
         /\ PostSlash(Strip(path), cut) \in Text /\ PreSlash(Strip(path), cut) \in Text
<1> DEFINE t == Strip(path)
<1>1. t \in Text /\ Len(t) \in Nat /\ \A i \in 1..Len(t) : t[i] \in Char /\ t[i] = path[i]
  BY StripFacts, ElementOfSeq DEF Text
<1> HIDE DEF t
<1>2. \A i \in (cut + 1)..Len(t) : t[i] \in Char
  BY <1>1 DEF t
<1>3. \A i \in 1..(cut - 1) : t[i] \in Char
  BY <1>1 DEF t
<1>4. cut + 1 \in Int /\ cut - 1 \in Int /\ Len(t) \in Int
  BY <1>1 DEF t
<1>5. PostSlash(t, cut) \in Text
  BY <1>2, <1>4, SubSeqProperties DEF PostSlash, Text
<1>6. <<"/">> \in Text
  <2>1. "/" \in Char
    BY StaticPathsAssumption DEF Coded
  <2> QED BY <2>1 DEF Text
<1>7. SubSeq(t, 1, cut - 1) \in Text
  BY <1>3, <1>4, SubSeqProperties DEF Text
<1>8. PreSlash(t, cut) \in Text
  BY <1>6, <1>7 DEF PreSlash
<1>9. RestOf(path, PostSlash(t, cut))
  BY <1>1 DEF RestOf, PostSlash, t
<1> QED BY <1>5, <1>8, <1>9 DEF t

LEMMA UpIsText ==
  ASSUME NEW s \in Text, NEW p \in 1..(Len(s) - 2)
  PROVE  /\ SubSeq(s, p, p + 2) = Up <=> s[p] = "/" /\ s[p + 1] = "." /\ s[p + 2] = "."
         /\ p + 3 <= Len(s) /\ SubSeq(s, p, p + 2) = Up /\ s[p + 3] = "/"
              => SubSeq(s, p, p + 3) = Up \o <<"/">>
<1>1. Len(s) \in Nat /\ \A i \in 1..Len(s) : s[i] \in Char
  BY LenProperties, ElementOfSeq DEF Text
<1>2. "/" \in Char /\ "." \in Char
  BY StaticPathsAssumption DEF Coded
<1>3. /\ Up \in Text /\ Len(Up) = 3 /\ Up[1] = "/" /\ Up[2] = "." /\ Up[3] = "."
  BY <1>2 DEF Up, Text
<1> DEFINE t == SubSeq(s, p, p + 2)
           u == SubSeq(s, p, p + 3)
           v == Up \o <<"/">>
<1>4. t \in Text /\ Len(t) = 3 /\ t[1] = s[p] /\ t[2] = s[p + 1] /\ t[3] = s[p + 2]
  <2>1. \A i \in p..(p + 2) : s[i] \in Char
    BY <1>1
  <2>2. p + 2 \in Int /\ p <= p + 2 /\ p + 2 - p + 1 = 3
    BY <1>1
  <2>3. t \in Text /\ Len(t) = 3 /\ \A i \in 1..3 : t[i] = s[p + i - 1]
    BY <2>1, <2>2, SubSeqProperties DEF Text
  <2> HIDE DEF t
  <2>4. t[1] = s[p + 1 - 1] /\ t[2] = s[p + 2 - 1] /\ t[3] = s[p + 3 - 1]
    BY <2>3
  <2>5. p + 1 - 1 = p /\ p + 2 - 1 = p + 1 /\ p + 3 - 1 = p + 2
    BY <1>1
  <2> QED BY <2>3, <2>4, <2>5
<1>5. t = Up <=> s[p] = "/" /\ s[p + 1] = "." /\ s[p + 2] = "."
  <2> HIDE DEF t
  <2>1. ASSUME t[1] = Up[1], t[2] = Up[2], t[3] = Up[3] PROVE t = Up
    <3>1. \A i \in 1..Len(t) : t[i] = Up[i]
      BY <1>4, <2>1
    <3> QED BY <1>3, <1>4, <3>1, SeqEqual DEF Text
  <2> QED BY <1>3, <1>4, <2>1
<1>6. ASSUME p + 3 <= Len(s), t = Up, s[p + 3] = "/" PROVE u = v
  <2>1. \A i \in p..(p + 3) : s[i] \in Char
    BY <1>1, <1>6
  <2>2. p + 3 \in Int /\ p <= p + 3 /\ p + 3 - p + 1 = 4
    BY <1>1
  <2>3. u \in Text /\ Len(u) = 4 /\ \A i \in 1..4 : u[i] = s[p + i - 1]
    BY <2>1, <2>2, SubSeqProperties DEF Text
  <2>4. <<"/">> \in Text /\ Len(<<"/">>) = 1 /\ <<"/">>[1] = "/"
    BY <1>2 DEF Text
  <2>5. v \in Text /\ Len(v) = 4 /\ v[1] = "/" /\ v[2] = "." /\ v[3] = "." /\ v[4] = "/"
    <3> DEFINE w == <<"/">>
    <3> HIDE DEF w
    <3>1. w \in Text /\ Len(w) = 1 /\ w[1] = "/" /\ v = Up \o w
      BY <2>4 DEF w
    <3> HIDE DEF v
    <3>2. /\ v \in Text /\ Len(v) = Len(Up) + Len(w)
          /\ \A i \in 1..(Len(Up) + Len(w)) :
               v[i] = IF i <= Len(Up) THEN Up[i] ELSE w[i - Len(Up)]
      <4> HIDE DEF Up
      <4> QED BY <1>3, <3>1, ConcatProperties DEF Text
    <3> QED BY <1>3, <3>1, <3>2
  <2>6. u[1] = "/" /\ u[2] = "." /\ u[3] = "." /\ u[4] = "/"
    BY <1>1, <1>5, <1>6, <2>3
  <2> HIDE DEF u, v
  <2>7. \A i \in 1..Len(u) : u[i] = v[i]
    BY <2>3, <2>5, <2>6
  <2> QED BY <2>3, <2>5, <2>7, SeqEqual DEF Text
<1> QED BY <1>5, <1>6

\* What LocalPath puts together: the directory, the rest of the URL, and maybe
\* the name of an index file.
LEMMA LocalPathFacts ==
  ASSUME NEW sp \in StaticPath, NEW sub \in Text
  PROVE  LET file == LocalPath(sp, sub)
             m == IF sub = <<>> THEN 1 ELSE Len(sub) + 2
         IN /\ file \in Text /\ Len(file) \in {m, m + 2} /\ file[1] = sp.path
            /\ Len(sub) \in Nat
            /\ sub # <<>> => file[2] = "/" /\ \A k \in 1..Len(sub) : file[k + 2] = sub[k]
            /\ Len(file) = m + 2 => file[m + 1] = "/" /\ file[m + 2] = "index.html"
<1> DEFINE m == IF sub = <<>> THEN 1 ELSE Len(sub) + 2
           dir == <<sp.path, "/">>
           base == IF sub = <<>> THEN <<sp.path>> ELSE dir \o sub
           index == <<"/", "index.html">>
<1>1. sp.path \in Char /\ "/" \in Char /\ "index.html" \in Char /\ Len(sub) \in Nat
  BY StaticPathsAssumption, LenProperties DEF Coded, StaticPath, Text
<1>2. /\ dir \in Text /\ Len(dir) = 2 /\ dir[1] = sp.path /\ dir[2] = "/"
      /\ index \in Text /\ Len(index) = 2 /\ index[1] = "/" /\ index[2] = "index.html"
  BY <1>1 DEF Text
<1>3. /\ base \in Text /\ Len(base) = m /\ m \in Nat \ {0} /\ base[1] = sp.path
      /\ sub # <<>> => base[2] = "/" /\ \A k \in 1..Len(sub) : base[k + 2] = sub[k]
  <2>1. CASE sub = <<>>
    BY <1>1, <2>1 DEF Text
  <2>2. CASE sub # <<>>
    <3> HIDE DEF dir
    <3>1. /\ dir \o sub \in Text /\ Len(dir \o sub) = Len(dir) + Len(sub)
          /\ \A i \in 1..(Len(dir) + Len(sub)) :
               (dir \o sub)[i] = IF i <= Len(dir) THEN dir[i] ELSE sub[i - Len(dir)]
      BY <1>2, ConcatProperties DEF Text
    <3>2. Len(sub) + 2 = Len(dir) + Len(sub) /\ base = dir \o sub
      BY <1>1, <1>2, <2>2
    <3> HIDE DEF base
    <3>3. base[1] = sp.path /\ base[2] = "/" /\ base \in Text /\ Len(base) = Len(sub) + 2
      BY <1>1, <1>2, <3>1, <3>2
    <3>4. ASSUME NEW k \in 1..Len(sub) PROVE base[k + 2] = sub[k]
      <4>1. k + 2 \in 1..(Len(dir) + Len(sub)) /\ ~(k + 2 <= Len(dir)) /\ (k + 2) - Len(dir) = k
        BY <1>1, <1>2
      <4> QED BY <3>1, <3>2, <4>1
    <3> QED BY <1>1, <2>2, <3>3, <3>4
  <2> QED BY <2>1, <2>2
<1> DEFINE file == LocalPath(sp, sub)
<1>4. file = base \/ file = base \o index
  BY DEF LocalPath
<1> HIDE DEF file, base, index, m
<1>5. CASE file = base
  <2>1. Len(file) # m + 2
    BY <1>3, <1>5
  <2> QED BY <1>1, <1>3, <1>5, <2>1 DEF file, m
<1>6. CASE file = base \o index
  <2>1. /\ file \in Text /\ Len(file) = Len(base) + Len(index)
        /\ \A i \in 1..(Len(base) + Len(index)) :
             file[i] = IF i <= Len(base) THEN base[i] ELSE index[i - Len(base)]
    BY <1>2, <1>3, <1>6, ConcatProperties, ZenonT(60) DEF Text
  <2>2. Len(file) = m + 2 /\ \A i \in 1..m : file[i] = base[i]
    BY <1>2, <1>3, <2>1
  <2>3. file[m + 1] = "/" /\ file[m + 2] = "index.html"
    BY <1>2, <1>3, <2>1
  <2>4. sub # <<>> => file[2] = "/" /\ \A k \in 1..Len(sub) : file[k + 2] = sub[k]
    BY <1>1, <1>3, <2>2 DEF m
  <2>5. file[1] = sp.path
    BY <1>3, <2>2
  <2> QED BY <1>1, <2>1, <2>2, <2>3, <2>4, <2>5 DEF file, m
<1> QED BY <1>4, <1>5, <1>6

\* The first rule that applies decides: a file is sent only if it is one and
\* the URL does not go upwards.
LEMMA ResponseFacts ==
  ASSUME NEW r \in Request, NEW path \in Text, NEW sp \in StaticPath, NEW sub \in Text
  PROVE  LET answer == StaticFileResponse(r, path, sp, sub).answer
         IN /\ answer \in Answer
            /\ answer.file # <<>> =>
                 /\ answer.file = LocalPath(sp, sub)
                 /\ Kind(LocalPath(sp, sub)) = "file"
                 /\ ~Upwards(path)
<1> DEFINE local == LocalPath(sp, sub)
           kind == Kind(local)
           isDirectory == Kind(LocalPath([sp EXCEPT !.options["indexhtml"] = {FALSE}], sub)) = "dir"
           head == {"headers"} \cup IF IsHtml(local) THEN {"html_charset"} ELSE {}
           w1 == On(sp, "exclude")
           w2 == On(sp, "validation") /\ ~r.valid
           w3 == r.method \notin {"GET", "HEAD"}
           w4 == r.body
           w5 == Upwards(path)
           w6 == kind \in {"none", "dir"}
           w7 == kind = "error"
           w8 == CacheIsValid(r)
           rules == << Rule(w1, {"exclude"}, ToR, {}),
                       Rule(w2, {"validation"}, ErrorResponse(403), {}),
                       Rule(w3, {}, ErrorResponse(400), {}),
                       Rule(w4, {}, ErrorResponse(400), {}),
                       Rule(w5, {}, FallOr(sp, 400), {"fallthrough"}),
                       Rule(w6, IF isDirectory THEN {"indexhtml"} ELSE {},
                            FallOr(sp, 404), {"fallthrough"}),
                       Rule(w7, {}, ErrorResponse(500), {}),
                       Rule(w8, {}, FileResponse(304, FALSE, local), head),
                       Rule(TRUE, {}, FileResponse(200, r.method # "HEAD", local), head) >>
           first(i) == rules[i].when /\ \A j \in 1..(i - 1) : ~rules[j].when
           chosen == CHOOSE i \in DOMAIN rules : first(i)
<1>1. StaticFileResponse(r, path, sp, sub).answer = rules[chosen].do
  <2>1. StaticFileResponse(r, path, sp, sub) =
          [answer |-> rules[chosen].do,
           reads |-> UNION {rules[j].tests : j \in 1..chosen} \cup rules[chosen].uses]
    BY DEF StaticFileResponse
  <2> HIDE DEF chosen, rules
  <2> QED BY <2>1
<1>2. local \in Text /\ <<>> \in Text
  BY LocalPathFacts, EmptySeq DEF Text
<1>3. kind \in {"none", "file", "dir", "error"}
  BY StaticPathsAssumption DEF Kind
<1>4. ToR \in Answer /\ ToR.file = <<>>
  BY <1>2 DEF ToR, Answer, Text
<1>5. \A code \in {400, 403, 404, 500} :
        /\ ErrorResponse(code) \in Answer /\ ErrorResponse(code).file = <<>>
        /\ FallOr(sp, code) \in Answer /\ FallOr(sp, code).file = <<>>
  BY <1>2, <1>4 DEF ErrorResponse, FallOr, Answer, Text
<1>6. /\ FileResponse(304, FALSE, local) \in Answer /\ FileResponse(304, FALSE, local).file = local
      /\ FileResponse(200, r.method # "HEAD", local) \in Answer
      /\ FileResponse(200, r.method # "HEAD", local).file = local
  BY <1>2 DEF FileResponse, Answer, Text
<1>7. DOMAIN rules = 1..9 /\ rules[9].when
  BY DEF Rule
<1>13. (rules[5].when <=> w5) /\ (rules[6].when <=> w6) /\ (rules[7].when <=> w7)
  BY DEF Rule
<1>8. /\ rules[1].do = ToR /\ rules[2].do = ErrorResponse(403) /\ rules[3].do = ErrorResponse(400)
      /\ rules[4].do = ErrorResponse(400) /\ rules[5].do = FallOr(sp, 400)
      /\ rules[6].do = FallOr(sp, 404) /\ rules[7].do = ErrorResponse(500)
      /\ rules[8].do = FileResponse(304, FALSE, local)
      /\ rules[9].do = FileResponse(200, r.method # "HEAD", local)
  BY DEF Rule
<1> HIDE DEF rules
<1>9. chosen \in 1..9 /\ first(chosen)
  <2> DEFINE T == {i \in 1..9 : rules[i].when}
  <2>1. T \subseteq Nat /\ 9 \in T
    BY <1>7
  <2>2. PICK i \in T : \A j \in T : i <= j
    <3> HIDE DEF T
    <3> QED BY <2>1, LeastElement
  <2>3. i \in 1..9 /\ first(i)
    BY <2>2
  <2> QED BY <1>7, <2>3
<1> HIDE DEF chosen
<1>10. chosen > 7 => ~w5 /\ ~w6 /\ ~w7
  <2> HIDE DEF w5, w6, w7
  <2>1. SUFFICES ASSUME chosen > 7 PROVE ~w5 /\ ~w6 /\ ~w7
    OBVIOUS
  <2>2. 5 \in 1..(chosen - 1) /\ 6 \in 1..(chosen - 1) /\ 7 \in 1..(chosen - 1)
    BY <1>9, <2>1
  <2>3. ~rules[5].when /\ ~rules[6].when /\ ~rules[7].when
    BY <1>9, <2>2
  <2> QED BY <1>13, <2>3
<1>11. chosen > 7 => kind = "file"
  BY <1>3, <1>10
<1>12. /\ rules[chosen].do \in Answer
       /\ rules[chosen].do.file = IF chosen > 7 THEN local ELSE <<>>
  <2> HIDE DEF first, local
  <2>1. CASE chosen \in 1..7
    <3>1. \/ rules[chosen].do = ToR
          \/ \E code \in {400, 403, 404, 500} :
               rules[chosen].do = ErrorResponse(code) \/ rules[chosen].do = FallOr(sp, code)
      BY <1>8, <2>1
    <3>2. rules[chosen].do \in Answer /\ rules[chosen].do.file = <<>>
      BY <1>4, <1>5, <3>1
    <3> QED BY <2>1, <3>2
  <2>2. CASE chosen \in 8..9
    <3>1. rules[chosen].do \in Answer /\ rules[chosen].do.file = local
      <4>1. CASE chosen = 8
        BY <1>6, <1>8, <4>1, ZenonT(60)
      <4>2. CASE chosen = 9
        BY <1>6, <1>8, <4>2
      <4> QED BY <2>2, <4>1, <4>2
    <3> QED BY <2>2, <3>1
  <2> QED BY <1>9, <2>1, <2>2
<1> QED BY <1>1, <1>10, <1>11, <1>12

\* No component of the file's name is "..".
Climbs(file) ==
  \E i, j \in DOMAIN file :
    /\ j = i + 2 /\ SubSeq(file, i, j) = Up
    /\ j + 1 \in DOMAIN file => file[j + 1] = "/"

LEMMA NoWayUp ==
  ASSUME NEW path \in Text, NEW sp \in StaticPath, NEW sub \in Text,
         RestOf(path, sub), ~Upwards(path)
  PROVE  ~Climbs(LocalPath(sp, sub))
<1> DEFINE file == LocalPath(sp, sub)
           m == IF sub = <<>> THEN 1 ELSE Len(sub) + 2
           n == Len(sub)
<1>1. /\ file \in Text /\ Len(file) \in {m, m + 2} /\ n \in Nat
      /\ sub # <<>> => file[2] = "/" /\ \A k \in 1..n : file[k + 2] = sub[k]
      /\ Len(file) = m + 2 => file[m + 1] = "/" /\ file[m + 2] = "index.html"
  BY LocalPathFacts
<1>2. DOMAIN file = 1..Len(file) /\ Len(file) \in Nat
  BY <1>1, LenProperties DEF Text
<1> HIDE DEF file
<1>3. SUFFICES ASSUME NEW i \in 1..Len(file), i + 2 \in 1..Len(file),
                      SubSeq(file, i, i + 2) = Up,
                      i + 3 \in 1..Len(file) => file[i + 3] = "/"
               PROVE  FALSE
  <2>1. SUFFICES ASSUME Climbs(file) PROVE FALSE
    BY DEF file
  <2>2. PICK i \in DOMAIN file, j \in DOMAIN file :
          /\ j = i + 2 /\ SubSeq(file, i, j) = Up
          /\ j + 1 \in DOMAIN file => file[j + 1] = "/"
    BY <2>1 DEF Climbs
  <2>3. j + 1 = i + 3
    BY <1>2, <2>2
  <2> QED BY <1>2, <1>3, <2>2, <2>3
<1>4. file[i] = "/" /\ file[i + 1] = "." /\ file[i + 2] = "."
  <2>1. i \in 1..(Len(file) - 2)
    BY <1>2, <1>3
  <2> QED BY <1>1, <1>3, <2>1, UpIsText
<1>5. sub # <<>> /\ m = n + 2 /\ i + 2 <= m /\ i >= 2
  <2>1. CASE sub = <<>>
    <3>1. Len(file) = 1 \/ (Len(file) = 3 /\ file[2] = "/" /\ file[3] = "index.html")
      BY <1>1, <2>1
    <3>2. i = 1 /\ Len(file) = 3
      BY <1>3, <3>1
    <3> QED BY <1>4, <3>1, <3>2
  <2>2. CASE sub # <<>>
    <3>1. i # 1
      BY <1>1, <1>4, <2>2
    <3>2. m = n + 2
      BY <2>2
    <3>3. Len(file) = m + 2 => i + 2 # m + 1 /\ i + 2 # m + 2
      BY <1>1, <1>4, <3>2
    <3> HIDE DEF m
    <3> QED BY <1>1, <1>3, <2>2, <3>1, <3>2, <3>3
  <2> QED BY <2>1, <2>2
<1>6. sub[i - 1] = "." /\ sub[i] = "." /\ (i > 2 => sub[i - 2] = "/")
  <2>1. \A k \in 1..n : file[k + 2] = sub[k]
    BY <1>1, <1>5
  <2>2. i - 1 \in 1..n /\ i \in 1..n /\ (i > 2 => i - 2 \in 1..n)
    BY <1>1, <1>3, <1>5
  <2>3. file[(i - 1) + 2] = sub[i - 1] /\ file[i + 2] = sub[i]
        /\ (i > 2 => file[(i - 2) + 2] = sub[i - 2])
    BY <2>1, <2>2
  <2>4. (i - 1) + 2 = i + 1 /\ (i - 2) + 2 = i
    BY <1>3
  <2> QED BY <1>4, <2>3, <2>4
<1>7. i < n => sub[i + 1] = "/"
  <2>1. SUFFICES ASSUME i < n PROVE sub[i + 1] = "/"
    OBVIOUS
  <2>2. i + 1 \in 1..n /\ i + 3 \in 1..Len(file) /\ (i + 1) + 2 = i + 3
    <3> HIDE DEF m
    <3>1. Len(file) >= n + 2
      BY <1>1, <1>5
    <3> QED BY <1>1, <1>2, <1>3, <2>1, <3>1
  <2>3. \A k \in 1..n : file[k + 2] = sub[k]
    BY <1>1, <1>5
  <2>4. file[(i + 1) + 2] = sub[i + 1]
    BY <2>2, <2>3
  <2> QED BY <1>3, <2>2, <2>4
<1>8. PICK c \in 1..Len(Strip(path)) :
        path[c] = "/" /\ sub = SubSeq(Strip(path), c + 1, Len(Strip(path)))
  BY <1>5 DEF RestOf
<1> DEFINE t == Strip(path)
<1>9. /\ t \in Text /\ Len(path) \in Nat /\ Len(t) \in Nat
      /\ \A k \in 1..Len(t) : t[k] = path[k] /\ t[k] \in Char
      /\ Len(t) = Len(path) \/ (Len(t) = Len(path) - 1 /\ path[Len(path)] = "/")
  BY StripFacts, ElementOfSeq DEF Text
<1> HIDE DEF t
<1>10. Len(t) = c + n /\ \A k \in 1..n : sub[k] = path[c + k]
  <2>1. c \in 1..Len(t) /\ sub = SubSeq(t, c + 1, Len(t))
    BY <1>8 DEF t
  <2>2. \A k \in (c + 1)..Len(t) : t[k] \in Char
    BY <1>9, <2>1
  <2>3. c + 1 \in Int /\ Len(t) \in Int
    BY <1>9, <2>1
  <2>4. /\ n = IF c + 1 <= Len(t) THEN Len(t) - (c + 1) + 1 ELSE 0
        /\ \A k \in 1..(Len(t) - (c + 1) + 1) : sub[k] = t[c + 1 + k - 1]
    BY <2>1, <2>2, <2>3, SubSeqProperties
  <2>5. Len(t) = c + n /\ n = Len(t) - (c + 1) + 1
    BY <1>9, <2>1, <2>4
  <2>6. ASSUME NEW k \in 1..n PROVE sub[k] = path[c + k]
    <3>1. c + 1 + k - 1 = c + k /\ c + k \in 1..Len(t)
      BY <1>9, <2>1, <2>5
    <3> QED BY <1>9, <2>4, <2>5, <3>1
  <2> QED BY <2>5, <2>6
<1> DEFINE p == c + i - 2
<1>11. /\ p \in 1..Len(path) /\ p + 2 = c + i /\ c + i <= Len(t)
       /\ path[p] = "/" /\ path[p + 1] = "." /\ path[p + 2] = "."
  <2>1. c \in Nat \ {0} /\ i \in Nat /\ i <= n
    BY <1>1, <1>3, <1>5, <1>8, <1>9 DEF t
  <2>2. i - 1 \in 1..n /\ i \in 1..n /\ (i > 2 => i - 2 \in 1..n)
    BY <1>1, <1>5, <2>1
  <2>3. p + 1 = c + (i - 1) /\ p + 2 = c + i /\ p = c + (i - 2)
    BY <2>1
  <2>4. path[c + (i - 1)] = "." /\ path[c + i] = "." /\ (i > 2 => path[c + (i - 2)] = "/")
    BY <1>6, <1>10, <2>2
  <2>5. i = 2 => p = c
    BY <2>1
  <2>6. path[p] = "/"
    BY <1>5, <1>8, <2>1, <2>3, <2>4, <2>5
  <2> QED BY <1>5, <1>9, <1>10, <2>1, <2>3, <2>4, <2>6
<1>12. p + 3 <= Len(path) => path[p + 3] = "/"
  <2>1. SUFFICES ASSUME p + 3 <= Len(path) PROVE path[p + 3] = "/"
    OBVIOUS
  <2>2. p + 3 = c + (i + 1) /\ c \in Nat
    BY <1>3, <1>8, <1>9, <1>11 DEF t
  <2>3. CASE i < n
    <3>1. i + 1 \in 1..n
      BY <1>1, <1>3, <2>3
    <3> QED BY <1>7, <1>10, <2>2, <2>3, <3>1
  <2>4. CASE ~(i < n)
    <3>1. i = n /\ Len(path) = Len(t) + 1 /\ p + 3 = Len(path)
      BY <1>1, <1>3, <1>5, <1>9, <1>10, <2>1, <2>2, <2>4
    <3> QED BY <1>9, <3>1
  <2> QED BY <2>3, <2>4
<1>13. p \in 1..(Len(path) - 2)
  BY <1>9, <1>11
<1> HIDE DEF p
<1>14. SubSeq(path, p, p + 2) = Up
  BY <1>11, <1>13, UpIsText
<1>15. CASE p + 3 <= Len(path)
  <2>1. SubSeq(path, p, p + 3) = Up \o <<"/">>
    BY <1>12, <1>13, <1>14, <1>15, UpIsText
  <2>2. p \in 1..(Len(path) - 3)
    BY <1>9, <1>11, <1>15
  <2> QED BY <2>1, <2>2 DEF Upwards
<1>16. CASE ~(p + 3 <= Len(path))
  <2>1. Len(path) >= 3 /\ p = Len(path) - 2 /\ p + 2 = Len(path)
    BY <1>9, <1>13, <1>16
  <2>2. EndsUp(path)
    BY <1>14, <2>1 DEF EndsUp
  <2> QED BY <2>2 DEF Upwards
<1> QED BY <1>15, <1>16

-------------------------------------------------------------------------------
(* The inductive invariant. *)

\* The values that option f may have in the merged options.
Allowed(f) == IF bg.own[f] # {} THEN {bg.own[f]} ELSE recent[f]

\* recent has what the manager's options may have been read as since the
\* request; an option that the app gave a value is never read as none.
History ==
  /\ bg.st \in {"get", "merge", "decide"} => \A f \in Field : MayRead(f) \subseteq recent[f]
  /\ \A f \in Field : InitOptions[f] # {} => {} \notin recent[f]

\* The options before bg.cut are merged, the others are still the path's own,
\* and the entry stays in path_map, as the mutex is held.
Merging ==
  bg.st = "merge" =>
    /\ bg.found /\ bg.cut \in 1..Len(Fields)
    /\ bg.key \in DOMAIN pathMap
    /\ pathMap[bg.key].path = bg.sp.path /\ pathMap[bg.key].options = bg.own
    /\ \A j \in 1..Len(Fields) :
         IF j < bg.cut THEN bg.sp.options[Fields[j]] \in Allowed(Fields[j])
                       ELSE bg.sp.options[Fields[j]] = bg.own[Fields[j]]

Merged == bg.st = "decide" /\ bg.found => \A f \in Field : bg.sp.options[f] \in Allowed(f)

\* What matchStaticPath leaves of the URL path; a call that is under way has
\* no answer yet.
Searching ==
  /\ RestOf(bg.path, bg.sub)
  /\ bg.st # "idle" => bg.answer.file = <<>>

Missing == bg.st = "get" => ~bg.found

\* An option that is half assigned is one that was given.
Written ==
  main.op = "options" /\ main.writing =>
    Fields[main.i] \in DOMAIN main.left /\ main.left[Fields[main.i]] # {}

IInv == TypeOK /\ History /\ Written /\ Missing /\ Merging /\ Merged /\ Searching /\ ServedFileIsBelowPath

LEMMA FieldFacts ==
  /\ Len(Fields) = 6
  /\ \A j \in 1..6 : Fields[j] \in Field
  /\ \A f \in Field : \E j \in 1..6 : Fields[j] = f
  /\ \A i, j \in 1..6 : Fields[i] = Fields[j] => i = j
<1>1. /\ Fields[1] = "indexhtml" /\ Fields[2] = "fallthrough" /\ Fields[3] = "html_charset"
      /\ Fields[4] = "headers" /\ Fields[5] = "validation" /\ Fields[6] = "exclude"
      /\ Len(Fields) = 6 /\ DOMAIN Fields = 1..6
  BY DEF Fields
<1>2. \A j \in 1..6 : Fields[j] \in Field
  BY <1>1 DEF Field, Range
<1>3. \A f \in Field : \E j \in 1..6 : Fields[j] = f
  BY <1>1 DEF Field, Range
<1>4. ASSUME NEW i \in 1..6, NEW j \in 1..6, Fields[i] = Fields[j] PROVE i = j
  BY <1>1, <1>4
<1> QED BY <1>1, <1>2, <1>3, <1>4

\* What is read of an option is an option.
LEMMA MayReadType ==
  ASSUME TypeOK, NEW f \in Field
  PROVE  /\ MayRead(f) \subseteq Option /\ options[f] \in MayRead(f)
         /\ InitOptions[f] # {} => {} \notin MayRead(f)
<1>1. options[f] \in Option /\ (InitOptions[f] # {} => options[f] # {})
  BY DEF TypeOK, Options
<1> QED BY <1>1 DEF MayRead, Option

\* The invariant gives the two properties about options.
LEMMA InheritedFromInvariant ==
  ASSUME IInv PROVE OptionsInherited
<1>1. ASSUME bg.st = "decide", bg.found, NEW f \in Field
      PROVE  /\ bg.sp.options[f] \in IF bg.own[f] # {} THEN {bg.own[f]} ELSE recent[f]
             /\ InitOptions[f] # {} => bg.sp.options[f] # {}
  <2>1. bg.sp.options[f] \in IF bg.own[f] # {} THEN {bg.own[f]} ELSE recent[f]
    BY <1>1 DEF IInv, Merged, Allowed
  <2>2. InitOptions[f] # {} => {} \notin recent[f]
    BY DEF IInv, History
  <2> QED BY <2>1, <2>2
<1>2. bg.st = "merge" => /\ bg.key \in DOMAIN pathMap
                         /\ pathMap[bg.key].path = bg.sp.path
                         /\ pathMap[bg.key].options = bg.own
  BY DEF IInv, Merging
<1> QED BY <1>1, <1>2 DEF OptionsInherited

LEMMA SetFromInvariant ==
  ASSUME IInv, Complete(InitOptions) PROVE EveryOptionSet
<1>1. ASSUME bg.st = "decide", bg.found, NEW f \in Field
      PROVE  \E b \in BOOLEAN : bg.sp.options[f] = {b}
  <2>1. bg.sp.options[f] \in Option
    BY DEF IInv, TypeOK, Matching, StaticPath, Options
  <2>2. bg.sp.options[f] # {}
    BY <1>1, InheritedFromInvariant DEF OptionsInherited, Complete
  <2> QED BY <2>1, <2>2 DEF Option
<1> QED BY <1>1 DEF EveryOptionSet, Complete

\* splitQueryString
LEMMA SplitQueryIsText ==
  ASSUME NEW url \in Text
  PROVE  splitQueryString(url) \in Text
<1> DEFINE marks == {i \in DOMAIN url : url[i] = "?"}
           k == CHOOSE i \in marks : \A j \in marks : i <= j
<1>1. Len(url) \in Nat /\ DOMAIN url = 1..Len(url) /\ \A i \in 1..Len(url) : url[i] \in Char
  BY LenProperties, ElementOfSeq DEF Text
<1>2. CASE marks = {}
  BY <1>2 DEF splitQueryString
<1>3. CASE marks # {}
  <2>1. splitQueryString(url) = SubSeq(url, 1, k - 1)
    BY <1>3 DEF splitQueryString
  <2>2. \E i \in marks : \A j \in marks : i <= j
    <3>1. marks \subseteq Nat
      BY <1>1
    <3> HIDE DEF marks
    <3> QED BY <1>3, <3>1, LeastElement
  <2>3. k \in 1..Len(url)
    BY <1>1, <2>2
  <2> HIDE DEF k
  <2>4. k - 1 \in Int /\ \A i \in 1..(k - 1) : url[i] \in Char
    BY <1>1, <2>3
  <2> QED BY <2>1, <2>4, SubSeqProperties DEF Text
<1> QED BY <1>2, <1>3

LEMMA NormalizedKeeps ==
  ASSUME NEW p, PathList(p)
  PROVE  PathList(Normalized(p))
<1>1. ASSUME NEW k \in {NormalizeName(n) : n \in DOMAIN p} PROVE Normalized(p)[k] \in StaticPath
  <2>1. \E n \in DOMAIN p : NormalizeName(n) = k
    BY <1>1
  <2> DEFINE n == CHOOSE n \in DOMAIN p : NormalizeName(n) = k
  <2>2. n \in DOMAIN p
    BY <2>1
  <2>3. Normalized(p)[k] = p[n]
    BY <1>1 DEF Normalized
  <2> HIDE DEF n
  <2> QED BY <2>2, <2>3 DEF PathList
<1>2. DOMAIN Normalized(p) = {NormalizeName(n) : n \in DOMAIN p}
  BY DEF Normalized
<1> QED BY <1>1, <1>2 DEF PathList

\* What is left of a call of staticFileResponse.
LEMMA ReturnedFacts ==
  ASSUME NEW dir \in Char, NEW answer \in Answer
  PROVE  LET b == Returned(dir, answer)
         IN /\ b \in Matching /\ b.st = "idle" /\ b.answer = answer /\ b.sub = <<>>
            /\ b.found = FALSE /\ b.sp.path = dir
<1>1. "/" \in Char /\ "" \in Char
  BY StaticPathsAssumption DEF Coded
<1>2. <<"/">> \in Text /\ <<>> \in Text /\ Len(<<"/">>) + 1 \in Nat
  <2>1. "/" \in Char
    BY <1>1
  <2> QED BY <2>1, EmptySeq DEF Text
<1>3. NoPath.options \in Options /\ [NoPath EXCEPT !.path = dir] \in StaticPath
  BY <1>1 DEF NoPath, StaticPath, Options, Option
<1>4. NoRequest \in Request
  BY <1>2 DEF NoRequest, Request, Text
<1> DEFINE sp == [NoPath EXCEPT !.path = dir]
           l == Locals("idle", NoRequest, <<"/">>, <<"/">>)
<1>5. /\ l \in [st : {"idle"}, r : {NoRequest}, path : {<<"/">>}, cut : {Len(<<"/">>) + 1},
               key : {<<"/">>}, sub : {<<>>}, found : {FALSE}, own : {NoPath.options},
               sp : {NoPath}, answer : {ToR}]
  BY DEF Locals
<1>6. Returned(dir, answer) = [l EXCEPT !.sp = sp, !.answer = answer]
  BY <1>5 DEF Returned
<1>7. sp.path = dir
  BY DEF NoPath
<1> HIDE DEF sp, l
<1>8. Returned(dir, answer) \in
        [st : {"idle"}, r : {NoRequest}, path : {<<"/">>}, cut : {Len(<<"/">>) + 1},
         key : {<<"/">>}, sub : {<<>>}, found : {FALSE}, own : {NoPath.options},
         sp : {sp}, answer : {answer}]
  BY <1>5, <1>6
<1>9. sp \in StaticPath
  BY <1>3 DEF sp
<1> DEFINE b == Returned(dir, answer)
<1> HIDE DEF b
<1>10. /\ b.st = "idle" /\ b.answer = answer /\ b.sub = <<>> /\ b.found = FALSE /\ b.sp = sp
  BY <1>8 DEF b
<1>11. b \in Matching
  BY <1>2, <1>3, <1>4, <1>8, <1>9 DEF b, Matching, Text
<1> QED BY <1>7, <1>10, <1>11 DEF b

LEMMA InitEstablishes == Init => IInv
<1> SUFFICES ASSUME Init PROVE IInv
  OBVIOUS
<1>1. PICK p \in InitPaths : pathMap = Normalized(p)
  BY DEF Init
<1>2. PathList(pathMap)
  BY <1>1, NormalizedKeeps, StaticPathsAssumption
<1>3. "/" \in Char /\ "" \in Char
  BY StaticPathsAssumption DEF Coded
<1>16. <<"/">> \in Text
  <2>1. "/" \in Char
    BY <1>3
  <2> QED BY <2>1 DEF Text
<1>4. <<"/">> \in Text /\ <<>> \in Text
  BY <1>16, EmptySeq DEF Text
<1>7. ToR \in Answer /\ ToR.file = <<>>
  BY <1>4 DEF ToR, Answer, Text
<1>8. bg = Returned("", ToR)
  BY DEF Init
<1>10. bg \in Matching /\ bg.st = "idle" /\ bg.answer = ToR /\ bg.sub = <<>>
  BY <1>3, <1>7, <1>8, ReturnedFacts
<1>15. MaxCalls \in Nat /\ InitOptions \in Options
  BY StaticPathsAssumption
<1>12. options \in Options /\ options = InitOptions /\ main = [op |-> "idle"] /\ main.op = "idle"
       /\ calls \in 0..MaxCalls /\ recent = [f \in Field |-> {}]
  <2>1. 0 \in 0..MaxCalls
    BY <1>15
  <2> QED BY <1>15, <2>1 DEF Init
<1>13. TypeOK
  BY <1>2, <1>10, <1>12 DEF TypeOK
<1>14. History /\ Written
  BY <1>10, <1>12 DEF History, Written
<1> QED BY <1>7, <1>10, <1>13, <1>14
        DEF IInv, Missing, Merging, Merged, Searching, RestOf, ServedFileIsBelowPath

-------------------------------------------------------------------------------
(* The steps of the background thread. *)

LEMMA AskKeeps ==
  ASSUME IInv, NEW r \in Requests, Ask(r)
  PROVE  IInv'
<1> DEFINE path == doDecodeURI(splitQueryString(r.url), TRUE)
           none == r.upgrade \/ path = <<>> \/ "\\" \in Range(path)
<1>1. r \in Request /\ r.url \in Text
  BY StaticPathsAssumption DEF Request, Text
<1>2. path \in Text /\ Strip(path) \in Text /\ Len(Strip(path)) + 1 \in Nat
  <2>1. splitQueryString(r.url) \in Text
    BY <1>1, SplitQueryIsText
  <2>2. path \in Text
    BY <2>1, DecodeIsText
  <2> HIDE DEF path
  <2>3. Strip(path) \in Text /\ Len(Strip(path)) \in Nat
    BY <2>2, StripFacts
  <2> QED BY <2>2, <2>3
<1>3. /\ bg.st = "idle"
      /\ pathMap' = pathMap /\ options' = options /\ main' = main /\ calls' = calls
      /\ \/ bg' = Returned("", ToR) /\ recent' = recent
         \/ /\ bg' = Locals("get", r, path, Strip(path))
            /\ recent' = [f \in Field |-> MayRead(f)]
  BY DEF Ask
<1> HIDE DEF path, none
<1>5. ToR \in Answer /\ ToR.file = <<>> /\ <<>> \in Text
  BY EmptySeq DEF ToR, Answer, Text
<1>6. NoPath \in StaticPath /\ NoPath.options \in Options
  <2>1. "" \in Char
    BY StaticPathsAssumption
  <2> QED BY <2>1 DEF NoPath, StaticPath, Options, Option
<1>7. CASE bg' = Returned("", ToR) /\ recent' = recent
  <2>1. "" \in Char
    BY StaticPathsAssumption
  <2>2. bg' \in Matching /\ bg'.st = "idle" /\ bg'.answer = ToR /\ bg'.sub = <<>>
    BY <1>5, <1>7, <2>1, ReturnedFacts
  <2>3. TypeOK'
    BY <1>3, <1>7, <2>2 DEF IInv, TypeOK, PathList
  <2>4. History' /\ Written'
    BY <1>3, <1>7, <2>2 DEF IInv, History, Written
  <2> QED BY <1>5, <2>2, <2>3, <2>4
          DEF IInv, Missing, Merging, Merged, Searching, RestOf, ServedFileIsBelowPath
<1>8. CASE bg' = Locals("get", r, path, Strip(path)) /\ recent' = [f \in Field |-> MayRead(f)]
  <2>1. bg' \in Matching
    BY <1>1, <1>2, <1>5, <1>6, <1>8 DEF Locals, Matching, Text
  <2>2. bg'.st = "get" /\ bg'.answer = ToR /\ bg'.sub = <<>> /\ bg'.found = FALSE
    BY <1>8 DEF Locals
  <2>3. ASSUME NEW f \in Field
        PROVE  /\ MayRead(f) \subseteq Option /\ (InitOptions[f] # {} => {} \notin MayRead(f))
               /\ MayRead(f)' = MayRead(f)
    <3>1. MayRead(f)' = MayRead(f)
      BY <1>3 DEF MayRead, Writing
    <3> QED BY <3>1, MayReadType DEF IInv
  <2>4. TypeOK'
    <3>1. recent' \in [Field -> SUBSET Option]
      BY <1>8, <2>3
    <3> QED BY <1>3, <2>1, <3>1 DEF IInv, TypeOK, PathList
  <2>5. History'
    <3>1. \A f \in Field : recent'[f] = MayRead(f)
      BY <1>8
    <3> QED BY <2>3, <3>1 DEF History
  <2>6. Written'
    BY <1>3 DEF IInv, Written
  <2> QED BY <1>5, <2>2, <2>4, <2>5, <2>6
          DEF IInv, Missing, Merging, Merged, Searching, RestOf, ServedFileIsBelowPath
<1> QED BY <1>3, <1>7, <1>8

\* What is the same for every step of the background thread behind Ask.
LEMMA BackgroundKeeps ==
  ASSUME IInv, bg.st \in {"get", "merge", "decide"},
         UNCHANGED <<pathMap, options, main, calls, stable, recent>>, bg' \in Matching
  PROVE  TypeOK' /\ History' /\ Written'
<1>1. TypeOK'
  BY DEF IInv, TypeOK, PathList
<1>2. \A f \in Field : MayRead(f)' = MayRead(f)
  BY DEF MayRead, Writing
<1>3. History' /\ Written'
  BY <1>2 DEF IInv, History, Written
<1> QED BY <1>1, <1>3

LEMMA GetMissesKeeps ==
  ASSUME IInv, GetMisses
  PROVE  IInv'
<1> DEFINE path == Strip(bg.path)
           cut == SplitAt(path, bg.cut)
<1>1. bg \in Matching /\ bg.st = "get" /\ UNCHANGED <<pathMap, options, main, calls, stable, recent>>
  BY DEF IInv, TypeOK, GetMisses
<1>2. bg.path \in Text /\ bg.cut \in Nat /\ path \in Text
  BY <1>1, StripFacts DEF Matching, Text
<1>3. bg.answer.file = <<>> /\ RestOf(bg.path, bg.sub)
  BY <1>1 DEF IInv, Searching
<1>4. CASE cut = 0
  <2>1. bg' = [bg EXCEPT !.st = "decide"]
    BY <1>4 DEF GetMisses
  <2>2. bg' \in Matching /\ bg'.st = "decide" /\ bg'.answer = bg.answer
        /\ bg'.path = bg.path /\ bg'.sub = bg.sub /\ bg'.found = bg.found
        /\ bg'.sp = bg.sp /\ bg'.own = bg.own
    BY <1>1, <2>1 DEF Matching
  <2>3. ~bg.found
    BY <1>1 DEF IInv, Missing
  <2>4. TypeOK' /\ History' /\ Written'
    BY <1>1, <2>2, BackgroundKeeps
  <2>5. Missing' /\ Merging' /\ Merged'
    BY <2>2, <2>3 DEF Missing, Merging, Merged
  <2>6. Searching' /\ ServedFileIsBelowPath'
    BY <1>3, <2>2 DEF Searching, ServedFileIsBelowPath
  <2> QED BY <2>4, <2>5, <2>6 DEF IInv
<1>5. CASE cut # 0
  <2>1. bg' = [bg EXCEPT !.cut = cut, !.key = PreSlash(path, cut), !.sub = PostSlash(path, cut)]
    BY <1>5 DEF GetMisses
  <2>2. cut \in 1..Len(path) /\ path[cut] = "/"
    BY <1>2, <1>5, SplitFacts
  <2>3. /\ RestOf(bg.path, PostSlash(path, cut))
        /\ PostSlash(path, cut) \in Text /\ PreSlash(path, cut) \in Text
    BY <1>2, <2>2, PostSlashIsRest
  <2>4. cut \in Nat
    BY <2>2
  <2> HIDE DEF cut, path
  <2>5. bg' \in Matching
    BY <1>1, <2>1, <2>3, <2>4 DEF Matching, Text
  <2>6. bg'.st = "get" /\ bg'.answer = bg.answer /\ bg'.path = bg.path /\ bg'.found = bg.found
        /\ bg'.sub = PostSlash(path, cut)
    BY <1>1, <2>1 DEF Matching
  <2> QED BY <1>1, <1>3, <2>3, <2>5, <2>6, BackgroundKeeps
          DEF IInv, Merging, Merged, Searching, Missing, ServedFileIsBelowPath
<1> QED BY <1>4, <1>5

LEMMA GetHitsKeeps ==
  ASSUME IInv, GetHits
  PROVE  IInv'
<1> DEFINE entry == pathMap[bg.key]
<1>1. /\ bg \in Matching /\ bg.st = "get" /\ bg.key \in DOMAIN pathMap
      /\ UNCHANGED <<pathMap, options, main, calls, stable, recent>>
      /\ bg' = [bg EXCEPT !.st = "merge", !.sp = entry, !.own = entry.options,
                          !.found = TRUE, !.cut = 1]
  BY DEF IInv, TypeOK, GetHits
<1>2. entry \in StaticPath /\ entry.options \in Options
  BY <1>1 DEF IInv, TypeOK, PathList, StaticPath
<1> HIDE DEF entry
<1>3. bg' \in Matching
  BY <1>1, <1>2 DEF Matching
<1>4. /\ bg'.st = "merge" /\ bg'.answer = bg.answer /\ bg'.path = bg.path /\ bg'.found = TRUE
      /\ bg'.sub = bg.sub /\ bg'.sp = entry /\ bg'.own = entry.options /\ bg'.cut = 1
      /\ bg'.key = bg.key
  BY <1>1 DEF Matching
<1>5. Merging'
  <2>1. pathMap'[bg'.key] = entry
    BY <1>1, <1>4 DEF entry
  <2>2. Len(Fields) = 6
    BY FieldFacts
  <2> QED BY <1>1, <1>4, <2>1, <2>2 DEF Merging
<1>6. bg.answer.file = <<>> /\ RestOf(bg.path, bg.sub)
  BY <1>1 DEF IInv, Searching
<1> QED BY <1>1, <1>3, <1>4, <1>5, <1>6, BackgroundKeeps
        DEF IInv, Merged, Searching, Missing, ServedFileIsBelowPath

\* Options that stand for those without a value are options.
LEMMA ReadingsType ==
  ASSUME NEW o \in Options, NEW q \in Readings(o)
  PROVE  q \in Options
BY DEF Readings, Options, Option

LEMMA DecideKeeps ==
  ASSUME IInv, Decide
  PROVE  IInv'
<1>1. /\ bg \in Matching /\ bg.st = "decide" /\ UNCHANGED <<pathMap, options, main, calls>>
      /\ recent' = [f \in Field |-> {}]
  BY DEF IInv, TypeOK, Decide
<1>2. /\ bg.r \in Request /\ bg.path \in Text /\ bg.sp \in StaticPath /\ bg.sub \in Text
      /\ bg.sp.path \in Char /\ bg.sp.options \in Options
  BY <1>1 DEF Matching, StaticPath, Text
<1>3. ASSUME bg' \in Matching, bg'.st \in {"idle", "crashed"}, RestOf(bg'.path, bg'.sub),
             bg'.st = "crashed" => bg'.answer.file = <<>>, ServedFileIsBelowPath'
      PROVE  IInv'
  <2>1. TypeOK'
    BY <1>1, <1>3 DEF IInv, TypeOK, PathList
  <2>2. History' /\ Written'
    BY <1>1, <1>3 DEF IInv, History, Written
  <2> QED BY <1>3, <2>1, <2>2 DEF IInv, Missing, Merging, Merged, Searching
<1>4. ASSUME NEW dir \in Char, NEW a \in Answer, bg' = Returned(dir, a),
             a.file # <<>> => Kind(a.file) = "file" /\ Head(a.file) = dir /\ ~Climbs(a.file)
      PROVE  IInv'
  <2>1. bg' \in Matching /\ bg'.st = "idle" /\ bg'.sub = <<>> /\ bg'.answer = a /\ bg'.sp.path = dir
    BY <1>4, ReturnedFacts
  <2>2. ServedFileIsBelowPath'
    BY <1>4, <2>1 DEF ServedFileIsBelowPath, Climbs
  <2> QED BY <1>3, <2>1, <2>2 DEF RestOf
<1>5. CASE bg' = Returned("", ToR)
  <2>1. ToR \in Answer /\ ToR.file = <<>> /\ "" \in Char
    BY EmptySeq, StaticPathsAssumption DEF ToR, Answer
  <2> QED BY <1>4, <1>5, <2>1
<1>6. CASE bg' = [bg EXCEPT !.st = "crashed"]
  <2>1. bg' \in Matching /\ bg'.st = "crashed" /\ bg'.answer = bg.answer
        /\ bg'.path = bg.path /\ bg'.sub = bg.sub
    BY <1>1, <1>6 DEF Matching
  <2>2. bg.answer.file = <<>> /\ RestOf(bg.path, bg.sub)
    BY <1>1 DEF IInv, Searching
  <2> QED BY <1>3, <2>1, <2>2 DEF ServedFileIsBelowPath
<1>7. ASSUME NEW o \in Readings(bg.sp.options),
             bg' = Returned(bg.sp.path,
                     StaticFileResponse(bg.r, bg.path, [bg.sp EXCEPT !.options = o], bg.sub).answer)
      PROVE  IInv'
  <2> DEFINE sp == [bg.sp EXCEPT !.options = o]
             a == StaticFileResponse(bg.r, bg.path, sp, bg.sub).answer
             file == LocalPath(sp, bg.sub)
  <2>1. sp \in StaticPath /\ sp.path = bg.sp.path
    BY <1>2, ReadingsType DEF StaticPath
  <2> HIDE DEF sp
  <2>2. /\ a \in Answer
        /\ a.file # <<>> => a.file = file /\ Kind(file) = "file" /\ ~Upwards(bg.path)
    BY <1>2, <2>1, ResponseFacts
  <2>3. bg' = Returned(bg.sp.path, a)
    BY <1>7 DEF sp
  <2> HIDE DEF a
  <2>4. ASSUME a.file # <<>> PROVE Head(a.file) = bg.sp.path /\ ~Climbs(a.file)
    <3>1. file \in Text /\ file[1] = sp.path
      BY <1>2, <2>1, LocalPathFacts
    <3>2. RestOf(bg.path, bg.sub)
      BY DEF IInv, Searching
    <3>3. ~Climbs(file)
      BY <1>2, <2>1, <2>2, <2>4, <3>2, NoWayUp
    <3> HIDE DEF file
    <3>4. Head(file) = bg.sp.path
      BY <2>1, <2>2, <2>4, <3>1, TailRange DEF Text
    <3> QED BY <2>2, <2>4, <3>3, <3>4
  <2> QED BY <1>2, <1>4, <2>2, <2>3, <2>4
<1> QED BY <1>5, <1>6, <1>7 DEF Decide

LEMMA MergeOneKeeps ==
  ASSUME IInv, MergeOne
  PROVE  IInv'
<1> DEFINE f == Fields[bg.cut]
           own == bg.sp.options[f]
           next == IF bg.cut = Len(Fields) THEN "decide" ELSE "merge"
<1>0. /\ bg \in Matching /\ bg.st = "merge"
      /\ UNCHANGED <<pathMap, options, main, calls, stable, recent>>
      /\ bg.answer.file = <<>> /\ RestOf(bg.path, bg.sub)
  BY DEF IInv, TypeOK, MergeOne, Searching
<1>1. bg.cut \in 1..6 /\ f \in Field /\ Len(Fields) = 6
  BY <1>0, FieldFacts DEF IInv, Merging
<1>2. CASE bg' = [bg EXCEPT !.st = "crashed"]
  <2>1. bg' \in Matching /\ bg'.st = "crashed" /\ bg'.answer = bg.answer
        /\ bg'.path = bg.path /\ bg'.sub = bg.sub
    BY <1>0, <1>2 DEF Matching
  <2>2. TypeOK' /\ History' /\ Written'
    BY <1>0, <2>1, BackgroundKeeps
  <2> QED BY <1>0, <2>1, <2>2 DEF IInv, Missing, Merging, Merged, Searching, ServedFileIsBelowPath
<1>3. ASSUME NEW v \in IF own # {} THEN {own} ELSE MayRead(f),
             bg' = [bg EXCEPT !.sp.options[f] = v, !.cut = @ + 1, !.st = next]
      PROVE  IInv'
  <2>1. bg.sp \in StaticPath /\ bg.sp.options \in Options /\ own \in Option /\ bg.own \in Options
    BY <1>0, <1>1 DEF Matching, StaticPath, Options
  <2>2. own = bg.own[f]
    BY <1>0, <1>1 DEF IInv, Merging
  <2>3. MayRead(f) \subseteq Option /\ MayRead(f) \subseteq recent[f]
    BY <1>0, <1>1, MayReadType DEF IInv, History
  <2>5. v \in Option /\ v \in Allowed(f)
    <3> HIDE DEF f, own
    <3> QED BY <1>3, <2>1, <2>2, <2>3 DEF Allowed
  <2> DEFINE merged == [bg.sp.options EXCEPT ![f] = v]
             sp == [bg.sp EXCEPT !.options = merged]
  <2>6. /\ merged \in Options /\ merged[f] = v
        /\ \A g \in Field : g # f => merged[g] = bg.sp.options[g]
    BY <1>1, <2>1, <2>5 DEF Options
  <2>7. bg' = [bg EXCEPT !.sp = sp, !.cut = bg.cut + 1, !.st = next]
    BY <1>0, <1>3, <2>1 DEF Matching, StaticPath
  <2> HIDE DEF merged
  <2>8. sp \in StaticPath /\ sp.options = merged /\ sp.path = bg.sp.path
    BY <2>1, <2>6 DEF StaticPath
  <2>9. next \in {"merge", "decide"} /\ (next = "merge" <=> bg.cut # 6)
    BY <1>1
  <2> HIDE DEF sp, next, f
  <2>10. bg' \in Matching
    <3>1. bg.cut + 1 \in Nat /\ next \in {"idle", "get", "merge", "decide", "crashed"}
      BY <1>1, <2>9
    <3>2. bg \in Matching /\ sp \in StaticPath
      BY <1>0, <2>8
    <3> DEFINE cut == bg.cut + 1
    <3> HIDE DEF cut
    <3>3. bg' = [bg EXCEPT !.sp = sp, !.cut = cut, !.st = next] /\ cut \in Nat
      BY <2>7, <3>1 DEF cut
    <3> QED BY <3>1, <3>2, <3>3 DEF Matching
  <2>11. /\ bg'.st = next /\ bg'.sp = sp /\ bg'.cut = bg.cut + 1 /\ bg'.own = bg.own
         /\ bg'.key = bg.key /\ bg'.found = bg.found
         /\ bg'.answer = bg.answer /\ bg'.path = bg.path /\ bg'.sub = bg.sub
    BY <1>0, <2>7 DEF Matching
  <2>12. TypeOK' /\ History' /\ Written'
    BY <1>0, <2>10, BackgroundKeeps
  <2>13. \A g \in Field : Allowed(g)' = Allowed(g)
    BY <1>0, <2>11 DEF Allowed
  <2>14. ASSUME NEW j \in 1..6
         PROVE  IF j < bg.cut + 1 THEN merged[Fields[j]] \in Allowed(Fields[j])
                                  ELSE merged[Fields[j]] = bg.own[Fields[j]]
    <3>1. Fields[j] \in Field /\ (Fields[j] = f <=> j = bg.cut)
      BY <1>1, FieldFacts DEF f
    <3>2. IF j < bg.cut THEN bg.sp.options[Fields[j]] \in Allowed(Fields[j])
                        ELSE bg.sp.options[Fields[j]] = bg.own[Fields[j]]
      BY <1>0, <1>1 DEF IInv, Merging
    <3>3. CASE j = bg.cut
      BY <1>1, <2>5, <2>6, <3>1, <3>3
    <3>4. CASE j < bg.cut
      BY <1>1, <2>6, <3>1, <3>2, <3>4
    <3>5. CASE j > bg.cut
      BY <1>1, <2>6, <3>1, <3>2, <3>5
    <3> QED BY <1>1, <3>3, <3>4, <3>5
  <2>15. Merging'
    <3>1. /\ bg.found /\ bg.key \in DOMAIN pathMap
          /\ pathMap[bg.key].path = bg.sp.path /\ pathMap[bg.key].options = bg.own
      BY <1>0 DEF IInv, Merging
    <3>2. next = "merge" => bg.cut + 1 \in 1..6
      BY <1>1, <2>9
    <3>3. \A j \in 1..6 : IF j < bg'.cut THEN bg'.sp.options[Fields[j]] \in Allowed(Fields[j])'
                                         ELSE bg'.sp.options[Fields[j]] = bg'.own[Fields[j]]
      <4>1. ASSUME NEW j \in 1..6 PROVE Allowed(Fields[j])' = Allowed(Fields[j])
        BY <2>13, FieldFacts
      <4> QED BY <2>8, <2>11, <2>14, <4>1
    <3> QED BY <1>0, <1>1, <2>8, <2>11, <3>1, <3>2, <3>3 DEF Merging
  <2>16. Merged'
    <3>1. SUFFICES ASSUME next = "decide", NEW g \in Field
                   PROVE  merged[g] \in Allowed(g)
      BY <2>8, <2>11, <2>13 DEF Merged
    <3>2. PICK j \in 1..6 : Fields[j] = g
      BY FieldFacts
    <3>3. j < bg.cut + 1
      BY <1>1, <2>9, <3>1
    <3> QED BY <2>14, <3>2, <3>3
  <2>17. Searching' /\ ServedFileIsBelowPath' /\ Missing'
    BY <1>0, <2>9, <2>11 DEF Searching, ServedFileIsBelowPath, Missing
  <2> QED BY <2>12, <2>15, <2>16, <2>17 DEF IInv
<1> QED BY <1>2, <1>3, ZenonT(60) DEF MergeOne

-------------------------------------------------------------------------------
(* The steps of the main thread: they leave bg alone. *)

\* The parts of the invariant that are about bg only, or about bg and what the
\* mutex protects.
LEMMA MainKeeps ==
  ASSUME IInv, bg' = bg, TypeOK', History', Written',
         \A f \in Field : recent[f] \subseteq recent'[f],
         bg.st = "merge" => pathMap' = pathMap
  PROVE  IInv'
<1>1. ASSUME NEW f \in Field, NEW v, v \in Allowed(f) PROVE v \in Allowed(f)'
  BY <1>1 DEF Allowed
<1>2. Missing' /\ Searching' /\ ServedFileIsBelowPath'
  BY DEF IInv, Missing, Searching, ServedFileIsBelowPath
<1>3. Merged'
  BY <1>1 DEF IInv, Merged
<1>4. Merging'
  <2>1. SUFFICES ASSUME bg.st = "merge" PROVE Merging'
    BY DEF Merging
  <2>2. ASSUME NEW j \in 1..Len(Fields)
        PROVE  IF j < bg'.cut THEN bg'.sp.options[Fields[j]] \in Allowed(Fields[j])'
                              ELSE bg'.sp.options[Fields[j]] = bg'.own[Fields[j]]
    <3>1. Fields[j] \in Field
      BY FieldFacts
    <3>2. IF j < bg.cut THEN bg.sp.options[Fields[j]] \in Allowed(Fields[j])
                        ELSE bg.sp.options[Fields[j]] = bg.own[Fields[j]]
      BY <2>1 DEF IInv, Merging
    <3> QED BY <1>1, <3>1, <3>2
  <2>3. /\ bg.found /\ bg.cut \in 1..Len(Fields) /\ bg.key \in DOMAIN pathMap
        /\ pathMap[bg.key].path = bg.sp.path /\ pathMap[bg.key].options = bg.own
    BY <2>1 DEF IInv, Merging
  <2> QED BY <2>1, <2>2, <2>3 DEF Merging
<1> QED BY <1>2, <1>3, <1>4 DEF IInv

\* While no option is half assigned, each reads as the value it has.
LEMMA HistoryKept ==
  ASSUME IInv, UNCHANGED <<options, bg, recent>>, ~(main'.op = "options" /\ main'.writing)
  PROVE  History'
<1>1. ASSUME NEW f \in Field PROVE MayRead(f)' \subseteq MayRead(f)
  BY DEF MayRead, Writing
<1> QED BY <1>1 DEF IInv, History

\* setStaticPath, removeStaticPath and setStaticPathOption begin.
LEMMA CallsKeep ==
  ASSUME IInv, SetStaticPath \/ RemoveStaticPath \/ SetStaticPathOption
  PROVE  IInv'
<1>1. /\ calls < MaxCalls /\ calls' = calls + 1
      /\ UNCHANGED <<pathMap, options, bg, stable, recent>>
  BY DEF SetStaticPath, RemoveStaticPath, SetStaticPathOption, Calls
<1>2. calls' \in 0..MaxCalls
  <2>1. calls \in 0..MaxCalls /\ MaxCalls \in Nat
    BY StaticPathsAssumption DEF IInv, TypeOK
  <2> QED BY <1>1, <2>1
<1>3. \/ main' = [op |-> "set", left |-> main'.left] /\ PathList(main'.left)
      \/ main' \in [op : {"remove"}, left : Seq(Seq(Char))]
      \/ main' \in [op : {"options"}, left : OptionSets, i : 1..(Len(Fields) + 1), writing : BOOLEAN]
         /\ ~main'.writing
  <2>1. CASE SetStaticPath
    <3>1. PICK p \in PathSets : main' = [op |-> "set", left |-> Normalized(p)]
      BY <2>1 DEF SetStaticPath, Calls
    <3>2. PathList(Normalized(p))
      BY NormalizedKeeps, StaticPathsAssumption
    <3> QED BY <3>1, <3>2
  <2>2. CASE RemoveStaticPath
    <3>1. PICK l \in RemoveLists : main' = [op |-> "remove", left |-> l]
      BY <2>2 DEF RemoveStaticPath, Calls
    <3>2. l \in Seq(Seq(Char))
      BY StaticPathsAssumption
    <3> QED BY <3>1, <3>2
  <2>3. CASE SetStaticPathOption
    <3>1. PICK o \in OptionSets :
            main' = [op |-> "options", left |-> o, i |-> 1, writing |-> FALSE]
      BY <2>3 DEF SetStaticPathOption, Calls
    <3>2. 1 \in 1..(Len(Fields) + 1)
      BY FieldFacts
    <3> QED BY <3>1, <3>2
  <2> QED BY <2>1, <2>2, <2>3
<1>4. TypeOK'
  BY <1>1, <1>2, <1>3 DEF IInv, TypeOK, PathList
<1>5. History' /\ Written'
  <2>1. ~(main'.op = "options" /\ main'.writing)
    BY <1>3
  <2> QED BY <1>1, <2>1, HistoryKept DEF IInv, Written
<1> QED BY <1>1, <1>4, <1>5, MainKeeps

\* The call of R that is under way.
LEMMA MainType ==
  ASSUME TypeOK
  PROVE  /\ main.op = "set" => main = [op |-> "set", left |-> main.left] /\ PathList(main.left)
         /\ main.op = "remove" => main \in [op : {"remove"}, left : Seq(Seq(Char))]
         /\ main.op = "options" =>
              main \in [op : {"options"}, left : OptionSets, i : 1..7, writing : BOOLEAN]
<1>1. Len(Fields) + 1 = 7
  BY FieldFacts
<1>2. \/ main = [op |-> "idle"]
      \/ main = [op |-> "set", left |-> main.left] /\ PathList(main.left)
      \/ main \in [op : {"remove"}, left : Seq(Seq(Char))]
      \/ main \in [op : {"options"}, left : OptionSets, i : 1..7, writing : BOOLEAN]
  BY <1>1 DEF TypeOK
<1> QED BY <1>2

LEMMA SetOneKeeps ==
  ASSUME IInv, SetOne
  PROVE  IInv'
<1>1. main.op = "set" /\ bg.st # "merge" /\ UNCHANGED <<options, bg, calls, recent>>
  BY DEF SetOne, Locked
<1>2. PICK k \in DOMAIN main.left :
        /\ pathMap' = [x \in DOMAIN pathMap \cup {k} |->
                         IF x = k THEN main.left[k] ELSE pathMap[x]]
        /\ main' = [main EXCEPT !.left = Restrict(@, DOMAIN @ \ {k})]
  BY DEF SetOne
<1>3. main = [op |-> "set", left |-> main.left] /\ PathList(main.left)
  BY <1>1, MainType DEF IInv
<1>4. PathList(pathMap')
  BY <1>2, <1>3 DEF IInv, TypeOK, PathList
<1> DEFINE rest == Restrict(main.left, DOMAIN main.left \ {k})
<1>5. PathList(rest)
  BY <1>3 DEF PathList, Restrict
<1> HIDE DEF rest
<1>6. main' = [main EXCEPT !.left = rest]
  BY <1>2 DEF rest
<1>7. main' = [op |-> "set", left |-> rest]
  BY <1>3, <1>6
<1>8. main'.left = rest /\ main'.op = "set"
  BY <1>7
<1>9. TypeOK'
  BY <1>1, <1>4, <1>5, <1>7, <1>8 DEF IInv, TypeOK
<1>10. History' /\ Written'
  <2>1. ~(main'.op = "options" /\ main'.writing)
    BY <1>8
  <2> QED BY <1>1, <2>1, HistoryKept DEF IInv, Written
<1> QED BY <1>1, <1>9, <1>10, MainKeeps

LEMMA RemoveOneKeeps ==
  ASSUME IInv, RemoveOne
  PROVE  IInv'
<1>1. /\ main.op = "remove" /\ main.left # <<>> /\ bg.st # "merge"
      /\ UNCHANGED <<options, bg, calls, recent>>
      /\ pathMap' = Restrict(pathMap, DOMAIN pathMap \ {Head(main.left)})
      /\ main' = [main EXCEPT !.left = Tail(@)]
  BY DEF RemoveOne, Locked
<1>2. PathList(pathMap')
  BY <1>1 DEF IInv, TypeOK, PathList, Restrict
<1>3. main \in [op : {"remove"}, left : Seq(Seq(Char))]
  BY <1>1, MainType DEF IInv
<1>4. Tail(main.left) \in Seq(Seq(Char))
  BY <1>1, <1>3, TailRange
<1>5. main' \in [op : {"remove"}, left : Seq(Seq(Char))]
  BY <1>1, <1>3, <1>4
<1>6. TypeOK'
  BY <1>1, <1>2, <1>5 DEF IInv, TypeOK
<1>7. History' /\ Written'
  <2>1. ~(main'.op = "options" /\ main'.writing)
    BY <1>5
  <2> QED BY <1>1, <2>1, HistoryKept DEF IInv, Written
<1> QED BY <1>1, <1>6, <1>7, MainKeeps

\* An option is stored with a value, at once or in two steps.
LEMMA SetOptionKeeps ==
  ASSUME IInv, SetOption
  PROVE  IInv'
<1> DEFINE f == Fields[main.i]
           given == f \in DOMAIN main.left /\ main.left[f] # {}
<1>1. /\ main.op = "options" /\ main.i <= Len(Fields)
      /\ UNCHANGED <<pathMap, bg, calls, stable>>
  BY DEF SetOption
<1>2. main \in [op : {"options"}, left : OptionSets, i : 1..7, writing : BOOLEAN]
  BY <1>1, MainType DEF IInv
<1>3. Len(Fields) = 6 /\ main.i \in 1..6 /\ f \in Field /\ main.i + 1 \in 1..7
  BY <1>1, <1>2, FieldFacts
<1>4. /\ options \in Options /\ recent \in [Field -> SUBSET Option]
      /\ \A g \in Field : InitOptions[g] # {} => options[g] # {}
  BY DEF IInv, TypeOK
<1>9. ASSUME NEW values \in SUBSET (Option \ {{}}), Remembers(f, values)
      PROVE  /\ recent' \in [Field -> SUBSET Option]
             /\ \A g \in Field : recent[g] \subseteq recent'[g]
             /\ \A g \in Field : InitOptions[g] # {} => {} \notin recent'[g]
             /\ bg.st # "idle" => values \subseteq recent'[f]
  <2> HIDE DEF f
  <2>1. \A g \in Field : InitOptions[g] # {} => {} \notin recent[g]
    BY DEF IInv, History
  <2>2. CASE bg.st = "idle"
    BY <1>4, <1>9, <2>1, <2>2 DEF Remembers
  <2>3. CASE bg.st # "idle"
    <3>1. recent' = [recent EXCEPT ![f] = recent[f] \cup values]
      BY <1>9, <2>3 DEF Remembers
    <3>2. /\ recent' \in [Field -> SUBSET Option] /\ recent'[f] = recent[f] \cup values
          /\ \A g \in Field \ {f} : recent'[g] = recent[g]
      BY <1>3, <1>4, <3>1
    <3> QED BY <2>1, <3>2
  <2> QED BY <2>2, <2>3
<1>5. CASE /\ ~given /\ main' = [main EXCEPT !.i = @ + 1] /\ UNCHANGED <<options, recent>>
  <2>1. /\ main' \in [op : {"options"}, left : OptionSets, i : 1..7, writing : BOOLEAN]
        /\ main'.i = main.i + 1 /\ main'.writing = main.writing
    BY <1>2, <1>3, <1>5
  <2>2. ~main.writing
    BY <1>1, <1>5 DEF IInv, Written
  <2>3. TypeOK'
    BY <1>1, <1>3, <1>5, <2>1 DEF IInv, TypeOK, PathList
  <2>4. History'
    BY <1>1, <1>5, <2>1, <2>2, HistoryKept
  <2>5. Written'
    BY <2>1, <2>2 DEF Written
  <2> QED BY <1>1, <1>5, <2>3, <2>4, <2>5, MainKeeps
<1>6. CASE /\ given /\ main' = [main EXCEPT !.writing = TRUE]
           /\ Remembers(f, {{FALSE}, {TRUE}}) /\ UNCHANGED options
  <2>1. /\ main' \in [op : {"options"}, left : OptionSets, i : 1..7, writing : BOOLEAN]
        /\ main'.i = main.i /\ main'.left = main.left
    BY <1>2, <1>3, <1>6
  <2>2. {{FALSE}, {TRUE}} \in SUBSET (Option \ {{}})
    BY DEF Option
  <2>3. recent' \in [Field -> SUBSET Option]
    BY <1>6, <1>9, <2>2
  <2>7. \A g \in Field : recent[g] \subseteq recent'[g]
    BY <1>6, <1>9, <2>2
  <2>8. \A g \in Field : InitOptions[g] # {} => {} \notin recent'[g]
    BY <1>6, <1>9, <2>2
  <2>9. bg.st # "idle" => {{FALSE}, {TRUE}} \subseteq recent'[f]
    BY <1>6, <1>9, <2>2
  <2>4. TypeOK'
    BY <1>1, <1>3, <1>6, <2>1, <2>3 DEF IInv, TypeOK, PathList
  <2>5. History'
    <3>1. ASSUME NEW g \in Field, bg.st \in {"get", "merge", "decide"}
          PROVE  MayRead(g)' \subseteq recent'[g]
      <4>1. MayRead(g) \subseteq recent[g] /\ options[g] \in MayRead(g)
        BY <3>1, MayReadType DEF IInv, History
      <4>2. options'[g] \in recent'[g]
        BY <1>6, <2>7, <4>1
      <4>3. Writing(g)' => g = f
        BY <2>1 DEF Writing
      <4>4. CASE Writing(g)'
        <5>1. MayRead(g)' = {options'[g]} \cup {{FALSE}, {TRUE}}
          BY <4>4 DEF MayRead
        <5>2. {{FALSE}, {TRUE}} \subseteq recent'[g]
          BY <2>9, <3>1, <4>3, <4>4
        <5> QED BY <4>2, <5>1, <5>2
      <4>5. CASE ~Writing(g)'
        <5>1. MayRead(g)' = {options'[g]}
          BY <4>5 DEF MayRead
        <5> QED BY <4>2, <5>1
      <4> QED BY <4>4, <4>5
    <3>2. bg' = bg
      BY <1>1
    <3> QED BY <2>8, <3>1, <3>2 DEF History
  <2>6. Written'
    BY <1>6, <2>1 DEF Written
  <2> QED BY <1>1, <2>4, <2>5, <2>6, <2>7, MainKeeps
<1>7. CASE /\ given /\ main' = [main EXCEPT !.i = @ + 1, !.writing = FALSE]
           /\ options' = [options EXCEPT ![f] = main.left[f]]
           /\ Remembers(f, {main.left[f]})
  <2>1. /\ main' \in [op : {"options"}, left : OptionSets, i : 1..7, writing : BOOLEAN]
        /\ ~main'.writing
    BY <1>2, <1>3, <1>7
  <2> DEFINE v == main.left[f]
  <2>2. v \in Option /\ v # {}
    BY <1>2, <1>7, StaticPathsAssumption
  <2>13. {v} \in SUBSET (Option \ {{}}) /\ Remembers(f, {v})
    BY <1>7, <2>2
  <2>3. recent' \in [Field -> SUBSET Option]
    BY <1>9, <2>13
  <2>7. \A g \in Field : recent[g] \subseteq recent'[g]
    BY <1>9, <2>13
  <2>10. \A g \in Field : InitOptions[g] # {} => {} \notin recent'[g]
    BY <1>9, <2>13
  <2>14. bg.st # "idle" => v \in recent'[f]
    BY <1>9, <2>13
  <2>4. options' = [options EXCEPT ![f] = v]
    BY <1>7
  <2> HIDE DEF v, f
  <2>5. /\ options' \in Options /\ options'[f] = v
        /\ \A g \in Field \ {f} : options'[g] = options[g]
    BY <1>3, <1>4, <2>2, <2>4 DEF Options
  <2>6. \A g \in Field : InitOptions[g] # {} => options'[g] # {}
    BY <1>4, <2>2, <2>5
  <2>8. TypeOK'
    BY <1>1, <1>3, <2>1, <2>3, <2>5, <2>6 DEF IInv, TypeOK, PathList
  <2>9. ASSUME NEW g \in Field, bg.st \in {"get", "merge", "decide"}
        PROVE  MayRead(g)' \subseteq recent'[g]
    <3>1. MayRead(g)' = {options'[g]}
      BY <2>1 DEF MayRead, Writing
    <3>2. options[g] \in recent[g]
      BY <2>9, MayReadType DEF IInv, History
    <3>3. options'[g] \in recent'[g]
      BY <2>5, <2>7, <2>9, <2>14, <3>2
    <3> QED BY <3>1, <3>3
  <2>11. History'
    <3>1. bg' = bg
      BY <1>1
    <3> QED BY <2>9, <2>10, <3>1 DEF History
  <2>12. Written'
    BY <2>1 DEF Written
  <2> QED BY <1>1, <2>7, <2>8, <2>11, <2>12, MainKeeps
<1> QED BY <1>5, <1>6, <1>7 DEF SetOption

LEMMA CallReturnsKeeps ==
  ASSUME IInv, CallReturns
  PROVE  IInv'
<1>1. main' = [op |-> "idle"] /\ UNCHANGED <<pathMap, options, bg, calls, stable, recent>>
  BY DEF CallReturns
<1>2. main'.op = "idle"
  BY <1>1
<1>3. TypeOK' /\ Written'
  BY <1>1, <1>2 DEF IInv, TypeOK, PathList, Written
<1>4. History'
  BY <1>1, <1>2, HistoryKept
<1> QED BY <1>1, <1>3, <1>4, MainKeeps

-------------------------------------------------------------------------------
LEMMA NextKeeps == IInv /\ [Next]_vars => IInv'
<1> SUFFICES ASSUME IInv, [Next]_vars PROVE IInv'
  OBVIOUS
<1>1. CASE UNCHANGED vars
  BY <1>1 DEF vars, IInv, TypeOK, PathList, History, MayRead, Writing, Written, Missing, Merging, Merged, Allowed,
              Searching, ServedFileIsBelowPath
<1>2. CASE \E r \in Requests : Ask(r)
  BY <1>2, AskKeeps
<1>3. CASE Search \/ Decide
  BY <1>3, GetMissesKeeps, GetHitsKeeps, MergeOneKeeps, DecideKeeps DEF Search
<1>4. CASE SetStaticPath \/ RemoveStaticPath \/ SetStaticPathOption
  BY <1>4, CallsKeep
<1>5. CASE Main
  BY <1>5, SetOneKeeps, RemoveOneKeeps, SetOptionKeeps, CallReturnsKeeps DEF Main
<1> QED BY <1>1, <1>2, <1>3, <1>4, <1>5 DEF Next

LEMMA Invariant == Spec => []IInv
BY InitEstablishes, NextKeeps, PTL DEF Spec

\* Every variable of the manager and of staticFileResponse keeps its type, and
\* an option of the manager that the app gave a value keeps one, for any options
\* of the app, NULL ones too, and any arguments R may pass.
THEOREM TypeCorrect == Spec => []TypeOK
<1>1. IInv => TypeOK
  BY DEF IInv
<1> QED BY <1>1, Invariant, PTL

\* Own options take precedence over the manager's, what is inherited is what
\* the manager had since the request came, be it no value, and the mutex keeps
\* the entry that was found in place until its options are merged.
THEOREM OptionsInheritedHolds == Spec => []OptionsInherited
<1>1. IInv => OptionsInherited
  BY InheritedFromInvariant
<1> QED BY <1>1, Invariant, PTL

\* If the app gives every option a value, as staticPathOptions() does by
\* default, staticFileResponse never meets one without, whatever NULLs come
\* later with paths and setStaticPathOption.
THEOREM CompleteOptionsStay ==
  ASSUME Complete(InitOptions)
  PROVE  Spec => []EveryOptionSet
<1>1. IInv => EveryOptionSet
  BY SetFromInvariant
<1> QED BY <1>1, Invariant, PTL

\* Whatever URL is asked for, with whatever escapes, and whatever files there
\* are, staticFileResponse sends only regular files below the directory of the
\* static path it has found.
THEOREM ServedFileIsBelowPathHolds == Spec => []ServedFileIsBelowPath
<1>1. IInv => ServedFileIsBelowPath
  BY DEF IInv
<1> QED BY <1>1, Invariant, PTL
===============================================================================
