------------------------------- MODULE Moves -------------------------------
(***************************************************************************)
(* Facts about things that move between sequences: the documents of the    *)
(* topics, channels, queues and batches of the pipelines, and what a       *)
(* consumer may get a second time.                                         *)
(***************************************************************************)
EXTENDS Integers, Sequences, Functions, SequenceTheorems, TLAPS

(* No document is in an empty sequence. *)
LEMMA RangeEmpty == Range(<< >>) = {}
  BY DEF Range

(* Append, the send on docsChan and on the queue, adds one document. *)
LEMMA RangeAppend ==
  ASSUME NEW S, NEW s \in Seq(S), NEW e \in S
  PROVE  Range(Append(s, e)) = Range(s) \cup {e}
<1>1. Append(s, e) = s \o <<e>>
  BY AppendIsConcat
<1>2. <<e>> \in Seq(S) /\ Range(<<e>>) = {e}
  BY DEF Range
<1>3. Range(s \o <<e>>) = Range(s) \cup Range(<<e>>)
  BY <1>2, RangeConcatenation, Zenon
<1> QED
  BY <1>1, <1>2, <1>3

(* A receive takes exactly the head. *)
LEMMA RangeHeadTail ==
  ASSUME NEW S, NEW s \in Seq(S), s # << >>
  PROVE  Range(s) = {Head(s)} \cup Range(Tail(s))
<1>1. Head(s) \in S /\ Tail(s) \in Seq(S) /\ <<Head(s)>> \in Seq(S)
  OBVIOUS
<1>2. s = <<Head(s)>> \o Tail(s)
  OBVIOUS
<1>3. Range(<<Head(s)>>) = {Head(s)}
  BY DEF Range
<1>4. Range(<<Head(s)>> \o Tail(s)) = Range(<<Head(s)>>) \cup Range(Tail(s))
  BY <1>1, RangeConcatenation, Zenon
<1> QED
  BY <1>2, <1>3, <1>4

(* Concatenation with a sequence of one element is Append. *)
LEMMA OneMore ==
  ASSUME NEW S, NEW s \in Seq(S), NEW d \in Seq(S), Len(d) = 1
  PROVE  /\ Head(d) \in S /\ Range(d) = {Head(d)}
         /\ s \o d = Append(s, Head(d)) /\ s \o d \in Seq(S)
         /\ Len(s \o d) = Len(s) + 1
         /\ Range(s \o d) = Range(s) \cup Range(d)
<1>1. d[1] \in S /\ Head(d) = d[1]
  OBVIOUS
<1>2. d = <<Head(d)>>
  BY <1>1
<1>3. Range(<<Head(d)>>) = {Head(d)}
  BY DEF Range
<1>4. Append(s, Head(d)) = s \o <<Head(d)>>
  BY <1>1, AppendIsConcat
<1>5. Append(s, Head(d)) \in Seq(S) /\ Len(Append(s, Head(d))) = Len(s) + 1
  BY <1>1
<1>6. Range(Append(s, Head(d))) = Range(s) \cup {Head(d)}
  BY <1>1, RangeAppend
<1> QED
  BY <1>1, <1>2, <1>3, <1>4, <1>5, <1>6

(* A Get splits a topic into what it returns and what it leaves. *)
LEMMA RangeSplit ==
  ASSUME NEW S, NEW s \in Seq(S), NEW n \in 0 .. Len(s)
  PROVE  /\ SubSeq(s, 1, n) \in Seq(S)
         /\ SubSeq(s, n + 1, Len(s)) \in Seq(S)
         /\ Range(s) = Range(SubSeq(s, 1, n)) \cup Range(SubSeq(s, n + 1, Len(s)))
<1>1. SubSeq(s, 1, n) \in Seq(S) /\ SubSeq(s, n + 1, Len(s)) \in Seq(S)
  OBVIOUS
<1>2. SubSeq(s, 1, n) \o SubSeq(s, n + 1, Len(s)) = SubSeq(s, 1, Len(s))
  <2>1. /\ 1 \in 1 .. Len(s) + 1
        /\ n \in 1 - 1 .. Len(s)
        /\ Len(s) \in n .. Len(s)
    OBVIOUS
  <2> QED
    BY <2>1, ConcatAdjacentSubSeq, Zenon
<1>3. SubSeq(s, 1, Len(s)) = s
  BY SubSeqFull
<1>4. Range(SubSeq(s, 1, n) \o SubSeq(s, n + 1, Len(s)))
        = Range(SubSeq(s, 1, n)) \cup Range(SubSeq(s, n + 1, Len(s)))
  BY <1>1, RangeConcatenation, Zenon
<1> QED
  BY <1>1, <1>2, <1>3, <1>4

-----------------------------------------------------------------------------
(* What is not in X occurs once in s. *)
Single(s, X) ==
  \A i, j \in DOMAIN s : s[i] = s[j] /\ s[i] \notin X => i = j

(* What is not in X occurs once in all sequences of f together. *)
Apart(f, X) ==
  \A p, q \in DOMAIN f : \A i \in DOMAIN f[p], j \in DOMAIN f[q] :
    f[p][i] = f[q][j] /\ f[p][i] \notin X => p = q /\ i = j

(* Each sequence of such a family is single, and two of them share only    *)
(* what is in X.                                                           *)
LEMMA ApartParts ==
  ASSUME NEW f, NEW X, Apart(f, X)
  PROVE  /\ \A p \in DOMAIN f : Single(f[p], X)
         /\ \A p, q \in DOMAIN f : p # q => Range(f[p]) \cap Range(f[q]) \subseteq X
<1>1. \A p \in DOMAIN f : Single(f[p], X)
  BY DEF Apart, Single
<1>2. ASSUME NEW p \in DOMAIN f, NEW q \in DOMAIN f, p # q,
             NEW x \in Range(f[p]) \cap Range(f[q])
      PROVE  x \in X
  <2>1. PICK i \in DOMAIN f[p] : f[p][i] = x
    BY DEF Range
  <2>2. PICK j \in DOMAIN f[q] : f[q][j] = x
    BY <1>2 DEF Range
  <2> QED
    BY <1>2, <2>1, <2>2 DEF Apart
<1> QED
  BY <1>1, <1>2

(* And the other way round. *)
LEMMA ApartJoin ==
  ASSUME NEW f, NEW X, \A p \in DOMAIN f : Single(f[p], X),
         \A p, q \in DOMAIN f : p # q => Range(f[p]) \cap Range(f[q]) \subseteq X
  PROVE  Apart(f, X)
<1> SUFFICES ASSUME NEW p \in DOMAIN f, NEW q \in DOMAIN f,
                    NEW i \in DOMAIN f[p], NEW j \in DOMAIN f[q],
                    f[p][i] = f[q][j], f[p][i] \notin X
             PROVE  p = q /\ i = j
  BY DEF Apart
<1>1. f[p][i] \in Range(f[p]) /\ f[q][j] \in Range(f[q])
  BY DEF Range
<1>2. p = q
  BY <1>1
<1> QED
  BY <1>2 DEF Single

(* From f to g only the sequences at p and q changed. *)
Elsewhere(f, g, p, q) ==
  /\ DOMAIN g = DOMAIN f /\ p \in DOMAIN f /\ q \in DOMAIN f
  /\ \A r \in DOMAIN f : r # p /\ r # q => g[r] = f[r]

(* From f to g the sequence at p became another single one, which shares   *)
(* nothing with the others.                                                *)
LEMMA ApartReplace ==
  ASSUME NEW f, NEW g, NEW p, NEW X, Apart(f, X), Elsewhere(f, g, p, p),
         Single(g[p], X),
         \A r \in DOMAIN f : r # p => Range(g[p]) \cap Range(f[r]) \subseteq X
  PROVE  Apart(g, X)
<1>1. ASSUME NEW r \in DOMAIN f PROVE Single(g[r], X)
  BY ApartParts DEF Elsewhere
<1>2. ASSUME NEW r \in DOMAIN f, NEW s \in DOMAIN f, r # s
      PROVE  Range(g[r]) \cap Range(g[s]) \subseteq X
  <2>1. CASE r = p
    BY <1>2, <2>1 DEF Elsewhere
  <2>2. CASE s = p
    BY <1>2, <2>2 DEF Elsewhere
  <2>3. CASE r # p /\ s # p
    <3>1. Range(f[r]) \cap Range(f[s]) \subseteq X
      BY <1>2, ApartParts
    <3> QED
      BY <2>3, <3>1 DEF Elsewhere
  <2> QED
    BY <2>1, <2>2, <2>3
<1> QED
  BY <1>1, <1>2, ApartJoin DEF Elsewhere

(* Elements may pass between two sequences of the family, if they do not   *)
(* become more.                                                            *)
LEMMA ApartPass ==
  ASSUME NEW f, NEW g, NEW p, NEW q, NEW X, Apart(f, X), p # q, Elsewhere(f, g, p, q),
         Single(g[p], X), Single(g[q], X), Range(g[p]) \cap Range(g[q]) \subseteq X,
         Range(g[p]) \cup Range(g[q]) \subseteq Range(f[p]) \cup Range(f[q])
  PROVE  Apart(g, X)
<1>1. ASSUME NEW r \in DOMAIN f, r # p, r # q
      PROVE  Single(g[r], X) /\ Range(g[r]) \cap (Range(g[p]) \cup Range(g[q])) \subseteq X
  <2>1. Range(f[r]) \cap Range(f[p]) \subseteq X /\ Range(f[r]) \cap Range(f[q]) \subseteq X
    BY <1>1, ApartParts DEF Elsewhere
  <2>2. g[r] = f[r] /\ Single(f[r], X)
    BY <1>1, ApartParts DEF Elsewhere
  <2> QED
    BY <2>1, <2>2
<1>2. ASSUME NEW r \in DOMAIN f, NEW s \in DOMAIN f, r # s
      PROVE  Range(g[r]) \cap Range(g[s]) \subseteq X
  <2>1. CASE r \notin {p, q} /\ s \notin {p, q}
    <3>1. Range(f[r]) \cap Range(f[s]) \subseteq X
      BY <1>2, ApartParts
    <3> QED
      BY <2>1, <3>1 DEF Elsewhere
  <2> QED
    BY <1>1, <1>2, <2>1
<1> QED
  BY <1>1, <1>2, ApartJoin DEF Elsewhere

(* A larger exception weakens both. *)
LEMMA ApartWeaker ==
  ASSUME NEW f, NEW X, NEW Y, X \subseteq Y, Apart(f, X)
  PROVE  Apart(f, Y)
BY DEF Apart

(* Nothing occurs twice in an empty sequence. *)
LEMMA SingleEmpty == ASSUME NEW X PROVE Single(<< >>, X)
BY DEF Single

(* Append keeps a sequence single if the new element is not in it. *)
LEMMA SingleAppend ==
  ASSUME NEW S, NEW s \in Seq(S), NEW e \in S, NEW X,
         Single(s, X), e \notin Range(s) \/ e \in X
  PROVE  Single(Append(s, e), X)
<1> SUFFICES ASSUME NEW i \in 1 .. Len(s) + 1, NEW j \in 1 .. Len(s) + 1,
                    Append(s, e)[i] = Append(s, e)[j], Append(s, e)[i] \notin X
             PROVE  i = j
  BY DEF Single
<1>1. \A k \in 1 .. Len(s) : Append(s, e)[k] = s[k] /\ s[k] \in Range(s)
  BY DEF Range
<1>2. Append(s, e)[Len(s) + 1] = e
  OBVIOUS
<1> QED
  BY <1>1, <1>2 DEF Single

(* A receive leaves a single sequence that no longer has the head. *)
LEMMA SingleHeadTail ==
  ASSUME NEW S, NEW s \in Seq(S), s # << >>, NEW X, Single(s, X)
  PROVE  Single(Tail(s), X) /\ (Head(s) \in Range(Tail(s)) => Head(s) \in X)
<1>1. /\ DOMAIN Tail(s) = 1 .. Len(s) - 1 /\ DOMAIN s = 1 .. Len(s)
      /\ \A k \in 1 .. Len(s) - 1 : Tail(s)[k] = s[k + 1]
      /\ Head(s) = s[1] /\ Len(s) >= 1
  OBVIOUS
<1>2. Single(Tail(s), X)
  BY <1>1 DEF Single
<1>3. ASSUME Head(s) \in Range(Tail(s)) PROVE Head(s) \in X
  <2>1. PICK k \in 1 .. Len(s) - 1 : s[k + 1] = s[1]
    BY <1>1, <1>3 DEF Range
  <2> QED
    BY <1>1, <2>1 DEF Single
<1> QED
  BY <1>2, <1>3

(* A single sequence splits into two that share nothing. *)
LEMMA SingleSplit ==
  ASSUME NEW S, NEW s \in Seq(S), NEW n \in 0 .. Len(s), NEW X, Single(s, X)
  PROVE  /\ Single(SubSeq(s, 1, n), X)
         /\ Single(SubSeq(s, n + 1, Len(s)), X)
         /\ Range(SubSeq(s, 1, n)) \cap Range(SubSeq(s, n + 1, Len(s))) \subseteq X
<1> DEFINE a == SubSeq(s, 1, n)
           b == SubSeq(s, n + 1, Len(s))
<1>1. /\ DOMAIN s = 1 .. Len(s)
      /\ DOMAIN a = 1 .. n /\ \A k \in 1 .. n : a[k] = s[k]
      /\ DOMAIN b = 1 .. Len(s) - n /\ \A k \in 1 .. Len(s) - n : b[k] = s[k + n]
  OBVIOUS
<1> HIDE DEF a, b
<1>2. Single(a, X)
  BY <1>1 DEF Single
<1>3. Single(b, X)
  BY <1>1 DEF Single
<1>4. ASSUME NEW x \in Range(a) \cap Range(b) PROVE x \in X
  <2>1. PICK k \in 1 .. n : s[k] = x
    BY <1>1 DEF Range
  <2>2. PICK l \in 1 .. Len(s) - n : s[l + n] = x
    BY <1>1 DEF Range
  <2>3. k \in DOMAIN s /\ l + n \in DOMAIN s /\ k # l + n
    BY <1>1
  <2> QED
    BY <2>1, <2>2, <2>3 DEF Single
<1> QED
  BY <1>2, <1>3, <1>4 DEF a, b

(* Two single sequences that share nothing make a single one. *)
LEMMA SingleConcatenation ==
  ASSUME NEW S, NEW s \in Seq(S), NEW r \in Seq(S), NEW X,
         Single(s, X), Single(r, X), Range(s) \cap Range(r) \subseteq X
  PROVE  Single(s \o r, X)
<1> DEFINE u == s \o r
<1>1. /\ DOMAIN u = 1 .. Len(s) + Len(r)
      /\ DOMAIN s = 1 .. Len(s) /\ DOMAIN r = 1 .. Len(r)
      /\ \A k \in 1 .. Len(s) : u[k] = s[k]
      /\ \A k \in Len(s) + 1 .. Len(s) + Len(r) : u[k] = r[k - Len(s)]
  OBVIOUS
<1> HIDE DEF u
<1> SUFFICES ASSUME NEW i \in DOMAIN u, NEW j \in DOMAIN u, u[i] = u[j], u[i] \notin X
             PROVE  i = j
  BY DEF Single, u
<1>2. ASSUME NEW k \in DOMAIN u, k <= Len(s) PROVE u[k] \in Range(s)
  BY <1>1, <1>2 DEF Range
<1>3. ASSUME NEW k \in DOMAIN u, k > Len(s) PROVE u[k] \in Range(r)
  <2>1. k - Len(s) \in DOMAIN r /\ u[k] = r[k - Len(s)]
    BY <1>1, <1>3
  <2> QED
    BY <2>1 DEF Range
<1>4. CASE i <= Len(s) /\ j <= Len(s)
  BY <1>1, <1>4 DEF Single
<1>5. CASE i > Len(s) /\ j > Len(s)
  <2>1. /\ i - Len(s) \in DOMAIN r /\ j - Len(s) \in DOMAIN r
        /\ u[i] = r[i - Len(s)] /\ u[j] = r[j - Len(s)]
    BY <1>1, <1>5
  <2>2. i - Len(s) = j - Len(s)
    BY <2>1 DEF Single
  <2> QED
    BY <1>1, <2>2
<1>6. CASE i <= Len(s) /\ j > Len(s)
  BY <1>2, <1>3, <1>6
<1>7. CASE i > Len(s) /\ j <= Len(s)
  BY <1>2, <1>3, <1>7
<1> QED
  BY <1>1, <1>4, <1>5, <1>6, <1>7

-----------------------------------------------------------------------------
(* A submission: the sequence at p gets an element that is nowhere yet, or *)
(* that is excepted.                                                       *)
LEMMA ApartSubmit ==
  ASSUME NEW f, NEW g, NEW p, NEW X, NEW S, NEW e \in S, Apart(f, X),
         Elsewhere(f, g, p, p), f[p] \in Seq(S), g[p] = Append(f[p], e),
         e \in X \/ \A r \in DOMAIN f : e \notin Range(f[r])
  PROVE  Apart(g, X)
<1>1. p \in DOMAIN f
  BY DEF Elsewhere
<1>2. Single(f[p], X) /\ \A r \in DOMAIN f : r # p => Range(f[p]) \cap Range(f[r]) \subseteq X
  BY <1>1, ApartParts
<1>3. Range(g[p]) = Range(f[p]) \cup {e}
  BY RangeAppend
<1>4. Single(g[p], X)
  BY <1>1, <1>2, SingleAppend
<1>5. \A r \in DOMAIN f : r # p => Range(g[p]) \cap Range(f[r]) \subseteq X
  BY <1>2, <1>3
<1> QED
  BY <1>4, <1>5, ApartReplace

(* A Get: q gets the first n elements of p, in place of what it had. *)
LEMMA ApartTake ==
  ASSUME NEW f, NEW g, NEW p, NEW q, NEW X, NEW S, NEW n, Apart(f, X), p # q,
         Elsewhere(f, g, p, q), f[p] \in Seq(S), n \in 0 .. Len(f[p]),
         g[q] = SubSeq(f[p], 1, n), g[p] = SubSeq(f[p], n + 1, Len(f[p]))
  PROVE  Apart(g, X)
<1>1. p \in DOMAIN f
  BY DEF Elsewhere
<1>2. Single(f[p], X)
  BY <1>1, ApartParts
<1>3. /\ Single(g[q], X) /\ Single(g[p], X) /\ Range(g[q]) \cap Range(g[p]) \subseteq X
      /\ Range(f[p]) = Range(g[q]) \cup Range(g[p])
  BY <1>2, SingleSplit, RangeSplit
<1> QED
  BY <1>3, ApartPass

(* A send or a receive: the head of p goes to the end of q. *)
LEMMA ApartForward ==
  ASSUME NEW f, NEW g, NEW p, NEW q, NEW X, NEW S, Apart(f, X), p # q,
         Elsewhere(f, g, p, q), f[p] \in Seq(S), f[p] # << >>, f[q] \in Seq(S),
         g[p] = Tail(f[p]), g[q] = Append(f[q], Head(f[p]))
  PROVE  Apart(g, X)
<1>1. p \in DOMAIN f /\ q \in DOMAIN f /\ Head(f[p]) \in S
  BY DEF Elsewhere
<1>2. Single(f[p], X) /\ Single(f[q], X) /\ Range(f[p]) \cap Range(f[q]) \subseteq X
  BY <1>1, ApartParts
<1>3. /\ Single(g[p], X)
      /\ Head(f[p]) \in Range(g[p]) => Head(f[p]) \in X
      /\ Range(f[p]) = {Head(f[p])} \cup Range(g[p])
  BY <1>2, SingleHeadTail, RangeHeadTail
<1>4. Range(g[q]) = Range(f[q]) \cup {Head(f[p])}
  BY <1>1, RangeAppend
<1>5. Head(f[p]) \notin Range(f[q]) \/ Head(f[p]) \in X
  BY <1>2, <1>3
<1>6. Single(g[q], X)
  BY <1>1, <1>2, <1>5, SingleAppend
<1> QED
  BY <1>2, <1>3, <1>4, <1>6, ApartPass
=============================================================================
