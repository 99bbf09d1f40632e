--------------------------- MODULE Tunnel_proofs ---------------------------
(***************************************************************************)
(* The tunnel keeps its invariant, whatever the bound on what is sent.     *)
(* The first part is about the numbers in the three places data can be on  *)
(* its way; lemma XStep shows that a step keeps part X of Inv.             *)
(***************************************************************************)
EXTENDS Tunnel, SequenceTheorems, TLAPS

Items == 1..MaxSent

----------------------------------------------------------------------------
(* One direction: received (g), read ahead (e), unread (w), of n sent; to  *)
(* and by a side whose end is t and f.                                     *)

Piece(g, e, w, n, t, f) ==
    /\ Counts(g, 0)
    /\ Len(g) <= n
    /\ t # "gone" =>
          /\ Counts(e, Len(g))
          /\ Counts(w, Len(g) + Len(e))
          /\ Len(g) + Len(e) + Len(w) <= n
          /\ f # "gone" => Len(g) + Len(e) + Len(w) = n

(* Two stretches that follow on each other are one.                        *)
LEMMA CountsConcat ==
    ASSUME NEW a \in Seq(Items), NEW b \in Seq(Items), NEW n \in Nat,
           Counts(a, n), Counts(b, n + Len(a))
    PROVE  Counts(a \o b, n)
<1>1. Len(a) \in Nat /\ Len(b) \in Nat /\ a \in [1..Len(a) -> Items] /\ b \in [1..Len(b) -> Items]
  BY LenProperties
<1>2. /\ Len(a \o b) = Len(a) + Len(b)
      /\ \A i \in 1..Len(a) + Len(b) : (a \o b)[i] = IF i <= Len(a) THEN a[i] ELSE b[i - Len(a)]
  BY ConcatProperties
<1>3. ASSUME NEW i \in 1..Len(a) + Len(b)
      PROVE  (a \o b)[i] = n + i
  <2>1. CASE i <= Len(a)
    <3>1. i \in 1..Len(a)
      BY <1>1, <2>1
    <3> QED BY <1>2, <2>1, <3>1 DEF Counts
  <2>2. CASE ~(i <= Len(a))
    <3>1. i - Len(a) \in 1..Len(b)
      BY <1>1, <2>2
    <3>2. b[i - Len(a)] = n + Len(a) + (i - Len(a))
      BY <3>1 DEF Counts
    <3> QED BY <1>1, <1>2, <2>2, <3>2
  <2> QED BY <2>1, <2>2
<1> QED BY <1>2, <1>3 DEF Counts

(* A stretch can be cut in two.                                            *)
LEMMA CountsCut ==
    ASSUME NEW w \in Seq(Items), NEW n \in Nat, NEW k \in 0..Len(w), Counts(w, n)
    PROVE  /\ SubSeq(w, 1, k) \in Seq(Items) /\ SubSeq(w, k + 1, Len(w)) \in Seq(Items)
           /\ Len(SubSeq(w, 1, k)) = k /\ Len(SubSeq(w, k + 1, Len(w))) = Len(w) - k
           /\ Counts(SubSeq(w, 1, k), n)
           /\ Counts(SubSeq(w, k + 1, Len(w)), n + k)
<1>1. Len(w) \in Nat /\ w \in [1..Len(w) -> Items] /\ k \in Nat /\ k <= Len(w)
  BY LenProperties
<1>2. /\ SubSeq(w, 1, k) \in Seq(Items)
      /\ Len(SubSeq(w, 1, k)) = k
      /\ \A i \in 1..k : SubSeq(w, 1, k)[i] = w[i]
  <2>1. \A i \in 1..k : w[i] \in Items
    BY <1>1
  <2>2. /\ SubSeq(w, 1, k) \in Seq(Items)
        /\ Len(SubSeq(w, 1, k)) = IF 1 <= k THEN k - 1 + 1 ELSE 0
        /\ \A i \in 1..k - 1 + 1 : SubSeq(w, 1, k)[i] = w[1 + i - 1]
    BY <1>1, <2>1, SubSeqProperties
  <2> QED BY <1>1, <2>2
<1>3. /\ SubSeq(w, k + 1, Len(w)) \in Seq(Items)
      /\ Len(SubSeq(w, k + 1, Len(w))) = Len(w) - k
      /\ \A i \in 1..Len(w) - k : SubSeq(w, k + 1, Len(w))[i] = w[k + i]
  <2>1. \A i \in (k + 1)..Len(w) : w[i] \in Items
    BY <1>1
  <2>2. /\ SubSeq(w, k + 1, Len(w)) \in Seq(Items)
        /\ Len(SubSeq(w, k + 1, Len(w))) = IF k + 1 <= Len(w) THEN Len(w) - (k + 1) + 1 ELSE 0
        /\ \A i \in 1..Len(w) - (k + 1) + 1 : SubSeq(w, k + 1, Len(w))[i] = w[k + 1 + i - 1]
    BY <1>1, <2>1, SubSeqProperties
  <2>3. Len(w) - (k + 1) + 1 = Len(w) - k
    BY <1>1
  <2>4. \A i \in 1..Len(w) - k : k + 1 + i - 1 = k + i
    BY <1>1
  <2>5. Len(SubSeq(w, k + 1, Len(w))) = Len(w) - k
    <3>1. Len(SubSeq(w, k + 1, Len(w))) = IF k + 1 <= Len(w) THEN Len(w) - (k + 1) + 1 ELSE 0
      BY <2>2
    <3>2. \A i, j \in Nat : i <= j => (IF i + 1 <= j THEN j - (i + 1) + 1 ELSE 0) = j - i
      OBVIOUS
    <3> QED BY <1>1, <3>1, <3>2
  <2> QED BY <2>2, <2>3, <2>4, <2>5
<1>4. \A i \in 1..k : w[i] = n + i
  BY <1>1 DEF Counts
<1>5. \A i \in 1..Len(w) - k : w[k + i] = n + k + i
  <2> TAKE i \in 1..Len(w) - k
  <2>1. k + i \in 1..Len(w)
    BY <1>1
  <2> QED BY <1>1, <2>1 DEF Counts
<1>6. Counts(SubSeq(w, 1, k), n)
  BY <1>2, <1>4 DEF Counts
<1>7. Counts(SubSeq(w, k + 1, Len(w)), n + k)
  BY <1>3, <1>5 DEF Counts
<1> QED BY <1>2, <1>3, <1>6, <1>7

(* Its first item is the next number, the rest goes on from there.         *)
LEMMA CountsTail ==
    ASSUME NEW w \in Seq(Items), NEW n \in Nat, w # <<>>, Counts(w, n)
    PROVE  /\ Head(w) \in Items /\ Head(w) = n + 1
           /\ Tail(w) \in Seq(Items) /\ Len(Tail(w)) = Len(w) - 1 /\ Len(w) >= 1
           /\ Counts(Tail(w), n + 1)
<1>1. Len(w) \in Nat /\ Len(w) >= 1
  BY LenProperties, EmptySeq
<1>2. /\ Head(w) \in Items /\ Tail(w) \in Seq(Items)
      /\ Len(Tail(w)) = Len(w) - 1
      /\ \A i \in 1..Len(Tail(w)) : Tail(w)[i] = w[i + 1]
  BY HeadTailProperties
<1>3. Head(w) = w[1]
  OBVIOUS
<1>4. w[1] = n + 1
  BY <1>1 DEF Counts
<1>5. \A i \in 1..Len(Tail(w)) : Tail(w)[i] = n + 1 + i
  <2> TAKE i \in 1..Len(Tail(w))
  <2>1. i + 1 \in 1..Len(w)
    BY <1>1, <1>2
  <2>2. w[i + 1] = n + (i + 1)
    BY <2>1 DEF Counts
  <2> QED BY <1>1, <1>2, <2>1, <2>2
<1> QED BY <1>1, <1>2, <1>3, <1>4, <1>5 DEF Counts

(* One item is a stretch.                                                  *)
LEMMA CountsOne ==
    ASSUME NEW n \in Nat, NEW x \in Items, x = n + 1
    PROVE  <<x>> \in Seq(Items) /\ Len(<<x>>) = 1 /\ Counts(<<x>>, n)
BY DEF Counts

(* Nothing is one.                                                         *)
LEMMA CountsNothing ==
    ASSUME NEW n \in Nat
    PROVE  <<>> \in Seq(Items) /\ Len(<<>>) = 0 /\ Counts(<<>>, n)
BY EmptySeq DEF Counts

(* What is read ahead of a direction stays in line.                        *)
LEMMA ReadAheadPiece ==
    ASSUME NEW g \in Seq(Items), NEW e \in Seq(Items), NEW w \in Seq(Items), NEW n \in Nat,
           NEW t, NEW f, NEW k \in 0..Len(w),
           Piece(g, e, w, n, t, f)
    PROVE  /\ e \o SubSeq(w, 1, k) \in Seq(Items)
           /\ SubSeq(w, k + 1, Len(w)) \in Seq(Items)
           /\ Piece(g, e \o SubSeq(w, 1, k), SubSeq(w, k + 1, Len(w)), n, t, f)
<1> DEFINE p == SubSeq(w, 1, k)
           q == SubSeq(w, k + 1, Len(w))
           ep == e \o p
<1>1. Len(g) \in Nat /\ Len(e) \in Nat /\ Len(w) \in Nat /\ w \in [1..Len(w) -> Items] /\ k \in Nat
  BY LenProperties
<1>2. p \in Seq(Items) /\ q \in Seq(Items)
  <2>1. \A i \in 1..k : w[i] \in Items
    BY <1>1
  <2>2. \A i \in (k + 1)..Len(w) : w[i] \in Items
    BY <1>1
  <2>3. k + 1 \in Int /\ k \in Int /\ Len(w) \in Int
    BY <1>1
  <2> QED BY <2>1, <2>2, <2>3, SubSeqProperties
<1>3. ep \in Seq(Items) /\ Len(ep) = Len(e) + Len(p)
  BY <1>2, ConcatProperties
<1>4. CASE t = "gone"
  BY <1>2, <1>3, <1>4 DEF Piece
<1>5. CASE t # "gone"
  <2>1. /\ Counts(g, 0) /\ Len(g) <= n
        /\ Counts(e, Len(g)) /\ Counts(w, Len(g) + Len(e))
        /\ Len(g) + Len(e) + Len(w) <= n
        /\ f # "gone" => Len(g) + Len(e) + Len(w) = n
    BY <1>5 DEF Piece
  <2>2. Len(g) + Len(e) \in Nat
    BY <1>1
  <2>3. /\ Len(p) = k /\ Len(q) = Len(w) - k
        /\ Counts(p, Len(g) + Len(e))
        /\ Counts(q, Len(g) + Len(e) + k)
    BY <2>1, <2>2, CountsCut
  <2>4. Counts(ep, Len(g))
    BY <1>1, <1>2, <2>1, <2>3, CountsConcat
  <2> HIDE DEF p, q, ep
  <2>5. Len(g) + Len(ep) = Len(g) + Len(e) + k
    BY <1>1, <1>3, <2>3
  <2>6. Len(g) + Len(ep) + Len(q) = Len(g) + Len(e) + Len(w)
    <3>1. \A i, l, m \in Nat : i + l + (m - l) = i + m
      OBVIOUS
    <3> QED BY <1>1, <2>2, <2>3, <2>5, <3>1
  <2>7. Counts(q, Len(g) + Len(ep))
    BY <2>3, <2>5
  <2>8. Piece(g, ep, q, n, t, f)
    BY <2>1, <2>4, <2>6, <2>7 DEF Piece
  <2> QED BY <1>2, <1>3, <2>8 DEF p, q, ep
<1> QED BY <1>4, <1>5

(* So is what is sent.                                                     *)
LEMMA SendPiece ==
    ASSUME NEW g \in Seq(Items), NEW e \in Seq(Items), NEW w \in Seq(Items), NEW n \in Nat,
           NEW t, NEW f, n + 1 \in Items, f # "gone",
           Piece(g, e, w, n, t, f)
    PROVE  /\ Append(w, n + 1) \in Seq(Items)
           /\ Piece(g, e, Append(w, n + 1), n + 1, t, f)
<1>1. Len(g) \in Nat /\ Len(e) \in Nat /\ Len(w) \in Nat
  BY LenProperties
<1>2. Append(w, n + 1) \in Seq(Items) /\ Append(w, n + 1) = w \o <<n + 1>>
  BY AppendProperties, AppendIsConcat
<1>3. Len(Append(w, n + 1)) = Len(w) + 1
  BY AppendProperties
<1>4. Counts(g, 0) /\ Len(g) <= n + 1
  BY <1>1 DEF Piece
<1>5. CASE t = "gone"
  BY <1>2, <1>4, <1>5 DEF Piece
<1>6. CASE t # "gone"
  <2>1. Counts(e, Len(g)) /\ Counts(w, Len(g) + Len(e)) /\ Len(g) + Len(e) + Len(w) = n
    BY <1>6 DEF Piece
  <2>2. <<n + 1>> \in Seq(Items) /\ Counts(<<n + 1>>, n)
    BY CountsOne
  <2>3. Len(g) + Len(e) \in Nat
    BY <1>1
  <2>4. Counts(w \o <<n + 1>>, Len(g) + Len(e))
    BY <2>1, <2>2, <2>3, CountsConcat
  <2>5. Len(g) + Len(e) + Len(Append(w, n + 1)) = n + 1
    BY <1>1, <1>3, <2>1
  <2>6. Len(g) + Len(e) + Len(Append(w, n + 1)) <= n + 1
    BY <2>5
  <2>7. Counts(Append(w, n + 1), Len(g) + Len(e))
    BY <1>2, <2>4
  <2>8. Piece(g, e, Append(w, n + 1), n + 1, t, f)
    BY <1>4, <2>1, <2>5, <2>6, <2>7 DEF Piece
  <2> QED BY <1>2, <2>8
<1> QED BY <1>5, <1>6

(* So is what is forwarded before pump starts, ...                         *)
LEMMA ForwardPiece ==
    ASSUME NEW g \in Seq(Items), NEW e \in Seq(Items), NEW w \in Seq(Items), NEW n \in Nat,
           NEW t, NEW f,
           Piece(g, e, w, n, t, f)
    PROVE  LET h == IF t = "gone" THEN g ELSE g \o e
           IN  /\ h \in Seq(Items)
               /\ Piece(h, <<>>, w, n, t, f)
<1>1. Len(g) \in Nat /\ Len(e) \in Nat /\ Len(w) \in Nat
  BY LenProperties
<1>2. Counts(g, 0) /\ Len(g) <= n
  BY DEF Piece
<1>3. CASE t = "gone"
  BY <1>2, <1>3 DEF Piece
<1>4. CASE t # "gone"
  <2>1. /\ Counts(e, Len(g)) /\ Counts(w, Len(g) + Len(e))
        /\ Len(g) + Len(e) + Len(w) <= n
        /\ f # "gone" => Len(g) + Len(e) + Len(w) = n
    BY <1>4 DEF Piece
  <2>2. 0 + Len(g) = Len(g)
    BY <1>1
  <2>3. g \o e \in Seq(Items) /\ Len(g \o e) = Len(g) + Len(e)
    BY ConcatProperties
  <2>4. Counts(g \o e, 0)
    BY <1>2, <2>1, <2>2, CountsConcat
  <2>5. Len(<<>>) = 0 /\ Counts(<<>>, Len(g \o e))
    BY <1>1, <2>3, CountsNothing
  <2>6. Len(g \o e) <= n /\ Len(g \o e) + 0 = Len(g) + Len(e)
    BY <1>1, <2>1, <2>3
  <2>7. Piece(g \o e, <<>>, w, n, t, f)
    BY <2>1, <2>3, <2>4, <2>5, <2>6 DEF Piece
  <2> QED BY <1>4, <2>3, <2>7
<1> QED BY <1>3, <1>4

(* ... and what pump copies: from what was read ahead, as long as there is *)
(* any, then from the connection.                                          *)
LEMMA CopyPiece ==
    ASSUME NEW g \in Seq(Items), NEW e \in Seq(Items), NEW w \in Seq(Items), NEW n \in Nat,
           NEW t, NEW f, NEW a \in Seq(Items), NEW b \in Seq(Items),
           e \o w # <<>>,
           IF e # <<>> THEN a = Tail(e) /\ b = w ELSE a = e /\ b = Tail(w),
           Piece(g, e, w, n, t, f)
    PROVE  LET h == IF t = "gone" THEN g ELSE g \o <<Head(e \o w)>>
           IN  /\ h \in Seq(Items)
               /\ Piece(h, a, b, n, t, f)
<1>1. Len(g) \in Nat /\ Len(e) \in Nat /\ Len(w) \in Nat
  BY LenProperties
<1>2. Counts(g, 0) /\ Len(g) <= n
  BY DEF Piece
<1>3. CASE t = "gone"
  BY <1>2, <1>3 DEF Piece
<1>4. CASE t # "gone"
  <2>1. /\ Counts(e, Len(g)) /\ Counts(w, Len(g) + Len(e))
        /\ Len(g) + Len(e) + Len(w) <= n
        /\ f # "gone" => Len(g) + Len(e) + Len(w) = n
    BY <1>4 DEF Piece
  <2>2. /\ Head(e \o w) \in Items /\ Head(e \o w) = Len(g) + 1
        /\ Counts(a, Len(g) + 1)
        /\ Counts(b, Len(g) + 1 + Len(a))
        /\ Len(a) \in Nat /\ Len(b) \in Nat
        /\ Len(a) + Len(b) + 1 = Len(e) + Len(w)
    <3>1. CASE e # <<>>
      <4>1. /\ Head(e) \in Items /\ Head(e) = Len(g) + 1
            /\ Len(Tail(e)) = Len(e) - 1 /\ Len(e) >= 1
            /\ Counts(Tail(e), Len(g) + 1)
        BY <1>1, <2>1, <3>1, CountsTail
      <4>2. Head(e \o w) = Head(e)
        <5>1. (e \o w)[1] = e[1]
          BY <1>1, <4>1, ConcatProperties
        <5> QED BY <5>1
      <4>3. a = Tail(e) /\ b = w
        BY <3>1
      <4>4. Len(g) + 1 + Len(a) = Len(g) + Len(e) /\ Len(a) \in Nat
        BY <1>1, <4>1, <4>3
      <4> QED BY <1>1, <2>1, <4>1, <4>2, <4>3, <4>4
    <3>2. CASE e = <<>>
      <4>1. e \o w = w /\ Len(e) = 0
        BY <3>2, ConcatEmptySeq
      <4>2. w # <<>> /\ Len(g) + Len(e) = Len(g)
        BY <1>1, <4>1
      <4>3. /\ Head(w) \in Items /\ Head(w) = Len(g) + 1
            /\ Len(Tail(w)) = Len(w) - 1 /\ Len(w) >= 1
            /\ Counts(Tail(w), Len(g) + 1)
        BY <1>1, <2>1, <4>2, CountsTail
      <4>4. a = e /\ b = Tail(w)
        BY <3>2
      <4>5. Len(g) + 1 + Len(a) = Len(g) + 1 /\ Len(a) = 0
        BY <1>1, <4>1, <4>4
      <4>6. Counts(a, Len(g) + 1)
        <5>1. Len(g) + 1 \in Nat
          BY <1>1
        <5> QED BY <3>2, <4>4, <5>1, CountsNothing
      <4>7. Len(b) \in Nat /\ Len(a) + Len(b) + 1 = Len(e) + Len(w)
        BY <1>1, <4>1, <4>3, <4>4
      <4> QED BY <4>1, <4>3, <4>4, <4>5, <4>6, <4>7
    <3> QED BY <3>1, <3>2
  <2> DEFINE x == <<Head(e \o w)>>
  <2>3. x \in Seq(Items) /\ Len(x) = 1 /\ Counts(x, Len(g))
    BY <1>1, <2>2, CountsOne
  <2>4. g \o x \in Seq(Items) /\ Len(g \o x) = Len(g) + 1
    BY <2>3, ConcatProperties
  <2>5. Counts(g \o x, 0)
    <3>1. 0 + Len(g) = Len(g)
      BY <1>1
    <3> QED BY <1>2, <2>3, <3>1, CountsConcat
  <2>6. /\ Len(g \o x) <= n
        /\ Len(g \o x) + Len(a) + Len(b) = Len(g) + Len(e) + Len(w)
    <3> DEFINE lg == Len(g)  le == Len(e)  lw == Len(w)  la == Len(a)  lb == Len(b)
    <3>1. lg \in Nat /\ le \in Nat /\ lw \in Nat /\ la \in Nat /\ lb \in Nat
      BY <1>1, <2>2
    <3>2. la + lb + 1 = le + lw /\ lg + le + lw <= n
      BY <2>1, <2>2
    <3>3. Len(g \o x) = lg + 1
      BY <2>4
    <3> HIDE DEF lg, le, lw, la, lb
    <3>4. lg + 1 <= n /\ lg + 1 + la + lb = lg + le + lw
      BY <3>1, <3>2
    <3> QED BY <3>3, <3>4 DEF lg, le, lw, la, lb
  <2>7. Counts(a, Len(g \o x)) /\ Counts(b, Len(g \o x) + Len(a))
    BY <2>2, <2>4
  <2>8. Piece(g \o x, a, b, n, t, f)
    BY <2>1, <2>5, <2>6, <2>7 DEF Piece
  <2> QED BY <1>4, <2>4, <2>8
<1> QED BY <1>3, <1>4

(* A reset may take along what its sender had sent.                        *)
LEMMA LeavePiece ==
    ASSUME NEW g \in Seq(Items), NEW e \in Seq(Items), NEW w \in Seq(Items), NEW n \in Nat,
           NEW t, NEW f, NEW v \in {w, <<>>},
           Piece(g, e, w, n, t, f)
    PROVE  v \in Seq(Items) /\ Piece(g, e, v, n, t, "gone")
<1>1. Len(g) \in Nat /\ Len(e) \in Nat /\ Len(w) \in Nat
  BY LenProperties
<1>2. CASE v = w
  BY <1>2 DEF Piece
<1>3. CASE v = <<>>
  <2>1. Len(g) + Len(e) \in Nat
    BY <1>1
  <2>2. v \in Seq(Items) /\ Len(v) = 0 /\ Counts(v, Len(g) + Len(e))
    BY <1>3, <2>1, CountsNothing
  <2>3. t # "gone" => Len(g) + Len(e) + Len(v) <= n
    BY <1>1, <2>2 DEF Piece
  <2> QED BY <2>2, <2>3 DEF Piece
<1> QED BY <1>2, <1>3

----------------------------------------------------------------------------
(* The two directions of the tunnel.                                       *)

Flow(s) == Piece(got[Other(s)], early[s], wire[s], sent[s], end[Other(s)], end[s])

DataTyped ==
    /\ sent \in [Sides -> 0..MaxSent]
    /\ wire \in [Sides -> Seq(Items)]
    /\ early \in [Sides -> Seq(Items)]
    /\ got \in [Sides -> Seq(Items)]

(* There are two sides.                                                    *)
LEMMA TwoSides ==
    /\ "client" \in Sides /\ "remote" \in Sides
    /\ Other("client") = "remote" /\ Other("remote") = "client"
    /\ \A s \in Sides : Other(s) \in Sides /\ Other(s) # s /\ Other(Other(s)) = s
    /\ \A s, t \in Sides : t # s => t = Other(s)
BY DEF Sides, Other

(* What the lemmas about a direction ask for.                              *)
LEMMA FlowTyped ==
    ASSUME DataTyped, StreamsFlow, NEW s \in Sides
    PROVE  /\ got[Other(s)] \in Seq(Items) /\ early[s] \in Seq(Items) /\ wire[s] \in Seq(Items)
           /\ sent[s] \in Nat /\ sent[s] \in 0..MaxSent
           /\ Flow(s)
<1>1. sent[s] \in 0..MaxSent /\ wire[s] \in Seq(Items) /\ early[s] \in Seq(Items)
  BY DEF DataTyped
<1>2. got[Other(s)] \in Seq(Items)
  BY TwoSides DEF DataTyped
<1>3. Flow(s)
  BY DEF StreamsFlow, Flow, Piece
<1> QED BY <1>1, <1>2, <1>3

(* Reading ahead.                                                          *)
LEMMA ReadAheadFlow ==
    ASSUME DataTyped, StreamsFlow, NEW s \in Sides, NEW n \in 0..Len(wire[s]),
           ReadAhead(s, n), UNCHANGED <<got, sent, end>>
    PROVE  DataTyped' /\ StreamsFlow'
<1>1. /\ early[s] \o SubSeq(wire[s], 1, n) \in Seq(Items)
      /\ SubSeq(wire[s], n + 1, Len(wire[s])) \in Seq(Items)
      /\ Piece(got[Other(s)], early[s] \o SubSeq(wire[s], 1, n),
               SubSeq(wire[s], n + 1, Len(wire[s])), sent[s], end[Other(s)], end[s])
  BY FlowTyped, ReadAheadPiece DEF Flow
<1>2. PICK x, y : x = early[s] \o SubSeq(wire[s], 1, n) /\ y = SubSeq(wire[s], n + 1, Len(wire[s]))
  OBVIOUS
<1>3. early' = [early EXCEPT ![s] = x] /\ wire' = [wire EXCEPT ![s] = y]
  BY <1>2 DEF ReadAhead
<1>4. x \in Seq(Items) /\ y \in Seq(Items)
      /\ Piece(got[Other(s)], x, y, sent[s], end[Other(s)], end[s])
  BY <1>1, <1>2
<1>5. DataTyped'
  BY <1>3, <1>4 DEF DataTyped
<1>6. ASSUME NEW t \in Sides
      PROVE  Flow(t)'
  <2>1. CASE t = s
    BY <1>3, <1>4, <2>1 DEF DataTyped, Flow
  <2>2. CASE t # s
    <3>1. early'[t] = early[t] /\ wire'[t] = wire[t]
      BY <1>3, <2>2 DEF DataTyped
    <3> QED BY <3>1, FlowTyped DEF Flow
  <2> QED BY <2>1, <2>2
<1> QED BY <1>5, <1>6 DEF StreamsFlow, Flow, Piece

(* Forwarding what net/http had read ahead.                                *)
LEMMA ForwardFlow ==
    ASSUME DataTyped, StreamsFlow, ForwardEarly
    PROVE  DataTyped' /\ StreamsFlow'
<1>1. PICK h : h = Received("remote", early["client"])
  OBVIOUS
<1>2. h \in Seq(Items) /\ Piece(h, <<>>, wire["client"], sent["client"], end["remote"], end["client"])
  <2>1. /\ got["remote"] \in Seq(Items) /\ early["client"] \in Seq(Items)
        /\ wire["client"] \in Seq(Items) /\ sent["client"] \in Nat
        /\ Piece(got["remote"], early["client"], wire["client"], sent["client"],
                 end["remote"], end["client"])
    BY FlowTyped, TwoSides DEF Flow
  <2> QED BY <1>1, <2>1, ForwardPiece DEF Received
<1>3. /\ got' = [got EXCEPT !["remote"] = h] /\ early' = [early EXCEPT !["client"] = <<>>]
      /\ UNCHANGED <<wire, sent, end>>
  BY <1>1 DEF ForwardEarly, peers
<1>4. DataTyped'
  BY <1>2, <1>3, EmptySeq DEF DataTyped
<1>5. Flow("client")'
  BY <1>2, <1>3, TwoSides DEF DataTyped, Flow
<1>6. Flow("remote")'
  <2>1. early'["remote"] = early["remote"] /\ got'["client"] = got["client"]
    BY <1>3, TwoSides DEF DataTyped
  <2> QED BY <1>3, <2>1, FlowTyped, TwoSides DEF Flow
<1> QED BY <1>4, <1>5, <1>6 DEF StreamsFlow, Flow, Piece, Sides

(* Copying.                                                                *)
LEMMA CopyFlow ==
    ASSUME DataTyped, StreamsFlow, NEW s \in Sides, Copy(s)
    PROVE  DataTyped' /\ StreamsFlow'
<1>0. /\ got[Other(s)] \in Seq(Items) /\ early[s] \in Seq(Items) /\ wire[s] \in Seq(Items)
      /\ sent[s] \in Nat
      /\ Piece(got[Other(s)], early[s], wire[s], sent[s], end[Other(s)], end[s])
      /\ Other(s) \in Sides
  BY FlowTyped, TwoSides DEF Flow
<1>1. PICK h : h = Received(Other(s), <<Head(Unread(s))>>)
  OBVIOUS
<1>2. PICK a, b :
         /\ IF early[s] # <<>> THEN a = Tail(early[s]) /\ b = wire[s]
                               ELSE a = early[s] /\ b = Tail(wire[s])
         /\ early' = [early EXCEPT ![s] = a] /\ wire' = [wire EXCEPT ![s] = b]
  <2>1. CASE early[s] # <<>>
    <3>1. early' = [early EXCEPT ![s] = Tail(early[s])] /\ wire' = [wire EXCEPT ![s] = wire[s]]
      BY <2>1 DEF Copy, Take, DataTyped
    <3> QED BY <2>1, <3>1
  <2>2. CASE early[s] = <<>>
    <3>1. early' = [early EXCEPT ![s] = early[s]] /\ wire' = [wire EXCEPT ![s] = Tail(wire[s])]
      BY <2>2 DEF Copy, Take, DataTyped
    <3> QED BY <2>2, <3>1
  <2> QED BY <2>1, <2>2
<1>3. early[s] \o wire[s] # <<>> /\ h = IF end[Other(s)] = "gone" THEN got[Other(s)]
                                        ELSE got[Other(s)] \o <<Head(early[s] \o wire[s])>>
  BY <1>1 DEF Copy, Unread, Received
<1>4. a \in Seq(Items) /\ b \in Seq(Items)
  <2>1. CASE early[s] # <<>>
    BY <1>0, <1>2, <2>1, HeadTailProperties
  <2>2. CASE early[s] = <<>>
    <3>1. wire[s] # <<>>
      BY <1>0, <1>3, <2>2, ConcatEmptySeq
    <3> QED BY <1>0, <1>2, <2>2, <3>1, HeadTailProperties
  <2> QED BY <2>1, <2>2
<1>5. h \in Seq(Items) /\ Piece(h, a, b, sent[s], end[Other(s)], end[s])
  BY <1>0, <1>2, <1>3, <1>4, CopyPiece
<1>6. /\ got' = [got EXCEPT ![Other(s)] = h]
      /\ UNCHANGED <<sent, end>>
  BY <1>1 DEF Copy, peers
<1>7. DataTyped'
  BY <1>0, <1>2, <1>4, <1>5, <1>6 DEF DataTyped
<1>8. Flow(s)'
  BY <1>0, <1>2, <1>5, <1>6 DEF DataTyped, Flow
<1>9. Flow(Other(s))'
  <2>1. early'[Other(s)] = early[Other(s)] /\ wire'[Other(s)] = wire[Other(s)] /\ got'[s] = got[s]
    BY <1>0, <1>2, <1>6, TwoSides DEF DataTyped
  <2> QED BY <1>0, <1>6, <2>1, FlowTyped, TwoSides DEF Flow
<1> QED BY <1>7, <1>8, <1>9, TwoSides DEF StreamsFlow, Flow, Piece

(* Sending.                                                                *)
LEMMA SendFlow ==
    ASSUME DataTyped, StreamsFlow, NEW s \in Sides, Send(s)
    PROVE  DataTyped' /\ StreamsFlow'
<1>0. /\ got[Other(s)] \in Seq(Items) /\ early[s] \in Seq(Items) /\ wire[s] \in Seq(Items)
      /\ sent[s] \in Nat
      /\ Piece(got[Other(s)], early[s], wire[s], sent[s], end[Other(s)], end[s])
  BY FlowTyped DEF Flow
<1>1. sent[s] + 1 \in Items /\ sent[s] + 1 \in 0..MaxSent /\ end[s] # "gone"
  <2>1. sent[s] < MaxSent /\ end[s] = "open"
    BY DEF Send, Present
  <2> QED BY <1>0, <2>1, TunnelAssumption DEF Items
<1>2. PICK w, n : w = Append(wire[s], sent[s] + 1) /\ n = sent[s] + 1
  OBVIOUS
<1>3. w \in Seq(Items) /\ n \in 0..MaxSent /\ Piece(got[Other(s)], early[s], w, n, end[Other(s)], end[s])
  BY <1>0, <1>1, <1>2, SendPiece
<1>4. /\ sent' = [sent EXCEPT ![s] = n] /\ wire' = [wire EXCEPT ![s] = w]
      /\ UNCHANGED <<got, early, end>>
  BY <1>2 DEF Send
<1>5. DataTyped'
  BY <1>3, <1>4 DEF DataTyped
<1>6. ASSUME NEW t \in Sides
      PROVE  Flow(t)'
  <2>1. CASE t = s
    BY <1>3, <1>4, <2>1 DEF DataTyped, Flow
  <2>2. CASE t # s
    <3>1. sent'[t] = sent[t] /\ wire'[t] = wire[t]
      BY <1>4, <2>2 DEF DataTyped
    <3> QED BY <1>4, <3>1, FlowTyped DEF Flow
  <2> QED BY <2>1, <2>2
<1> QED BY <1>5, <1>6 DEF StreamsFlow, Flow, Piece

(* Ending, and leaving.                                                    *)
LEMMA EndFlow ==
    ASSUME DataTyped, StreamsFlow, end \in [Sides -> {"open", "finished", "gone"}],
           NEW s \in Sides, Finish(s) \/ Leave(s)
    PROVE  DataTyped' /\ StreamsFlow'
<1>0. /\ got[Other(s)] \in Seq(Items) /\ early[s] \in Seq(Items) /\ wire[s] \in Seq(Items)
      /\ sent[s] \in Nat
      /\ Piece(got[Other(s)], early[s], wire[s], sent[s], end[Other(s)], end[s])
  BY FlowTyped DEF Flow
<1>1. CASE Finish(s)
  <2>1. end' = [end EXCEPT ![s] = "finished"] /\ UNCHANGED <<got, early, wire, sent>> /\ end[s] = "open"
    BY <1>1 DEF Finish, Present, data
  <2>2. ASSUME NEW t \in Sides
        PROVE  (end'[t] = "gone") = (end[t] = "gone")
    BY <2>1
  <2>3. ASSUME NEW t \in Sides
        PROVE  Flow(t)'
    BY <2>1, <2>2, FlowTyped, TwoSides DEF Flow, Piece
  <2> QED BY <2>1, <2>3 DEF DataTyped, StreamsFlow, Flow, Piece
<1>2. CASE Leave(s)
  <2>1. PICK v \in {wire[s], <<>>} : wire' = [wire EXCEPT ![s] = v]
    <3>1. CASE wire' = wire
      BY <3>1 DEF DataTyped
    <3>2. CASE wire' = [wire EXCEPT ![s] = <<>>]
      BY <3>2
    <3> QED BY <1>2, <3>1, <3>2 DEF Leave
  <2>2. end' = [end EXCEPT ![s] = "gone"] /\ UNCHANGED <<got, early, sent>>
    BY <1>2 DEF Leave
  <2>3. v \in Seq(Items) /\ Piece(got[Other(s)], early[s], v, sent[s], end[Other(s)], "gone")
    BY <1>0, LeavePiece
  <2>4. DataTyped'
    BY <2>1, <2>2, <2>3 DEF DataTyped
  <2>5. Flow(s)'
    <3>1. end'[s] = "gone" /\ end'[Other(s)] = end[Other(s)] /\ wire'[s] = v
      BY <2>1, <2>2, TwoSides DEF DataTyped
    <3> QED BY <2>2, <2>3, <3>1 DEF Flow
  <2>6. Flow(Other(s))'
    <3>1. end'[s] = "gone" /\ wire'[Other(s)] = wire[Other(s)]
      BY <2>1, <2>2, TwoSides DEF DataTyped
    <3>2. Piece(got[s], early[Other(s)], wire[Other(s)], sent[Other(s)], end[s], end[Other(s)])
      BY FlowTyped, TwoSides DEF Flow
    <3> QED BY <2>2, <3>1, <3>2, TwoSides DEF Flow, Piece
  <2> QED BY <2>4, <2>5, <2>6, TwoSides DEF StreamsFlow, Flow, Piece
<1> QED BY <1>1, <1>2

----------------------------------------------------------------------------
(* The steps.                                                              *)

(* The ways the handler has of ending through its deferred calls.          *)
Ends ==
    \/ NegotiateFails \/ RequestFails \/ DialFails
    \/ ReplyFails \/ ForwardFails \/ PumpReturns

(* Those of failing before it has deferred what it needs to.               *)
GivesUp == ConnectFails \/ ExchangeFails \/ HijackFails

(* Those that leave the data alone and do not end it.                      *)
HandlerGoesOn == Negotiate \/ ReadRequest \/ Connected \/ Hijack \/ ReplySuccess

Stops == CloseClient \/ CloseBoth \/ Cancel

(* The actions, as the proofs by cases take them.                          *)
LEMMA NextCases ==
    ASSUME Next
    PROVE  \/ Ends \/ GivesUp \/ HandlerGoesOn \/ ForwardEarly \/ Stops
           \/ \E n \in 0..Len(wire["client"]) : ServeConnect(n)
           \/ \E n \in 0..Len(wire["remote"]) : Accepted(n)
           \/ ReadBackground
           \/ \E s \in Sides : Copy(s) \/ CopyEnds(s)
           \/ \E next \in {"greeted", "bad", "connect", "other"} : Ask(next)
           \/ \E a \in {"accept", "refusing", "refuse"} : Answer(a)
           \/ \E s \in Sides : Send(s) \/ Finish(s) \/ Leave(s)
BY DEF Next, Handler, Direction, Peers, Ends, GivesUp, HandlerGoesOn, Stops

(* A handler that ends has said no more than that it failed.               *)
LEMMA EndsReturns ==
    ASSUME TypeOK, Ends
    PROVE  /\ Return
           /\ reply' \in {reply, "failed"}
           /\ pc \in {"greeting", "request", "refuse", "reply", "early", "pump"}
<1>1. CASE NegotiateFails \/ RequestFails \/ DialFails
  BY <1>1 DEF NegotiateFails, RequestFails, DialFails, ReplyFailure
<1>2. CASE ReplyFails \/ ForwardFails \/ PumpReturns
  BY <1>2 DEF ReplyFails, ForwardFails, PumpReturns
<1> QED BY <1>1, <1>2 DEF Ends

(* It has deferred a Close of all that it owns then.                       *)
LEMMA OwnedDeferred ==
    ASSUME TypeOK, HandlerFollows, ConnsFollow, DefersFollow, Ends,
           NEW s \in Sides, conn[s] \in Owned
    PROVE  s \in deferred
<1>1. pc \in {"greeting", "request", "refuse", "reply", "early", "pump"}
  BY EndsReturns
<1>2. CASE pc \in {"reply", "early", "pump"}
  BY <1>2 DEF DefersFollow
<1>3. CASE pc \in {"greeting", "request", "refuse"}
  <2>1. s = "client"
    BY <1>3 DEF ConnsFollow, Owned, Sides
  <2>2. kind.listener = "socks5"
    <3>1. CASE pc = "refuse"
      <4>1. kind.listener \in {"http", "socks5"}
        BY DEF TypeOK, Protocols
      <4> QED BY <2>1, <3>1, <4>1 DEF ConnsFollow, Owned
    <3> QED BY <1>3, <3>1 DEF HandlerFollows
  <2> QED BY <2>1, <2>2 DEF DefersFollow
<1> QED BY <1>1, <1>2, <1>3

(* What a connection is when the handler has returned.                     *)
LEMMA Returned ==
    ASSUME TypeOK, HandlerFollows, ConnsFollow, DefersFollow, Ends, NEW s \in Sides
    PROVE  /\ conn'[s] \in {"none", "server", "closed"}
           /\ conn[s] \in {"none", "server"} => conn'[s] = conn[s]
           /\ conn'[s] \in {"none", "server"} => conn'[s] = conn[s]
<1>1. conn[s] \in {"none", "server", "open", "eof", "closed"}
  BY DEF TypeOK
<1>2. conn'[s] = IF s \in deferred /\ conn[s] \in Owned THEN "closed" ELSE conn[s]
  BY EndsReturns DEF Return
<1> QED BY <1>1, <1>2, OwnedDeferred DEF Owned

(* A handler that gives up has closed the connection to the remote side    *)
(* if there was one, and touched nothing else.                             *)
LEMMA Abandoned ==
    ASSUME TypeOK, GivesUp
    PROVE  /\ UNCHANGED <<peers, data, deferred, copying, contexts>>
           /\ reply' \in {reply, "failed"}
           /\ \/ pc = "dial" /\ pc' = "refuse" /\ reply' = reply /\ conn' = conn
              \/ pc = "exchange" /\ pc' = "refuse" /\ reply' = reply
                 /\ conn' = [conn EXCEPT !["remote"] = "closed"]
              \/ pc = "hijack" /\ pc' = "ended"
                 /\ conn' = [conn EXCEPT !["remote"] = "closed"]
BY DEF GivesUp, ConnectFails, ExchangeFails, HijackFails

(* Steps that do not touch the data.                                       *)
LEMMA Apart ==
    ASSUME DataTyped, StreamsFlow, UNCHANGED <<sent, end, data>>
    PROVE  DataTyped' /\ StreamsFlow'
BY DEF data, DataTyped, StreamsFlow, Counts

(* Every step keeps the streams in one piece.                              *)
LEMMA FlowStep ==
    ASSUME TypeOK, StreamsFlow, Next
    PROVE  DataTyped' /\ StreamsFlow'
<1>0. DataTyped
  BY DEF TypeOK, DataTyped, Items
<1>1. CASE Ends \/ GivesUp
  BY <1>0, <1>1, EndsReturns, Abandoned, Apart DEF Return, peers
<1>2. CASE HandlerGoesOn
  <2>1. UNCHANGED <<sent, end, data>>
    BY <1>2 DEF HandlerGoesOn, Negotiate, ReadRequest, Connected, Hijack, ReplySuccess, peers
  <2> QED BY <1>0, <2>1, Apart
<1>3. CASE ForwardEarly
  BY <1>0, <1>3, ForwardFlow
<1>4. CASE Stops
  BY <1>0, <1>4, Apart DEF Stops, CloseClient, CloseBoth, Cancel, peers
<1>5. ASSUME NEW n \in 0..Len(wire["client"]), ServeConnect(n)
      PROVE  DataTyped' /\ StreamsFlow'
  BY <1>0, <1>5, ReadAheadFlow, TwoSides DEF ServeConnect, peers
<1>6. ASSUME NEW n \in 0..Len(wire["remote"]), Accepted(n)
      PROVE  DataTyped' /\ StreamsFlow'
  BY <1>0, <1>6, ReadAheadFlow, TwoSides DEF Accepted, peers
<1>7. CASE ReadBackground
  <2>1. UNCHANGED <<sent, end, got>>
    BY <1>7 DEF ReadBackground, peers
  <2>2. CASE wire["client"] # <<>> /\ ReadAhead("client", 1)
    <3>1. wire["client"] \in Seq(Items)
      BY <1>0, TwoSides DEF DataTyped
    <3>2. 1 \in 0..Len(wire["client"])
      BY <2>2, <3>1, EmptySeq
    <3> QED BY <1>0, <2>1, <2>2, <3>2, ReadAheadFlow, TwoSides
  <2>3. CASE UNCHANGED <<early, wire>>
    BY <1>0, <2>1, <2>3, Apart DEF data
  <2> QED BY <1>7, <2>2, <2>3 DEF ReadBackground
<1>8. ASSUME NEW s \in Sides, Copy(s) \/ CopyEnds(s)
      PROVE  DataTyped' /\ StreamsFlow'
  <2>1. CASE Copy(s)
    BY <1>0, <2>1, CopyFlow
  <2>2. CASE CopyEnds(s)
    BY <1>0, <2>2, Apart DEF CopyEnds, peers
  <2> QED BY <1>8, <2>1, <2>2
<1>9. ASSUME NEW next, Ask(next)
      PROVE  DataTyped' /\ StreamsFlow'
  BY <1>0, <1>9, Apart DEF Ask
<1>10. ASSUME NEW a, Answer(a)
       PROVE  DataTyped' /\ StreamsFlow'
  BY <1>0, <1>10, Apart DEF Answer
<1>11. ASSUME NEW s \in Sides, Send(s) \/ Finish(s) \/ Leave(s)
       PROVE  DataTyped' /\ StreamsFlow'
  BY <1>0, <1>11, SendFlow, EndFlow DEF TypeOK
<1> QED BY <1>1, <1>2, <1>3, <1>4, <1>5, <1>6, <1>7, <1>8, <1>9, <1>10, <1>11, NextCases

(* The rest of the types: the peers, the handler, its connections.         *)
PeersTyped ==
    /\ kind \in [listener : Protocols, upstream : Protocols]
    /\ hello \in {"none", "greeted", "bad", "connect", "other"}
    /\ answer \in {"none", "accept", "refusing", "refuse"}
    /\ end \in [Sides -> {"open", "finished", "gone"}]

HandlerTyped ==
    /\ pc \in {"greeting", "request", "header", "dial", "exchange", "refuse", "hijack", "reply",
               "early", "pump", "ended"}
    /\ reply \in {"none", "method", "failed", "ok"}
    /\ conn \in [Sides -> {"none", "server", "open", "eof", "closed"}]
    /\ deferred \subseteq Sides
    /\ copying \in [Sides -> BOOLEAN]
    /\ cancelled \in BOOLEAN
    /\ request \in {"none", "watched", "read", "cancelled"}

(* Types are kept.                                                         *)
LEMMA TypeStep ==
    ASSUME TypeOK, StreamsFlow, Next
    PROVE  TypeOK'
<1>0. DataTyped' /\ PeersTyped /\ HandlerTyped
  BY FlowStep DEF TypeOK, PeersTyped, HandlerTyped
<1>1. CASE Ends
  <2>1. Return /\ reply' \in {reply, "failed"}
    BY <1>1, EndsReturns
  <2>2. conn' \in [Sides -> {"none", "server", "open", "eof", "closed"}]
    BY <1>0, <2>1 DEF Return, HandlerTyped
  <2>3. PeersTyped' /\ HandlerTyped'
    BY <1>0, <2>1, <2>2 DEF Return, peers, contexts, PeersTyped, HandlerTyped
  <2> QED BY <1>0, <2>3 DEF TypeOK, DataTyped, Items, PeersTyped, HandlerTyped
<1>13. CASE GivesUp
  <2>1. conn' \in [Sides -> {"none", "server", "open", "eof", "closed"}]
    BY <1>0, <1>13, Abandoned DEF HandlerTyped
  <2>2. pc' \in {"refuse", "ended"} /\ reply' \in {reply, "failed"}
        /\ UNCHANGED <<peers, deferred, copying, contexts>>
    BY <1>13, Abandoned
  <2>3. PeersTyped' /\ HandlerTyped'
    BY <1>0, <2>1, <2>2 DEF peers, contexts, PeersTyped, HandlerTyped
  <2> QED BY <1>0, <2>3 DEF TypeOK, DataTyped, Items, PeersTyped, HandlerTyped
<1>2. ASSUME PeersTyped', HandlerTyped'
      PROVE  TypeOK'
  BY <1>0, <1>2 DEF TypeOK, DataTyped, Items, PeersTyped, HandlerTyped
<1>3. CASE Negotiate \/ ReadRequest \/ Connected \/ Hijack
  <2>1. PeersTyped' /\ HandlerTyped'
    BY <1>0, <1>3 DEF Negotiate, ReadRequest, Connected, Hijack, Defer,
       peers, contexts, PeersTyped, HandlerTyped
  <2> QED BY <1>2, <2>1
<1>4. CASE ReplySuccess \/ ForwardEarly
  <2>1. copying' \in [Sides -> BOOLEAN]
    BY <1>0, <1>4 DEF ReplySuccess, ForwardEarly, HandlerTyped
  <2>2. PeersTyped' /\ HandlerTyped'
    BY <1>0, <1>4, <2>1 DEF ReplySuccess, ForwardEarly, peers, contexts, PeersTyped, HandlerTyped
  <2> QED BY <1>2, <2>2
<1>5. CASE Stops
  <2>0. conn' \in [Sides -> {"none", "server", "open", "eof", "closed"}]
    BY <1>0, <1>5 DEF Stops, CloseClient, CloseBoth, Cancel, HandlerTyped
  <2>1. /\ UNCHANGED <<kind, hello, answer, end, pc, reply, deferred, copying, request>>
        /\ cancelled' \in {cancelled, TRUE}
    BY <1>5 DEF Stops, CloseClient, CloseBoth, Cancel, peers, contexts
  <2>2. cancelled' \in BOOLEAN
    BY <1>0, <2>1 DEF HandlerTyped
  <2>3. PeersTyped' /\ HandlerTyped'
    BY <1>0, <2>0, <2>1, <2>2 DEF PeersTyped, HandlerTyped
  <2> QED BY <1>2, <2>3
<1>6. ASSUME NEW n, ServeConnect(n) \/ Accepted(n)
      PROVE  TypeOK'
  <2>1. PeersTyped' /\ HandlerTyped'
    <3>1. CASE ServeConnect(n)
      BY <1>0, <3>1 DEF ServeConnect, peers, contexts, PeersTyped, HandlerTyped
    <3>2. CASE Accepted(n)
      <4>1. pc' \in {"hijack", "reply"} /\ deferred' \subseteq Sides
        BY <1>0, <3>2 DEF Accepted, Dialed, Defer, HandlerTyped, Sides
      <4> QED BY <1>0, <3>2, <4>1 DEF Accepted, peers, contexts, PeersTyped, HandlerTyped
    <3> QED BY <1>6, <3>1, <3>2
  <2> QED BY <1>2, <2>1
<1>7. CASE ReadBackground
  <2>1. PeersTyped' /\ HandlerTyped'
    BY <1>0, <1>7 DEF ReadBackground, peers, PeersTyped, HandlerTyped
  <2> QED BY <1>2, <2>1
<1>8. ASSUME NEW s \in Sides, Copy(s)
      PROVE  TypeOK'
  <2>1. PeersTyped' /\ HandlerTyped'
    BY <1>0, <1>8 DEF Copy, peers, contexts, PeersTyped, HandlerTyped
  <2> QED BY <1>2, <2>1
<1>9. ASSUME NEW s \in Sides, CopyEnds(s)
      PROVE  TypeOK'
  <2>1. conn' \in [Sides -> {"none", "server", "open", "eof", "closed"}]
    BY <1>0, <1>9 DEF CopyEnds, WithEnd, HandlerTyped
  <2>2. copying' \in [Sides -> BOOLEAN]
    BY <1>0, <1>9 DEF CopyEnds, HandlerTyped
  <2>3. PeersTyped' /\ HandlerTyped'
    BY <1>0, <1>9, <2>1, <2>2 DEF CopyEnds, peers, contexts, PeersTyped, HandlerTyped
  <2> QED BY <1>2, <2>3
<1>10. ASSUME NEW next \in {"greeted", "bad", "connect", "other"}, Ask(next)
       PROVE  TypeOK'
  <2>1. PeersTyped' /\ HandlerTyped'
    BY <1>0, <1>10 DEF Ask, contexts, PeersTyped, HandlerTyped
  <2> QED BY <1>2, <2>1
<1>11. ASSUME NEW a \in {"accept", "refusing", "refuse"}, Answer(a)
       PROVE  TypeOK'
  <2>1. PeersTyped' /\ HandlerTyped'
    BY <1>0, <1>11 DEF Answer, contexts, PeersTyped, HandlerTyped
  <2> QED BY <1>2, <2>1
<1>12. ASSUME NEW s \in Sides, Send(s) \/ Finish(s) \/ Leave(s)
       PROVE  TypeOK'
  <2>1. PeersTyped' /\ HandlerTyped'
    BY <1>0, <1>12 DEF Send, Finish, Leave, contexts, PeersTyped, HandlerTyped
  <2> QED BY <1>2, <2>1
<1> QED BY <1>1, <1>3, <1>4, <1>5, <1>6, <1>7, <1>8, <1>9, <1>10, <1>11, <1>12, <1>13, NextCases
        DEF HandlerGoesOn

(* Every step keeps what the handler's progress says.                      *)
LEMMA HandlerStep ==
    ASSUME TypeOK, HandlerFollows, ConnsFollow, Next
    PROVE  HandlerFollows'
<1>1. CASE Ends
  <2>1. /\ pc' = "ended" /\ reply' \in {reply, "failed"}
        /\ UNCHANGED <<kind, got, copying>>
    BY <1>1, EndsReturns DEF Return, peers, data
  <2>2. pc # "pump" => got["client"] = <<>> \/ reply = "ok"
    BY DEF HandlerFollows
  <2>3. CASE reply' = reply
    <3>1. \A s \in Sides : ~copying[s]
      <4>1. CASE pc = "pump"
        BY <1>1, <4>1 DEF Ends, NegotiateFails, RequestFails, DialFails,
           ReplyFails, ForwardFails, PumpReturns, BothOver
      <4>2. CASE pc # "pump"
        BY <4>2 DEF HandlerFollows
      <4> QED BY <4>1, <4>2
    <3> QED BY <2>1, <2>3, <3>1 DEF HandlerFollows
  <2>4. CASE reply' # reply
    <3>1. pc \in {"request", "refuse"}
      BY <1>1, <2>4 DEF Ends, NegotiateFails, RequestFails, DialFails,
         ReplyFails, ForwardFails, PumpReturns
    <3> QED BY <2>1, <3>1 DEF HandlerFollows
  <2> QED BY <2>3, <2>4
<1>14. CASE GivesUp
  <2>1. pc \in {"dial", "exchange", "hijack"} /\ pc' \in {"refuse", "ended"}
        /\ (pc' = "refuse" => reply' = reply) /\ reply' \in {reply, "failed"}
        /\ UNCHANGED <<kind, got, copying>>
    BY <1>14, Abandoned DEF peers, data
  <2> QED BY <2>1 DEF HandlerFollows
<1>2. CASE Negotiate \/ ReadRequest \/ Connected \/ Hijack
  BY <1>2 DEF Negotiate, ReadRequest, Connected, Hijack, peers, data, HandlerFollows
<1>3. CASE ReplySuccess
  <2>1. kind.listener = "http" \/ kind.listener # "http"
    OBVIOUS
  <2> QED BY <1>3, <2>1 DEF ReplySuccess, peers, data, HandlerFollows
<1>4. CASE ForwardEarly
  <2>1. got'["client"] = got["client"]
    BY <1>4, TwoSides DEF ForwardEarly, TypeOK
  <2> QED BY <1>4, <2>1 DEF ForwardEarly, peers, HandlerFollows
<1>5. CASE Stops
  BY <1>5 DEF Stops, CloseClient, CloseBoth, Cancel, peers, data, HandlerFollows
<1>6. ASSUME NEW n, ServeConnect(n)
      PROVE  HandlerFollows'
  BY <1>6 DEF ServeConnect, peers, HandlerFollows
<1>7. ASSUME NEW n, Accepted(n)
      PROVE  HandlerFollows'
  BY <1>7 DEF Accepted, Dialed, peers, HandlerFollows
<1>8. CASE ReadBackground
  BY <1>8 DEF ReadBackground, peers, HandlerFollows
<1>9. ASSUME NEW s \in Sides, Copy(s)
      PROVE  HandlerFollows'
  <2>1. pc = "pump" /\ reply = "ok"
    BY <1>9 DEF Copy, HandlerFollows
  <2> QED BY <1>9, <2>1 DEF Copy, peers, HandlerFollows
<1>10. ASSUME NEW s \in Sides, CopyEnds(s)
       PROVE  HandlerFollows'
  <2>1. pc = "pump" /\ reply = "ok"
    BY <1>10 DEF CopyEnds, HandlerFollows
  <2> QED BY <1>10, <2>1 DEF CopyEnds, peers, data, HandlerFollows
<1>11. ASSUME NEW next, Ask(next)
       PROVE  HandlerFollows'
  BY <1>11 DEF Ask, data, HandlerFollows
<1>12. ASSUME NEW a, Answer(a)
       PROVE  HandlerFollows'
  BY <1>12 DEF Answer, data, HandlerFollows
<1>13. ASSUME NEW s \in Sides, Send(s) \/ Finish(s) \/ Leave(s)
       PROVE  HandlerFollows'
  BY <1>13 DEF Send, Finish, Leave, data, HandlerFollows
<1> QED BY <1>1, <1>2, <1>3, <1>4, <1>5, <1>6, <1>7, <1>8, <1>9, <1>10, <1>11, <1>12, <1>13,
        <1>14, NextCases DEF HandlerGoesOn

(* Connections that stay as they are, with the handler where it was.       *)
LEMMA ConnsApart ==
    ASSUME ConnsFollow, UNCHANGED <<kind, pc, conn>>, Done => Done',
           copying'["remote"] = copying["remote"]
    PROVE  ConnsFollow'
BY DEF ConnsFollow

(* Every step keeps what is said of the connections.                       *)
LEMMA ConnsStep ==
    ASSUME TypeOK, HandlerFollows, ConnsFollow, DefersFollow, Next
    PROVE  ConnsFollow'
<1>0. /\ DOMAIN conn = Sides
      /\ \A s \in Sides : conn[s] \in {"none", "server", "open", "eof", "closed"}
      /\ "client" \in Sides /\ "remote" \in Sides
  BY TwoSides DEF TypeOK
<1>1. CASE Ends
  <2>1. Return /\ pc' = "ended" /\ kind' = kind /\ UNCHANGED contexts
    BY <1>1, EndsReturns DEF Return, peers
  <2>2. \A s \in Sides : /\ conn'[s] \in {"none", "server", "closed"}
                         /\ conn'[s] \in {"none", "server"} => conn'[s] = conn[s]
    BY <1>1, Returned
  <2> QED BY <1>0, <2>1, <2>2 DEF ConnsFollow, Owned
<1>18. CASE GivesUp
  <2>1. /\ UNCHANGED <<kind, copying, contexts>>
        /\ pc \in {"dial", "exchange", "hijack"} /\ pc' \in {"refuse", "ended"}
        /\ pc' = "ended" => pc = "hijack"
        /\ conn'["client"] = conn["client"]
        /\ conn'["remote"] = IF pc = "dial" THEN conn["remote"] ELSE "closed"
    BY <1>0, <1>18, Abandoned DEF peers
  <2>2. pc = "hijack" => conn["client"] = "server"
    BY DEF HandlerFollows, ConnsFollow
  <2>3. pc = "dial" => conn["remote"] = "none"
    BY DEF ConnsFollow
  <2> QED BY <1>0, <2>1, <2>2, <2>3 DEF ConnsFollow, Owned, Sides
<1>2. CASE Negotiate \/ ReadRequest
  BY <1>2 DEF Negotiate, ReadRequest, peers, contexts, ConnsFollow, Done, HandlerFollows
<1>3. CASE Connected
  <2>1. conn'["remote"] = "open" /\ conn'["client"] = conn["client"]
    BY <1>0, <1>3 DEF Connected
  <2> QED BY <1>0, <1>3, <2>1 DEF Connected, peers, contexts, ConnsFollow, Done, Sides
<1>4. CASE Hijack
  <2>1. conn'["client"] = "open" /\ conn'["remote"] = conn["remote"]
    BY <1>0, <1>4 DEF Hijack
  <2> QED BY <1>0, <1>4, <2>1 DEF Hijack, peers, contexts, ConnsFollow, Done, Sides
<1>5. CASE ReplySuccess
  <2>1. conn' = conn /\ kind' = kind /\ UNCHANGED contexts /\ pc = "reply" /\ pc' \in {"early", "pump"}
    BY <1>5 DEF ReplySuccess, peers
  <2>2. pc' = "early" => kind.listener = "http"
    BY <1>5 DEF ReplySuccess
  <2>3. conn["client"] \in {"server", "open"} /\ conn["client"] # "server" /\ conn["remote"] = "open"
    BY <1>5, <2>1 DEF ReplySuccess, CanWrite, ConnsFollow
  <2> QED BY <1>0, <2>1, <2>2, <2>3 DEF ConnsFollow, Done, contexts, Owned, Sides
<1>6. CASE ForwardEarly
  BY <1>0, <1>6 DEF ForwardEarly, peers, contexts, ConnsFollow, HandlerFollows, Done, Sides
<1>7. CASE CloseClient
  <2>1. conn'["client"] = "closed" /\ conn'["remote"] = conn["remote"] /\ Done'
    BY <1>0, <1>7 DEF CloseClient, Done, contexts
  <2>2. pc # "ended"
    BY <1>7 DEF CloseClient, ConnsFollow, Sides
  <2> QED BY <1>0, <1>7, <2>1, <2>2 DEF CloseClient, peers, ConnsFollow, Sides
<1>8. CASE CloseBoth
  <2>1. conn'["client"] = "closed" /\ conn'["remote"] = "closed"
    BY <1>0, <1>8 DEF CloseBoth
  <2>2. pc' = "pump" /\ Done'
    BY <1>8 DEF CloseBoth, contexts, Done
  <2> QED BY <2>1, <2>2 DEF ConnsFollow, Owned, Sides
<1>9. CASE Cancel
  BY <1>9, ConnsApart DEF Cancel, peers, Done
<1>10. ASSUME NEW n, ServeConnect(n)
       PROVE  ConnsFollow'
  BY <1>0, <1>10 DEF ServeConnect, peers, contexts, ConnsFollow, HandlerFollows, Done
<1>11. ASSUME NEW n, Accepted(n)
       PROVE  ConnsFollow'
  <2>1. /\ pc = "exchange" /\ UNCHANGED <<kind, conn, copying, cancelled, request>>
        /\ pc' = IF kind.listener = "http" THEN "hijack" ELSE "reply"
    BY <1>11 DEF Accepted, Dialed, peers, contexts
  <2>2. kind.listener \in {"http", "socks5"}
    BY DEF TypeOK, Protocols
  <2> QED BY <1>0, <2>1, <2>2 DEF ConnsFollow, Done
<1>12. CASE ReadBackground
  BY <1>12, ConnsApart DEF ReadBackground, peers, Done
<1>13. ASSUME NEW s \in Sides, Copy(s)
       PROVE  ConnsFollow'
  BY <1>13, ConnsApart DEF Copy, peers, contexts, Done
<1>14. ASSUME NEW s \in Sides, CopyEnds(s)
       PROVE  ConnsFollow'
  <2>1. /\ pc = "pump" /\ UNCHANGED <<kind, pc, contexts>>
        /\ copying' = [copying EXCEPT ![s] = FALSE]
        /\ conn' = WithEnd(Other(s))
    BY <1>14 DEF CopyEnds, HandlerFollows, peers
  <2>2. CASE s = "remote" /\ conn["client"] = "open"
    <3>1. conn' = [conn EXCEPT !["client"] = "eof"]
      BY <2>1, <2>2, TwoSides DEF WithEnd
    <3>2. conn'["client"] = "eof" /\ conn'["remote"] = conn["remote"]
      BY <1>0, <3>1
    <3>3. ~copying'["remote"]
      BY <1>0, <2>1, <2>2 DEF TypeOK
    <3> QED BY <1>0, <2>1, <3>2, <3>3 DEF ConnsFollow, Done, contexts, Sides
  <2>3. CASE ~(s = "remote" /\ conn["client"] = "open")
    <3>1. conn' = conn
      BY <2>1, <2>3 DEF WithEnd, Other, Sides
    <3>2. ~copying["remote"] => ~copying'["remote"]
      BY <1>0, <2>1 DEF TypeOK
    <3> QED BY <2>1, <3>1, <3>2 DEF ConnsFollow, Done, contexts
  <2> QED BY <2>2, <2>3
<1>15. ASSUME NEW next, Ask(next)
       PROVE  ConnsFollow'
  BY <1>15, ConnsApart DEF Ask, contexts, Done
<1>16. ASSUME NEW a, Answer(a)
       PROVE  ConnsFollow'
  BY <1>16, ConnsApart DEF Answer, contexts, Done
<1>17. ASSUME NEW s \in Sides, Send(s) \/ Finish(s) \/ Leave(s)
       PROVE  ConnsFollow'
  BY <1>17, ConnsApart DEF Send, Finish, Leave, contexts, Done
<1> QED BY <1>1, <1>2, <1>3, <1>4, <1>5, <1>6, <1>7, <1>8, <1>9, <1>10, <1>11, <1>12, <1>13,
        <1>14, <1>15, <1>16, <1>17, <1>18, NextCases DEF HandlerGoesOn, Stops

(* Every step keeps what is said of the deferred calls.                    *)
LEMMA DefersStep ==
    ASSUME TypeOK, HandlerFollows, DefersFollow, Next
    PROVE  DefersFollow'
<1>1. CASE UNCHANGED <<kind, deferred>> /\ (pc' \in {"reply", "early", "pump"} => pc \in {"reply", "early", "pump"})
  BY <1>1 DEF DefersFollow
<1>2. CASE Ends \/ GivesUp
  BY <1>1, <1>2, EndsReturns, Abandoned DEF Return, peers
<1>3. CASE Negotiate \/ ReadRequest \/ Connected \/ ReplySuccess \/ ForwardEarly
  BY <1>1, <1>3 DEF Negotiate, ReadRequest, Connected, ReplySuccess, ForwardEarly, peers
<1>4. CASE Hijack
  <2>1. kind' = kind /\ deferred' = Sides
    BY <1>4 DEF Hijack, Defer, peers, TypeOK
  <2> QED BY <2>1, TwoSides DEF DefersFollow
<1>5. ASSUME NEW n, Accepted(n)
      PROVE  DefersFollow'
  <2>1. CASE kind.listener = "http"
    BY <1>1, <1>5, <2>1 DEF Accepted, Dialed, Defer, peers
  <2>2. CASE kind.listener # "http"
    <3>1. kind.listener = "socks5" /\ kind' = kind /\ deferred' = deferred \cup {"remote"}
      BY <1>5, <2>2 DEF Accepted, Dialed, Defer, peers, TypeOK, Protocols
    <3>2. deferred' = Sides
      BY <3>1 DEF DefersFollow, TypeOK, Sides
    <3> QED BY <3>2, TwoSides DEF DefersFollow
  <2> QED BY <2>1, <2>2
<1>6. CASE Stops \/ ReadBackground
  BY <1>1, <1>6 DEF Stops, CloseClient, CloseBoth, Cancel, ReadBackground, peers
<1>7. ASSUME NEW n, ServeConnect(n)
      PROVE  DefersFollow'
  BY <1>1, <1>7 DEF ServeConnect, peers
<1>8. ASSUME NEW s \in Sides, Copy(s) \/ CopyEnds(s)
      PROVE  DefersFollow'
  BY <1>1, <1>8 DEF Copy, CopyEnds, peers
<1>9. ASSUME NEW x, Ask(x) \/ Answer(x)
      PROVE  DefersFollow'
  BY <1>1, <1>9 DEF Ask, Answer
<1>10. ASSUME NEW s \in Sides, Send(s) \/ Finish(s) \/ Leave(s)
       PROVE  DefersFollow'
  BY <1>1, <1>10 DEF Send, Finish, Leave
<1> QED BY <1>2, <1>3, <1>4, <1>5, <1>6, <1>7, <1>8, <1>9, <1>10, NextCases DEF HandlerGoesOn

(* What has been cut off stays cut off.                                    *)
LEMMA UndisturbedBefore ==
    ASSUME TypeOK, Next, Undisturbed'
    PROVE  Undisturbed
<1>1. (cancelled => cancelled') /\ (request = "cancelled" => request' = "cancelled")
  <2>1. CASE Ends \/ GivesUp
    BY <2>1, EndsReturns, Abandoned DEF Return, contexts
  <2>2. CASE ReadBackground
    BY <2>2 DEF ReadBackground
  <2>3. CASE Stops
    <3>1. CASE CloseClient \/ CloseBoth
      BY <3>1 DEF CloseClient, CloseBoth, contexts
    <3>2. CASE Cancel
      BY <3>2, Zenon DEF Cancel
    <3> QED BY <2>3, <3>1, <3>2 DEF Stops
  <2>4. CASE ~Ends /\ ~GivesUp /\ ~ReadBackground /\ ~Stops
    <3>1. contexts' = contexts
      BY <2>4, NextCases DEF HandlerGoesOn, Negotiate, ReadRequest, Connected, Hijack, ReplySuccess,
         ForwardEarly, ServeConnect, Accepted, Copy, CopyEnds, Ask, Answer, Send, Finish, Leave
    <3> QED BY <3>1 DEF contexts
  <2> QED BY <2>1, <2>2, <2>3, <2>4
<1>2. \A t \in Sides : end[t] = "gone" => end'[t] = "gone"
  <2>1. CASE \E s \in Sides : Finish(s) \/ Leave(s)
    BY <2>1 DEF Finish, Leave, Present, TypeOK
  <2>2. CASE Ends \/ GivesUp
    BY <2>2, EndsReturns, Abandoned DEF Return, peers
  <2>3. CASE ~(\E s \in Sides : Finish(s) \/ Leave(s)) /\ ~Ends /\ ~GivesUp
    <3>1. end' = end
      BY <2>3, NextCases DEF HandlerGoesOn, Negotiate, ReadRequest, Connected, Hijack, ReplySuccess,
         ForwardEarly, ServeConnect, Accepted, Copy, CopyEnds, Ask, Answer, Send, ReadBackground,
         Stops, CloseClient, CloseBoth, Cancel, peers
    <3> QED BY <3>1
  <2> QED BY <2>1, <2>2, <2>3
<1>3. Done => Done'
  BY <1>1 DEF Done
<1> QED BY <1>2, <1>3 DEF Undisturbed

(* When nothing is unread, both places are empty.                          *)
LEMMA NothingUnread ==
    ASSUME TypeOK, NEW s \in Sides, Unread(s) = <<>>
    PROVE  early[s] = <<>> /\ wire[s] = <<>>
BY ConcatEqualIffEmpty DEF TypeOK, Unread

(* A direction, when it is over.                                           *)
Over(s) == (pc = "pump" /\ ~copying[s]) \/ (pc = "ended" /\ reply = "ok")

Delivered(s) == Ended(s) /\ early[s] = <<>> /\ wire[s] = <<>>

(* Every step keeps what is said of directions that are over.              *)
LEMMA DirectionsStep ==
    ASSUME TypeOK, HandlerFollows, ConnsFollow, DirectionsEndWhole, Next
    PROVE  DirectionsEndWhole'
<1> SUFFICES ASSUME Undisturbed', NEW t \in Sides, Over(t)'
             PROVE  Delivered(t)'
  BY DEF DirectionsEndWhole, Over, Delivered
<1>0. Undisturbed /\ (Over(t) => Delivered(t))
  BY UndisturbedBefore DEF DirectionsEndWhole, Over, Delivered
<1>1. CASE Ends
  <2>1. Return /\ reply' \in {reply, "failed"}
    BY <1>1, EndsReturns
  <2>2. reply' = "ok" /\ pc' = "ended" /\ UNCHANGED <<end, early, wire>>
    BY <2>1 DEF Return, Over, peers, data
  <2>3. reply = "ok" /\ pc \in {"early", "pump"}
    BY <2>1, <2>2, <1>1, EndsReturns DEF HandlerFollows
  <2>4. CASE pc = "early"
    <3>1. WriteFails("remote")
      BY <1>1, <2>4 DEF Ends, NegotiateFails, RequestFails, DialFails, ReplyFails,
         ForwardFails, PumpReturns
    <3>2. conn["remote"] = "open"
      BY <2>4 DEF ConnsFollow
    <3>3. end["remote"] = "gone"
      BY <3>1, <3>2 DEF WriteFails, CanWrite
    <3> QED BY <1>0, <3>3, TwoSides DEF Undisturbed
  <2>5. CASE pc = "pump"
    <3>1. ~copying[t]
      BY <1>1, <2>5 DEF Ends, NegotiateFails, RequestFails, DialFails, ReplyFails,
         ForwardFails, PumpReturns, BothOver
    <3> QED BY <1>0, <2>2, <2>5, <3>1 DEF Over, Delivered, Ended
  <2> QED BY <2>3, <2>4, <2>5
<1>13. CASE GivesUp
  <2>1. pc \in {"dial", "exchange", "hijack"} /\ pc' \in {"refuse", "ended"} /\ reply' \in {reply, "failed"}
    BY <1>13, Abandoned
  <2> QED BY <2>1 DEF Over, HandlerFollows
<1>2. CASE HandlerGoesOn \/ ForwardEarly
  <2>1. pc' \in {"request", "dial", "exchange", "reply", "early"}
        \/ (pc' = "pump" /\ copying' = [s \in Sides |-> TRUE])
    BY <1>2 DEF HandlerGoesOn, Negotiate, ReadRequest, Connected, Hijack, ReplySuccess, ForwardEarly
  <2> QED BY <2>1 DEF Over
<1>3. CASE Stops
  BY <1>0, <1>3 DEF Stops, CloseClient, CloseBoth, Cancel, peers, data, Over, Delivered, Ended
<1>4. ASSUME NEW n, ServeConnect(n) \/ Accepted(n)
      PROVE  FALSE
  BY <1>4 DEF ServeConnect, Accepted, Dialed, Over
<1>5. CASE ReadBackground
  BY <1>5 DEF ReadBackground, Over
<1>6. ASSUME NEW s \in Sides, Copy(s)
      PROVE  Delivered(t)'
  <2>1. pc = "pump" /\ copying[s] /\ UNCHANGED <<pc, copying, end>>
    BY <1>6 DEF Copy, HandlerFollows, peers
  <2>2. t # s /\ Over(t)
    BY <2>1 DEF Over
  <2>3. early'[t] = early[t] /\ wire'[t] = wire[t]
    BY <1>6, <2>2 DEF Copy, Take, TypeOK
  <2> QED BY <1>0, <2>1, <2>2, <2>3 DEF Delivered, Ended
<1>7. ASSUME NEW s \in Sides, CopyEnds(s)
      PROVE  Delivered(t)'
  <2>1. /\ pc = "pump" /\ copying[s] /\ UNCHANGED <<pc, end, early, wire>>
        /\ copying' = [copying EXCEPT ![s] = FALSE]
    BY <1>7 DEF CopyEnds, HandlerFollows, peers, data
  <2>2. CASE t # s
    <3>1. Over(t)
      BY <2>1, <2>2 DEF Over, TypeOK
    <3> QED BY <1>0, <2>1, <3>1 DEF Delivered, Ended
  <2>3. CASE t = s
    <3>1. conn["client"] \in {"open", "eof", "closed"} /\ conn["remote"] \in {"open", "closed"}
          /\ (conn["client"] = "eof" => ~copying["remote"])
      BY <2>1 DEF ConnsFollow
    <3>2. \A u \in Sides : conn[u] # "closed" /\ end[u] # "gone"
      BY <1>0, <2>1 DEF ConnsFollow, Undisturbed
    <3>3. ~WriteFails(Other(s))
      <4>1. CASE s = "client"
        BY <3>1, <3>2, <4>1, TwoSides DEF WriteFails, CanWrite
      <4>2. CASE s = "remote"
        BY <2>1, <3>1, <3>2, <4>2, TwoSides DEF WriteFails, CanWrite
      <4> QED BY <4>1, <4>2 DEF Sides
    <3>4. Unread(s) = <<>> /\ Ended(s)
      BY <1>7, <3>2, <3>3 DEF CopyEnds
    <3> QED BY <2>1, <2>3, <3>4, NothingUnread DEF Delivered, Ended
  <2> QED BY <2>2, <2>3
<1>8. ASSUME NEW next, Ask(next)
      PROVE  Delivered(t)'
  BY <1>0, <1>8 DEF Ask, data, Over, Delivered, Ended
<1>9. ASSUME NEW a, Answer(a)
      PROVE  Delivered(t)'
  BY <1>0, <1>9 DEF Answer, data, Over, Delivered, Ended
<1>10. ASSUME NEW s \in Sides, Send(s)
       PROVE  Delivered(t)'
  <2>1. end[s] = "open" /\ UNCHANGED <<pc, copying, reply, end, early>>
        /\ wire' = [wire EXCEPT ![s] = Append(wire[s], sent[s] + 1)]
    BY <1>10 DEF Send, Present
  <2>2. Delivered(t)
    BY <1>0, <2>1 DEF Over
  <2>3. t # s
    BY <2>1, <2>2 DEF Delivered, Ended
  <2>4. wire'[t] = wire[t]
    BY <2>1, <2>3 DEF TypeOK
  <2> QED BY <2>1, <2>2, <2>4 DEF Delivered, Ended
<1>11. ASSUME NEW s \in Sides, Finish(s)
       PROVE  Delivered(t)'
  <2>1. end' = [end EXCEPT ![s] = "finished"] /\ UNCHANGED <<pc, copying, reply, early, wire>>
    BY <1>11 DEF Finish, data
  <2>2. Delivered(t)
    BY <1>0, <2>1 DEF Over
  <2>3. end'[t] \in {end[t], "finished"}
    BY <2>1 DEF TypeOK
  <2> QED BY <2>1, <2>2, <2>3 DEF Delivered, Ended
<1>12. ASSUME NEW s \in Sides, Leave(s)
       PROVE  FALSE
  BY <1>12 DEF Leave, Undisturbed, TypeOK
<1> QED BY <1>1, <1>2, <1>3, <1>4, <1>5, <1>6, <1>7, <1>8, <1>9, <1>10, <1>11, <1>12, <1>13,
        NextCases

----------------------------------------------------------------------------
(* The invariant, and what it gives.                                       *)

(* It holds at the start.                                                  *)
LEMMA InitInv == Init => Inv
<1> SUFFICES ASSUME Init
             PROVE  Inv
  OBVIOUS
<1>1. <<>> \in Seq(1..MaxSent) /\ Len(<<>>) = 0 /\ 0 \in 0..MaxSent
  BY EmptySeq, TunnelAssumption
<1>2. kind.listener \in {"http", "socks5"} /\ kind \in [listener : Protocols, upstream : Protocols]
  BY DEF Init, Protocols
<1>3. TypeOK
  <2>1. /\ sent \in [Sides -> 0..MaxSent] /\ wire \in [Sides -> Seq(1..MaxSent)]
        /\ early \in [Sides -> Seq(1..MaxSent)] /\ got \in [Sides -> Seq(1..MaxSent)]
    BY <1>1 DEF Init
  <2>2. /\ conn \in [Sides -> {"none", "server", "open", "eof", "closed"}]
        /\ copying \in [Sides -> BOOLEAN] /\ end \in [Sides -> {"open", "finished", "gone"}]
    BY DEF Init
  <2>3. pc \in {"header", "greeting"} /\ hello \in {"connect", "none"}
        /\ request \in {"watched", "none"} /\ deferred \subseteq Sides
    BY DEF Init, Sides
  <2> QED BY <1>2, <2>1, <2>2, <2>3 DEF Init, TypeOK
<1>4. StreamsFlow
  <2>1. ASSUME NEW s \in Sides
        PROVE  /\ got[Other(s)] = <<>> /\ early[s] = <<>> /\ wire[s] = <<>> /\ sent[s] = 0
    BY TwoSides DEF Init
  <2>2. Counts(<<>>, 0)
    BY CountsNothing
  <2>3. Len(<<>>) + Len(<<>>) = 0 /\ Len(<<>>) + Len(<<>>) + Len(<<>>) = 0 /\ Len(<<>>) <= 0
    BY <1>1
  <2>4. Counts(<<>>, Len(<<>>)) /\ Counts(<<>>, Len(<<>>) + Len(<<>>))
    BY <1>1, <2>2, <2>3
  <2> QED BY <2>1, <2>2, <2>3, <2>4 DEF StreamsFlow
<1>5. HandlerFollows
  BY <1>2, TwoSides DEF Init, HandlerFollows
<1>6. ConnsFollow
  <2>1. conn["remote"] = "none"
        /\ conn["client"] = IF kind.listener = "http" THEN "server" ELSE "open"
    BY TwoSides DEF Init
  <2> QED BY <1>2, <2>1 DEF Init, ConnsFollow, Sides
<1>7. DirectionsEndWhole
  BY <1>2 DEF Init, DirectionsEndWhole
<1>8. DefersFollow
  BY <1>2 DEF Init, DefersFollow
<1> QED BY <1>3, <1>4, <1>5, <1>6, <1>7, <1>8 DEF Inv

(* Every step keeps it.                                                    *)
LEMMA NextInv == Inv /\ Next => Inv'
BY TypeStep, FlowStep, HandlerStep, ConnsStep, DefersStep, DirectionsStep DEF Inv

(* So does a stutter.                                                      *)
LEMMA StutterInv == Inv /\ UNCHANGED vars => Inv'
<1> SUFFICES ASSUME Inv, UNCHANGED vars
             PROVE  Inv'
  OBVIOUS
<1>1. UNCHANGED <<kind, pc, hello, answer, sent, end, wire, early, got, reply, conn, deferred,
                  copying, cancelled, request>>
  BY DEF vars, peers, data, contexts
<1>2. TypeOK'
  BY <1>1 DEF Inv, TypeOK
<1>3. StreamsFlow'
  BY <1>1 DEF Inv, StreamsFlow, Counts
<1>4. HandlerFollows' /\ ConnsFollow' /\ DefersFollow'
  BY <1>1 DEF Inv, HandlerFollows, ConnsFollow, DefersFollow, Done
<1>5. DirectionsEndWhole'
  BY <1>1 DEF Inv, DirectionsEndWhole, Undisturbed, Done, Ended
<1> QED BY <1>2, <1>3, <1>4, <1>5 DEF Inv

(* The streams, the handler, its connections and its goroutines fit        *)
(* together at every step, however much is sent.                           *)
THEOREM Invariant == Spec => []Inv
BY InitInv, NextInv, StutterInv, PTL DEF Spec

(* Types.                                                                  *)
THEOREM TypeCorrect == Spec => []TypeOK
<1>1. Inv => TypeOK
  BY DEF Inv
<1> QED BY <1>1, Invariant, PTL

(* The invariant gives whole streams.                                      *)
LEMMA InvStreams == Inv => StreamsIntact
<1> SUFFICES ASSUME Inv
             PROVE  StreamsIntact
  OBVIOUS
<1>1. ASSUME NEW s \in Sides
      PROVE  Len(got[s]) <= sent[Other(s)] /\ Counts(got[s], 0) /\ Len(got[s]) \in Nat
  BY <1>1, TwoSides, LenProperties DEF Inv, StreamsFlow, TypeOK
<1>2. ASSUME NEW s \in Sides, NEW i \in 1..Len(got[s])
      PROVE  got[s][i] = i
  BY <1>1, <1>2 DEF Counts
<1>3. got["client"] # <<>> => reply = "ok"
  BY DEF Inv, HandlerFollows
<1> QED BY <1>1, <1>2, <1>3 DEF StreamsIntact

(* And whole ends.                                                         *)
LEMMA InvEndsWhole == Inv => EndsWhole
<1> SUFFICES ASSUME Inv, NEW s \in Sides, reply = "ok", conn[s] \in {"eof", "closed"},
                    ~Done, \A t \in Sides : end[t] # "gone"
             PROVE  Ended(Other(s)) /\ Len(got[s]) = sent[Other(s)]
  BY DEF EndsWhole
<1>1. Over(Other(s))
  <2>1. CASE conn[s] = "closed"
    BY <2>1 DEF Inv, HandlerFollows, ConnsFollow, Over
  <2>2. CASE conn[s] = "eof"
    <3>1. s = "client"
      BY <2>2 DEF Inv, ConnsFollow, Sides
    <3> QED BY <2>2, <3>1, TwoSides DEF Inv, ConnsFollow, Over
  <2> QED BY <2>1, <2>2
<1>2. Delivered(Other(s))
  BY <1>1, TwoSides DEF Inv, DirectionsEndWhole, Undisturbed, Over, Delivered
<1>3. Len(got[s]) + Len(early[Other(s)]) + Len(wire[Other(s)]) = sent[Other(s)]
  BY TwoSides DEF Inv, StreamsFlow
<1>4. Len(got[s]) \in Nat
  BY LenProperties DEF Inv, TypeOK
<1>5. Len(<<>>) = 0
  BY EmptySeq
<1>6. Len(got[s]) + 0 + 0 = sent[Other(s)]
  BY <1>2, <1>3, <1>5 DEF Delivered
<1> QED BY <1>2, <1>4, <1>6 DEF Delivered

(* Nothing is lost, doubled or reordered between the sides, through        *)
(* bufferedConn, what net/http had read ahead, and pump.                   *)
THEOREM StreamsAlwaysIntact == Spec => []StreamsIntact
BY InvStreams, Invariant, PTL

(* A side that is told of the end has received everything (pump waits for  *)
(* both directions and closes for writing only behind the data).           *)
THEOREM TunnelsEndWhole == Spec => []EndsWhole
BY InvEndsWhole, Invariant, PTL

(* Between the dialer's own Close, connect's before it has hijacked, and   *)
(* the Close calls the two servers defer, no way of ending leaves a        *)
(* connection behind: at each the handler has deferred what it then owns   *)
(* (OwnedDeferred), or has closed it where it failed (Abandoned).          *)
THEOREM NothingEverLeaks == Spec => []NothingLeaks
<1>1. Inv => NothingLeaks
  BY DEF Inv, ConnsFollow, NothingLeaks, Owned
<1> QED BY <1>1, Invariant, PTL

----------------------------------------------------------------------------
(* The tunnel is a pipe.                                                   *)

(* How the pipe's variables are read off.                                  *)
State == IF reply = "ok" THEN "open" ELSE IF reply = "failed" THEN "refused" ELSE "asked"

ToldSide(s) == conn[s] \in {"eof", "closed"}

Told == {s \in Sides : ToldSide(s)}

(* A step the pipe does not see.                                           *)
LEMMA Unseen ==
    ASSUME UNCHANGED <<sent, end, got, conn, contexts>>, State' = State
    PROVE  UNCHANGED Joined!vars
BY DEF Joined!vars, State, contexts, Sides

(* Sides are told of the end of an open tunnel when they may be.           *)
LEMMA Tells ==
    ASSUME EndsWhole', reply = "ok", UNCHANGED <<reply, sent, end, got, contexts>>,
           \A s \in Sides : ToldSide(s) => ToldSide(s)'
    PROVE  Joined!Next
<1>0. PICK group \in SUBSET Sides : group = {s \in Sides : conn'[s] \in {"eof", "closed"}}
  OBVIOUS
<1>1. \A s \in group : Joined!Disturbed \/ Joined!AllDelivered(s)
  BY <1>0 DEF EndsWhole, Done, contexts, Ended, Other, ToldSide,
         Joined!Disturbed, Joined!AllDelivered, Joined!Other, Joined!Sides, Sides
<1>2. Told' = Told \cup group
  BY <1>0 DEF Told, ToldSide
<1>3. Joined!Tell(group) <=>
        /\ State = "open"
        /\ \A s \in group : Joined!Disturbed \/ Joined!AllDelivered(s)
        /\ Told' = Told \cup group
        /\ State' = State
        /\ UNCHANGED <<sent, end, got>>
        /\ cancelled' = cancelled /\ (request = "cancelled")' = (request = "cancelled")
  BY DEF Joined!Tell, State, Told, ToldSide, Joined!Sides, Sides
<1>4. Joined!Tell(group)
  BY <1>1, <1>2, <1>3 DEF State, contexts
<1> QED BY <1>4 DEF Joined!Next, Joined!Sides, Sides

(* A tunnel that is not open is refused, with an answer or without one.    *)
LEMMA Refuses ==
    ASSUME reply \notin {"ok", "failed"}, reply' # "ok",
           UNCHANGED <<sent, end, got, contexts>>,
           \A s \in Sides : ToldSide(s) => ToldSide(s)'
    PROVE  Joined!Next
<1>1. /\ State = "asked" /\ State' \in {"asked", "refused"}
      /\ Told' \in SUBSET Sides /\ Told \subseteq Told'
  BY DEF State, Told, ToldSide
<1>2. Joined!Refuse
  BY <1>1 DEF Joined!Refuse, State, Told, ToldSide, contexts, Joined!Sides, Sides
<1> QED BY <1>2 DEF Joined!Next

(* The end of the handler tells both sides.                                *)
LEMMA EndsPipe ==
    ASSUME Inv, EndsWhole', Ends
    PROVE  Joined!Next
<1>1. /\ UNCHANGED <<sent, end, got, contexts>>
      /\ reply' \in {reply, "failed"} /\ pc # "ended"
      /\ \A s \in Sides : ToldSide(s) => ToldSide(s)'
  <2>1. Return /\ reply' \in {reply, "failed"} /\ pc # "ended"
    BY EndsReturns DEF Inv
  <2>2. \A s \in Sides : ToldSide(s) => ToldSide(s)'
    BY Returned DEF Inv, ToldSide
  <2> QED BY <2>1, <2>2 DEF Return, peers, data
<1>2. CASE reply = "ok"
  <2>1. pc \in {"early", "pump"}
    BY <1>1, <1>2 DEF Inv, HandlerFollows
  <2>2. reply' = reply
    BY <2>1 DEF Ends, NegotiateFails, RequestFails, DialFails, ReplyFails,
       ForwardFails, PumpReturns
  <2> QED BY <1>1, <1>2, <2>2, Tells
<1>3. CASE reply # "ok"
  <2>1. reply # "failed"
    BY <1>1 DEF Inv, HandlerFollows
  <2> QED BY <1>1, <1>3, <2>1, Refuses
<1> QED BY <1>2, <1>3

(* So does giving up, of which the client need not hear.                   *)
LEMMA GivesUpPipe ==
    ASSUME Inv, GivesUp
    PROVE  Joined!Next
<1>1. /\ UNCHANGED <<sent, end, got, contexts>>
      /\ reply' \in {reply, "failed"} /\ pc \in {"dial", "exchange", "hijack"}
  BY Abandoned DEF Inv, peers, data
<1>2. \A s \in Sides : ToldSide(s) => ToldSide(s)'
  BY Abandoned DEF Inv, TypeOK, ToldSide
<1>3. reply \notin {"ok", "failed"} /\ reply' # "ok"
  BY <1>1 DEF Inv, HandlerFollows
<1> QED BY <1>1, <1>2, <1>3, Refuses

(* What a side has received, as the pipe sees it: the numbers up to n.     *)
LEMMA Numbers ==
    ASSUME NEW g \in Seq(Items), Counts(g, 0)
    PROVE  g = [i \in 1..Len(g) |-> i]
<1>1. g = [i \in 1..Len(g) |-> g[i]]
  BY LenProperties
<1> QED BY <1>1, LenProperties DEF Counts

(* What reaches a side follows on what it has received.                    *)
LEMMA Delivers ==
    ASSUME Inv, Inv', NEW s \in Sides, reply = "ok", CanWrite(s), end[s] # "gone",
           NEW more \in Seq(Items),
           got' = [got EXCEPT ![s] = got[s] \o more],
           UNCHANGED <<reply, sent, end, conn, contexts>>
    PROVE  Joined!Next \/ UNCHANGED Joined!vars
<1>1. /\ got[s] \in Seq(Items) /\ got'[s] \in Seq(Items) /\ got'[s] = got[s] \o more
      /\ Len(got[s]) \in Nat /\ Len(more) \in Nat
  <2>1. got \in [Sides -> Seq(Items)] /\ got' \in [Sides -> Seq(Items)]
    BY DEF Inv, TypeOK, Items
  <2> QED BY <2>1, LenProperties
<1>2. CASE more = <<>>
  <2>1. got[s] \o <<>> = got[s]
    BY <1>1, ConcatEmptySeq
  <2>2. got' = got
    BY <1>1, <1>2, <2>1 DEF Inv, TypeOK
  <2> QED BY <2>2, Unseen DEF State
<1>3. CASE more # <<>>
  <2> DEFINE n == Len(got'[s])
  <2>1. n = Len(got[s]) + Len(more) /\ Len(more) # 0
    BY <1>1, <1>3, ConcatProperties, EmptySeq
  <2>2. Counts(got'[s], 0) /\ n <= sent'[Other(s)]
    <3>1. \A t \in Sides : Counts(got'[Other(t)], 0) /\ Len(got'[Other(t)]) <= sent'[t]
      BY DEF Inv, StreamsFlow, Counts
    <3>2. Other(s) \in Sides /\ Other(Other(s)) = s
      BY TwoSides
    <3> QED BY <3>1, <3>2
  <2>3. got'[s] = [i \in 1..n |-> i]
    BY <1>1, <2>2, Numbers
  <2>4. Len(got[s]) < n /\ n \in 1..sent[Other(s)]
    <3>1. sent[Other(s)] \in Nat /\ sent'[Other(s)] = sent[Other(s)]
      BY TwoSides DEF Inv, TypeOK
    <3> QED BY <1>1, <2>1, <2>2, <3>1
  <2>5. got' = [got EXCEPT ![s] = [i \in 1..n |-> i]]
    BY <1>1, <2>3
  <2>6. ~ToldSide(s)
    BY DEF CanWrite, ToldSide
  <2> HIDE DEF n
  <2>7. Joined!Deliver(s, n)
    BY <2>4, <2>5, <2>6 DEF Joined!Deliver, ToldSide, contexts, Sides
  <2> QED BY <2>4, <2>7 DEF Joined!Next, Joined!Sides, Sides, Joined!Other, Other
<1> QED BY <1>2, <1>3

(* Every step of a tunnel is a step of a pipe, or none.                    *)
LEMMA NextPipe ==
    ASSUME Inv, Inv', EndsWhole', Next
    PROVE  Joined!Next \/ UNCHANGED Joined!vars
<1>1. CASE Ends \/ GivesUp
  BY <1>1, EndsPipe, GivesUpPipe
<1>2. CASE Negotiate \/ ReadRequest \/ Connected \/ Hijack
  <2>1. UNCHANGED <<sent, end, got, contexts>> /\ reply' \in {reply, "method"} /\ pc # "ended"
        /\ pc \notin {"early", "pump", "ended"} /\ pc' \notin {"early", "pump", "ended"}
    BY <1>2 DEF Negotiate, ReadRequest, Connected, Hijack, peers, data
  <2>2. reply \notin {"ok", "failed"} /\ reply' \notin {"ok", "failed"}
    BY <2>1 DEF Inv, HandlerFollows
  <2>3. Told' = Told
    <3>1. CASE Negotiate \/ ReadRequest
      BY <3>1 DEF Negotiate, ReadRequest, Told, ToldSide
    <3>2. CASE Connected
      <4>1. conn["remote"] \notin {"eof", "closed"}
        BY <3>2 DEF Connected, Inv, ConnsFollow, Sides
      <4> QED BY <3>2, <4>1 DEF Connected, Inv, TypeOK, Told, ToldSide
    <3>3. CASE Hijack
      <4>1. conn["client"] = "server"
        BY <3>3 DEF Hijack, Inv, HandlerFollows, ConnsFollow
      <4> QED BY <3>3, <4>1 DEF Hijack, Inv, TypeOK, Told, ToldSide
    <3> QED BY <1>2, <3>1, <3>2, <3>3
  <2> QED BY <2>1, <2>2, <2>3 DEF Joined!vars, Told, ToldSide, contexts
<1>3. CASE ReplySuccess
  <2>1. /\ pc = "reply" /\ CanWrite("client") /\ reply' = "ok"
        /\ UNCHANGED <<sent, end, got, conn, contexts>>
    BY <1>3 DEF ReplySuccess, peers, data
  <2>2. reply \notin {"ok", "failed"} /\ \A s \in Sides : ~ToldSide(s)
    BY <2>1 DEF Inv, HandlerFollows, ConnsFollow, ToldSide, CanWrite, Sides
  <2>3. Joined!Open
    BY <2>1, <2>2 DEF Joined!Open, ToldSide, contexts, Joined!Sides, Sides
  <2> QED BY <2>3 DEF Joined!Next
<1>4. CASE ForwardEarly
  <2>1. /\ pc = "early" /\ CanWrite("remote")
        /\ got' = [got EXCEPT !["remote"] = Received("remote", early["client"])]
        /\ UNCHANGED <<reply, sent, end, conn, contexts>>
    BY <1>4 DEF ForwardEarly, peers
  <2>2. reply = "ok" /\ early["client"] \in Seq(Items)
    BY <2>1, TwoSides DEF Inv, HandlerFollows, TypeOK, Items
  <2>3. CASE end["remote"] = "gone"
    <3>1. got' = got
      BY <2>1, <2>3 DEF Received, Inv, TypeOK
    <3> QED BY <2>1, <3>1, Unseen DEF State
  <2>4. CASE end["remote"] # "gone"
    BY <2>1, <2>2, <2>4, Delivers, TwoSides DEF Received
  <2> QED BY <2>3, <2>4
<1>5. CASE CloseClient \/ CloseBoth
  <2>1. /\ UNCHANGED <<pc, reply, sent, end, got, contexts>>
        /\ \A s \in Sides : ToldSide(s) => ToldSide(s)'
    BY <1>5 DEF CloseClient, CloseBoth, peers, data, ToldSide, Inv, TypeOK
  <2>2. CASE reply = "ok"
    BY <2>1, <2>2, Tells
  <2>3. CASE reply # "ok"
    <3>1. pc # "ended"
      BY <1>5 DEF CloseClient, CloseBoth, Inv, ConnsFollow, Sides
    <3> QED BY <2>1, <2>3, <3>1, Refuses DEF Inv, HandlerFollows
  <2> QED BY <2>2, <2>3
<1>6. CASE Cancel
  <2>1. Joined!Stop
    BY <1>6 DEF Cancel, peers, data, Joined!Stop
  <2> QED BY <2>1 DEF Joined!Next
<1>7. ASSUME NEW n, ServeConnect(n) \/ Accepted(n)
      PROVE  UNCHANGED Joined!vars
  BY <1>7, Unseen DEF ServeConnect, Accepted, peers, State
<1>8. CASE ReadBackground
  <2>1. pc \in {"dial", "exchange", "hijack", "refuse"} /\ UNCHANGED <<sent, end, got, conn, reply, cancelled>>
    BY <1>8 DEF ReadBackground, peers
  <2>2. CASE request' = "read" /\ request = "watched"
    BY <2>1, <2>2 DEF Joined!vars, Sides
  <2>3. CASE request' = "cancelled" /\ Ended("client")
    <3>1. reply \notin {"ok", "failed"}
      BY <2>1 DEF Inv, HandlerFollows
    <3>2. Joined!Abort
      BY <2>1, <2>3, <3>1 DEF Joined!Abort, Ended, Sides
    <3> QED BY <3>2 DEF Joined!Next
  <2> QED BY <1>8, <2>2, <2>3 DEF ReadBackground
<1>9. ASSUME NEW s \in Sides, Copy(s)
      PROVE  Joined!Next \/ UNCHANGED Joined!vars
  <2> DEFINE item == <<Head(Unread(s))>>
  <2>1. /\ copying[s] /\ Unread(s) # <<>> /\ CanWrite(Other(s))
        /\ got' = [got EXCEPT ![Other(s)] = Received(Other(s), item)]
        /\ UNCHANGED <<reply, sent, end, conn, contexts>>
    BY <1>9 DEF Copy, peers
  <2>2. reply = "ok" /\ Other(s) \in Sides
    BY <2>1, TwoSides DEF Inv, HandlerFollows
  <2>3. item \in Seq(Items)
    <3>1. early[s] \in Seq(Items) /\ wire[s] \in Seq(Items)
      BY DEF Inv, TypeOK, Items
    <3>2. Unread(s) \in Seq(Items)
      BY <3>1, ConcatProperties DEF Unread
    <3>3. Head(Unread(s)) \in Items
      BY <2>1, <3>2, HeadTailProperties
    <3> QED BY <3>3
  <2> HIDE DEF item
  <2>4. CASE end[Other(s)] = "gone"
    <3>1. got' = got
      BY <2>1, <2>2, <2>4 DEF Received, Inv, TypeOK
    <3> QED BY <2>1, <3>1, Unseen DEF State
  <2>5. CASE end[Other(s)] # "gone"
    BY <2>1, <2>2, <2>3, <2>5, Delivers DEF Received
  <2> QED BY <2>4, <2>5
<1>10. ASSUME NEW s \in Sides, CopyEnds(s)
       PROVE  Joined!Next
  <2>1. copying[s] /\ UNCHANGED <<reply, sent, end, got, contexts>> /\ conn' = WithEnd(Other(s))
    BY <1>10 DEF CopyEnds, peers, data
  <2>2. reply = "ok"
    BY <2>1 DEF Inv, HandlerFollows
  <2>3. \A t \in Sides : ToldSide(t) => ToldSide(t)'
    BY <2>1 DEF WithEnd, ToldSide, Inv, TypeOK
  <2> QED BY <2>1, <2>2, <2>3, Tells
<1>11. ASSUME NEW x, Ask(x) \/ Answer(x)
       PROVE  UNCHANGED Joined!vars
  BY <1>11, Unseen DEF Ask, Answer, data, State
<1>12. ASSUME NEW s \in Sides, Send(s) \/ Finish(s) \/ Leave(s)
       PROVE  Joined!Next
  <2>1. Joined!Send(s) \/ Joined!Finish(s) \/ Joined!Leave(s)
    BY <1>12 DEF Send, Finish, Leave, Present, data, contexts,
       Joined!Send, Joined!Finish, Joined!Leave, Sides
  <2> QED BY <2>1 DEF Joined!Next, Joined!Sides, Sides
<1> QED BY <1>1, <1>2, <1>3, <1>4, <1>5, <1>6, <1>7, <1>8, <1>9, <1>10, <1>11, <1>12, NextCases
        DEF HandlerGoesOn, Stops

(* A tunnel starts as a pipe does.                                         *)
LEMMA InitPipe == Init => Joined!Init
<1> SUFFICES ASSUME Init
             PROVE  Joined!Init
  OBVIOUS
<1>1. \A s \in Sides : ~ToldSide(s)
  BY DEF Init, ToldSide
<1>2. Told = {}
  BY <1>1 DEF Told
<1> QED BY <1>2 DEF Init, Joined!Init, Told, ToldSide, Joined!Sides, Sides

(* Through whatever handshakes, read-ahead buffers, half-closes and        *)
(* cancellations (socks5.Server, httpproxy.Server, dialer, pump): a client *)
(* has a pipe.                                                             *)
THEOREM TunnelIsPipe == Spec => ImplementsPipe
<1>1. Inv /\ Inv' /\ EndsWhole' /\ [Next]_vars => [Joined!Next]_(Joined!vars)
  <2>1. Inv /\ Inv' /\ EndsWhole' /\ Next => [Joined!Next]_(Joined!vars)
    BY NextPipe
  <2>2. UNCHANGED vars => UNCHANGED Joined!vars
    BY DEF vars, peers, data, contexts, Joined!vars
  <2> QED BY <2>1, <2>2
<1> QED BY InitPipe, <1>1, Invariant, TunnelsEndWhole, PTL DEF Spec, ImplementsPipe, Joined!Spec

=============================================================================
