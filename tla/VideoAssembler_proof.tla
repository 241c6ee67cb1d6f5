------------------------- MODULE VideoAssembler_proof -------------------------
(***************************************************************************)
(* Proofs about VideoAssembler, for any units, any number of bands, of     *)
(* pending pictures and of decode order numbers, as long as no number is   *)
(* given twice: its types, and that it implements PredictionChain.  Then   *)
(* about PicturePath, the way of the decoded pictures to the screen, for   *)
(* any places, sizes, contents and tables, any number of sessions: what is *)
(* drawn is what the session published.                                    *)
(***************************************************************************)
EXTENDS VideoAssembler, FiniteSetTheorems, TLAPS

-----------------------------------------------------------------------------
(* Decode order numbers, up to the one after the last unit. *)

Position == 1 .. Len(Units) + 1

(* % on the ranges that numbers and their sums and differences lie in.     *)
LEMMA Reduce ==
  ASSUME NEW m \in Nat \ {0}, NEW x \in Int
  PROVE  /\ x % m \in 0 .. m - 1
         /\ x \in 0 .. m - 1 => x % m = x
         /\ x \in m .. 2 * m - 1 => x % m = x - m
         /\ x \in -m .. -1 => x % m = x + m
OBVIOUS

(* There are fewer units than decode order numbers.                        *)
LEMMA UnitsLength ==
  /\ Len(Units) \in Nat /\ Len(Units) < OrderModulus
  /\ OrderModulus \in Nat \ {0} /\ FirstOrder \in 0 .. OrderModulus - 1
BY AssemblerAssumption, NoNumberTwice

(* The number of a unit: the first number plus its distance, less one turn *)
(* if it has wrapped.                                                      *)
LEMMA OrderValue ==
  ASSUME NEW u \in Position
  PROVE  /\ Order(u) \in 0 .. OrderModulus - 1
         /\ \/ Order(u) = FirstOrder + u - 1
            \/ Order(u) = FirstOrder + u - 1 - OrderModulus
<1> DEFINE x == FirstOrder + u - 1
<1>1. /\ x \in Int /\ x \in 0 .. 2 * OrderModulus - 1
  BY UnitsLength DEF Position
<1>2. Order(u) = x % OrderModulus
  BY DEF Order
<1> HIDE DEF x
<1>3. /\ x % OrderModulus \in 0 .. OrderModulus - 1
      /\ x % OrderModulus = x \/ x % OrderModulus = x - OrderModulus
  <2>1. OrderModulus \in Nat \ {0}
    BY UnitsLength
  <2>2. x \in 0 .. OrderModulus - 1 \/ x \in OrderModulus .. 2 * OrderModulus - 1
    BY <1>1, <2>1
  <2> QED  BY <1>1, <2>1, <2>2, Reduce
<1> QED  BY <1>1, <1>2, <1>3, UnitsLength DEF x, Position

(* No two units have the same decode order number.                         *)
LEMMA OrderIsInjective ==
  ASSUME NEW u \in Position, NEW v \in Position, Order(u) = Order(v)
  PROVE  u = v
BY OrderValue, UnitsLength DEF Position

(* wrapping_add on a unit's number is the number of the unit so far on.    *)
LEMMA OrderPlus ==
  ASSUME NEW u \in Position, NEW k \in Nat, u + k \in Position
  PROVE  Plus(Order(u), k) = Order(u + k)
<1> DEFINE x == Order(u) + k
<1>0. /\ Order(u) \in 0 .. OrderModulus - 1 /\ u + k <= Len(Units) + 1 /\ u \in Nat \ {0}
      /\ \/ Order(u) = FirstOrder + u - 1
         \/ Order(u) = FirstOrder + u - 1 - OrderModulus
  BY OrderValue, UnitsLength DEF Position
<1>1. /\ x \in Int /\ x \in 0 .. 2 * OrderModulus - 1
      /\ \/ x = FirstOrder + (u + k) - 1
         \/ x = FirstOrder + (u + k) - 1 - OrderModulus
  BY <1>0, UnitsLength
<1>2. /\ Order(u + k) \in 0 .. OrderModulus - 1
      /\ \/ Order(u + k) = FirstOrder + (u + k) - 1
         \/ Order(u + k) = FirstOrder + (u + k) - 1 - OrderModulus
  BY OrderValue
<1>3. Plus(Order(u), k) = x % OrderModulus
  BY DEF Plus
<1> HIDE DEF x
<1>4. /\ x % OrderModulus \in 0 .. OrderModulus - 1
      /\ x % OrderModulus = x \/ x % OrderModulus = x - OrderModulus
  <2>1. OrderModulus \in Nat \ {0}
    BY UnitsLength
  <2>2. x \in 0 .. OrderModulus - 1 \/ x \in OrderModulus .. 2 * OrderModulus - 1
    BY <1>1, <2>1
  <2> QED  BY <1>1, <2>1, <2>2, Reduce
<1> QED  BY <1>1, <1>2, <1>3, <1>4, UnitsLength DEF Position

(* wrapping_sub of two numbers is the distance of their units.             *)
LEMMA OffsetIsDistance ==
  ASSUME NEW u \in Position, NEW v \in Position, u <= v
  PROVE  Offset(Order(v), Order(u)) = v - u
<1> DEFINE x == Order(v) - Order(u)
<1>u. /\ u \in Nat /\ Order(u) \in 0 .. OrderModulus - 1
      /\ \/ Order(u) = FirstOrder + u - 1
         \/ Order(u) = FirstOrder + u - 1 - OrderModulus
  BY OrderValue, UnitsLength DEF Position
<1>v. /\ v \in Nat /\ Order(v) \in 0 .. OrderModulus - 1
      /\ \/ Order(v) = FirstOrder + v - 1
         \/ Order(v) = FirstOrder + v - 1 - OrderModulus
  BY OrderValue, UnitsLength DEF Position
<1>1. /\ x \in Int /\ x \in -OrderModulus .. OrderModulus - 1
      /\ x = v - u \/ x = v - u - OrderModulus \/ x = v - u + OrderModulus
  BY <1>u, <1>v, UnitsLength, SMTT(40)
<1>2. Offset(Order(v), Order(u)) = x % OrderModulus
  BY DEF Offset
<1> HIDE DEF x
<1>3. /\ x % OrderModulus \in 0 .. OrderModulus - 1
      /\ x % OrderModulus = x \/ x % OrderModulus = x + OrderModulus
  <2>1. OrderModulus \in Nat \ {0}
    BY UnitsLength
  <2>2. x \in 0 .. OrderModulus - 1 \/ x \in -OrderModulus .. -1
    BY <1>1, <2>1
  <2> QED  BY <1>1, <2>1, <2>2, Reduce
<1>4. v - u \in 0 .. OrderModulus - 1
  BY UnitsLength DEF Position
<1> QED  BY <1>1, <1>2, <1>3, <1>4, UnitsLength

-----------------------------------------------------------------------------
(* Pictures. *)

(* What a unit's picture, slot and kind are.                               *)
LEMMA UnitTypes ==
  /\ All \subseteq Position
  /\ All \subseteq Nat \ {0}
  /\ \A u \in All : /\ PictureOf(u) \in Pictures
                    /\ PictureOf(u) \in Nat \ {0}
                    /\ Slot(u) \in 1 .. SliceCount
                    /\ IsSync(u) \in BOOLEAN
<1>1. \A u \in All : Units[u] \in [picture : Nat \ {0}, slot : 1 .. SliceCount, sync : BOOLEAN]
  <2> DEFINE R == [picture : Nat \ {0}, slot : 1 .. SliceCount, sync : BOOLEAN]
  <2>1. Units \in Seq(R)
    BY AssemblerAssumption
  <2> HIDE DEF R
  <2>2. \A u \in 1 .. Len(Units) : Units[u] \in R
    BY <2>1
  <2> QED  BY <2>2 DEF All, R
<1>2. Len(Units) \in All
  BY AssemblerAssumption DEF All
<1>3. \A u \in All : u <= Len(Units) /\ u \in Nat \ {0}
  BY UnitsLength DEF All
<1>4. \A u \in All : PictureOf(u) \in Nat \ {0}
  BY <1>1 DEF PictureOf
<1>5. \A u \in All : PictureOf(u) <= PictureOf(Len(Units))
  BY <1>2, <1>3, <1>4, UnitsLength, AssemblerAssumption
<1> QED  BY <1>1, <1>2, <1>3, <1>4, <1>5, UnitsLength DEF All, Position, Pictures, Slot, IsSync

(* The next unit belongs to the same picture or to the next. *)
LEMMA NextUnit ==
  ASSUME NEW u \in All, u + 1 \in All
  PROVE  PictureOf(u + 1) = PictureOf(u) \/ PictureOf(u + 1) = PictureOf(u) + 1
<1>1. u + 1 \in All \ {1} /\ (u + 1) - 1 = u
  BY UnitTypes
<1> QED  BY <1>1, AssemblerAssumption

(* Pictures follow each other in decode order.                             *)
LEMMA Monotone ==
  ASSUME NEW u \in All, NEW v \in All, u <= v
  PROVE  PictureOf(u) <= PictureOf(v)
<1>1. CASE u = v
  BY <1>1, UnitTypes
<1>2. CASE u < v
  BY <1>2, AssemblerAssumption
<1> QED  BY <1>1, <1>2, UnitTypes

(* A sync unit is the first of its picture. *)
LEMMA SyncIsFirst ==
  ASSUME NEW k \in All, IsSync(k), NEW v \in UnitsOf(PictureOf(k))
  PROVE  k <= v
<1>1. SUFFICES ASSUME v < k PROVE FALSE
  BY UnitTypes DEF UnitsOf
<1>2. v \in All /\ PictureOf(v) = PictureOf(k)
  BY DEF UnitsOf
<1>3. k - 1 \in All /\ k \in All \ {1} /\ v <= k - 1
  BY <1>1, <1>2, UnitTypes, UnitsLength DEF All
<1>4. PictureOf(k) = PictureOf(k - 1) + 1
  BY <1>3, AssemblerAssumption
<1>5. PictureOf(v) <= PictureOf(k - 1)
  BY <1>2, <1>3, Monotone
<1> QED  BY <1>2, <1>3, <1>4, <1>5, UnitTypes

(* A picture has at most one unit per slot, so at most SliceCount units. *)
LEMMA PictureSize ==
  ASSUME NEW p, NEW b \in SUBSET UnitsOf(p)
  PROVE  /\ IsFiniteSet(b) /\ Cardinality(b) \in Nat
         /\ Cardinality(b) <= SliceCount
         /\ Cardinality(b) = SliceCount =>
              /\ b = UnitsOf(p)
              /\ \A s \in 1 .. SliceCount : \E u \in b : Slot(u) = s
<1>1. SliceCount \in Nat /\ IsFiniteSet(1 .. SliceCount) /\ Cardinality(1 .. SliceCount) = SliceCount
  BY AssemblerAssumption, FS_Interval
<1>2. ASSUME NEW c \in SUBSET UnitsOf(p)
      PROVE  /\ IsFiniteSet(c)
             /\ Cardinality(c) <= SliceCount
             /\ Cardinality(c) = SliceCount => \A s \in 1 .. SliceCount : \E u \in c : Slot(u) = s
  <2> DEFINE f == [u \in c |-> Slot(u)]
  <2>1. f \in [c -> 1 .. SliceCount]
    BY UnitTypes DEF UnitsOf
  <2>2. \A u, v \in c : f[u] = f[v] => u = v
    BY AssemblerAssumption DEF UnitsOf
  <2>3. f \in Injection(c, 1 .. SliceCount)
    BY <2>1, <2>2 DEF Injection, IsInjective
  <2>4. /\ IsFiniteSet(c)
        /\ Cardinality(c) <= Cardinality(1 .. SliceCount)
        /\ Cardinality(c) = Cardinality(1 .. SliceCount) <=> f \in Surjection(c, 1 .. SliceCount)
    BY <1>1, <2>3, FS_Injection
  <2>5. f \in Surjection(c, 1 .. SliceCount) => \A s \in 1 .. SliceCount : \E u \in c : Slot(u) = s
    BY DEF Surjection
  <2> QED  BY <1>1, <2>4, <2>5
<1>3. /\ IsFiniteSet(UnitsOf(p)) /\ Cardinality(UnitsOf(p)) <= SliceCount
      /\ IsFiniteSet(b) /\ Cardinality(b) <= SliceCount
  BY <1>2
<1>4. Cardinality(b) \in Nat /\ Cardinality(UnitsOf(p)) \in Nat
  BY <1>3, FS_CardinalityType
<1>5. /\ Cardinality(b) <= Cardinality(UnitsOf(p))
      /\ Cardinality(UnitsOf(p)) = Cardinality(b) => UnitsOf(p) = b
  BY <1>3, FS_Subset
<1> QED  BY <1>1, <1>2, <1>3, <1>4, <1>5

(* The units of a picture that start at u and have no gap. *)
LEMMA ContentOfPicture ==
  ASSUME NEW u \in All, NEW n \in Nat \ {0}, UnitsOf(PictureOf(u)) = u .. u + n - 1
  PROVE  SentPicture(PictureOf(u)) = [i \in 1 .. n |-> u + i - 1]
<1> DEFINE us == UnitsOf(PictureOf(u))
<1>1. u \in Int /\ u + n - 1 \in Int /\ ~(u > u + n - 1) /\ (u + n - 1) - u + 1 = n
  BY UnitTypes
<1>2. Cardinality(us) = n
  BY <1>1, FS_Interval
<1>3. (CHOOSE v \in us : \A w \in us : v <= w) = u
  <2>1. u \in us /\ \A w \in us : u <= w
    BY <1>1
  <2>2. \A v \in us : (\A w \in us : v <= w) => v = u
    <3> TAKE v \in us
    <3> HAVE \A w \in us : v <= w
    <3>1. v <= u /\ u <= v
      BY <2>1
    <3>2. v \in Int /\ u \in Int
      BY <1>1
    <3> QED  BY <3>1, <3>2
  <2> HIDE DEF us
  <2> QED  BY <2>1, <2>2
<1>4. SentPicture(PictureOf(u)) =
        [i \in 1 .. Cardinality(us) |-> (CHOOSE v \in us : \A w \in us : v <= w) + i - 1]
  BY DEF SentPicture
<1> QED  BY <1>2, <1>3, <1>4

(* Units of one picture, none before u, whose offsets to u have no gap. *)
LEMMA ContiguousBatch ==
  ASSUME NEW u \in All, NEW b \in SUBSET UnitsOf(PictureOf(u)), u \in b,
         \A v \in b : u <= v,
         {Offset(Order(v), Order(u)) : v \in b} = 0 .. Cardinality(b) - 1
  PROVE  /\ Cardinality(b) \in Nat \ {0}
         /\ b = u .. u + Cardinality(b) - 1
<1>1. b \subseteq All /\ b \subseteq Nat
  BY UnitTypes DEF UnitsOf
<1>2. \A v \in b : Offset(Order(v), Order(u)) = v - u
  BY <1>1, UnitTypes, OffsetIsDistance
<1>3. {v - u : v \in b} = 0 .. Cardinality(b) - 1
  BY <1>2
<1>4. Cardinality(b) \in Nat
  BY PictureSize
<1>5. u - u \in 0 .. Cardinality(b) - 1
  BY <1>3
<1>6. Cardinality(b) \in Nat \ {0}
  BY <1>4, <1>5
<1>7. ASSUME NEW v \in b PROVE v \in u .. u + Cardinality(b) - 1
  <2>1. v - u \in 0 .. Cardinality(b) - 1
    BY <1>3
  <2> QED  BY <2>1, <1>1, <1>4
<1>8. ASSUME NEW v \in u .. u + Cardinality(b) - 1 PROVE v \in b
  <2>1. v \in Nat /\ v - u \in 0 .. Cardinality(b) - 1
    BY <1>1, <1>4
  <2>2. PICK w \in b : w - u = v - u
    BY <1>3, <2>1
  <2> QED  BY <1>1, <2>1, <2>2
<1> QED  BY <1>6, <1>7, <1>8

-----------------------------------------------------------------------------
(* The invariant. *)

Elements(s) == {s[i] : i \in DOMAIN s}

(* Without an origin nothing is pending; units are held only then; before  *)
(* the first release the origin is a sync unit.                            *)
SyncInv ==
  /\ awaitingSync => pending = {} /\ released = NoOrder
  /\ ~awaitingSync => followers = {}
  /\ ~awaitingSync /\ released = NoOrder =>
       \E k \in All : IsSync(k) /\ initial = Order(k)

(* What a band has still to complete comes after what it has completed. *)
BandInv ==
  \A v \in coming, w \in Elements(completed) \cup followers \cup pending :
    Slot(v) = Slot(w) => w < v

(* The units that may still start a chain, or be handed on in one that has *)
(* started before them.                                                    *)
Unreleased ==
  coming \cup Elements(completed) \cup followers \cup
    (IF released = NoOrder THEN pending ELSE {})

(* r is the last unit of the last picture handed on.  Units of its band    *)
(* that may still be handed on came after it.                              *)
Handed(r) ==
  /\ frames # <<>>
  /\ frames[Len(frames)] = SentPicture(PictureOf(r))
  /\ r + 1 \in All => PictureOf(r + 1) = PictureOf(r) + 1
  /\ released # NoOrder => released = Order(r)
  /\ \A v \in Unreleased : Slot(v) = Slot(r) => r < v

HandedInv ==
  \/ frames = <<>> /\ released = NoOrder
  \/ \E r \in All : Handed(r)

IInv == TypeOK /\ SyncInv /\ BandInv /\ HandedInv

(* What is in a sequence that grows at its end or loses its head.          *)
LEMMA ElementsOf ==
  ASSUME NEW S, NEW s \in Seq(S)
  PROVE  /\ Elements(<<>>) = {}
         /\ Elements(s) \subseteq S
         /\ \A e \in S : Elements(Append(s, e)) = Elements(s) \cup {e}
         /\ s # <<>> => /\ Head(s) \in Elements(s)
                        /\ Tail(s) \in Seq(S)
                        /\ Elements(Tail(s)) \subseteq Elements(s)
<1>1. Elements(<<>>) = {} /\ Elements(s) \subseteq S
  BY DEF Elements
<1>2. ASSUME NEW e \in S PROVE Elements(Append(s, e)) = Elements(s) \cup {e}
  <2> DEFINE t == Append(s, e)
  <2>1. /\ Len(s) \in Nat /\ DOMAIN s = 1 .. Len(s) /\ DOMAIN t = 1 .. Len(s) + 1
        /\ \A i \in 1 .. Len(s) : t[i] = s[i]
        /\ t[Len(s) + 1] = e
    OBVIOUS
  <2> HIDE DEF t
  <2>2. \A x \in Elements(t) : x \in Elements(s) \cup {e}
    BY <2>1 DEF Elements
  <2>3. e \in Elements(t)
    BY <2>1 DEF Elements
  <2>4. \A x \in Elements(s) : x \in Elements(t)
    BY <2>1 DEF Elements
  <2> QED  BY <2>2, <2>3, <2>4 DEF t
<1>3. ASSUME s # <<>>
      PROVE  /\ Head(s) \in Elements(s)
             /\ Tail(s) \in Seq(S)
             /\ Elements(Tail(s)) \subseteq Elements(s)
  <2> DEFINE t == Tail(s)
  <2>1. /\ Len(s) \in Nat \ {0} /\ DOMAIN s = 1 .. Len(s) /\ DOMAIN t = 1 .. Len(s) - 1
        /\ \A i \in 1 .. Len(s) - 1 : t[i] = s[i + 1]
        /\ Head(s) = s[1] /\ t \in Seq(S)
    BY <1>3
  <2> HIDE DEF t
  <2>2. \A i \in 1 .. Len(s) - 1 : i + 1 \in 1 .. Len(s)
    BY <2>1
  <2>3. Elements(t) \subseteq Elements(s)
    BY <2>1, <2>2, SMTT(40) DEF Elements
  <2>4. s[1] \in Elements(s)
    BY <2>1 DEF Elements
  <2> QED  BY <2>1, <2>3, <2>4 DEF t
<1> QED  BY <1>1, <1>2, <1>3

-----------------------------------------------------------------------------
(* Releasing. *)

(* A ready unit is the first of its picture, which is a key picture or the *)
(* one after the last picture handed on, and later than that one.          *)
LEMMA ReadyUnit ==
  ASSUME IInv, NEW u \in pending, IsReady(u)
  PROVE  /\ u \in All
         /\ \A v \in UnitsOf(PictureOf(u)) : u <= v
         /\ \/ IsSync(u)
            \/ \E r \in All : Handed(r) /\ PictureOf(u) = PictureOf(r) + 1
         /\ frames # <<>> =>
              \E r \in All : Handed(r) /\ PictureOf(r) < PictureOf(u)
<1>1. u \in All /\ u \in Position /\ u \in Nat
  BY UnitTypes DEF IInv, TypeOK
<1>2. ~awaitingSync
  BY DEF IInv, SyncInv
<1>3. CASE released # NoOrder
  <2>1. PICK r \in All : Handed(r)
    BY <1>3 DEF IInv, HandedInv
  <2>2. released = Order(r) /\ r \in Nat \ {0} /\ r \in Position /\ r + 1 \in Position
    BY <1>3, <2>1, UnitTypes, UnitsLength DEF Handed, All, Position
  <2>3. Order(u) = Order(r + 1)
    BY <1>3, <2>2, OrderPlus DEF IsReady, Expected
  <2>4. u = r + 1
    BY <1>1, <2>2, <2>3, OrderIsInjective
  <2>5. PictureOf(u) = PictureOf(r) + 1
    BY <1>1, <2>1, <2>4 DEF Handed
  <2>6. ASSUME NEW v \in UnitsOf(PictureOf(u)) PROVE u <= v
    <3>1. v \in All /\ v \in Nat /\ PictureOf(v) = PictureOf(r) + 1
      BY <2>5, UnitTypes DEF UnitsOf
    <3>2. SUFFICES ASSUME v <= r PROVE FALSE
      BY <1>1, <2>2, <2>4, <3>1
    <3>3. PictureOf(v) <= PictureOf(r)
      BY <3>1, <3>2, Monotone
    <3> QED  BY <3>1, <3>3, UnitTypes
  <2>7. PictureOf(r) < PictureOf(u)
    BY <2>5, UnitTypes
  <2> QED  BY <1>1, <2>1, <2>5, <2>6, <2>7
<1>4. CASE released = NoOrder
  <2>1. PICK k \in All : IsSync(k) /\ initial = Order(k)
    BY <1>2, <1>4 DEF IInv, SyncInv
  <2>2. u = k
    BY <1>1, <1>4, <2>1, UnitTypes, OrderIsInjective DEF IsReady, Expected
  <2>3. \A v \in UnitsOf(PictureOf(u)) : u <= v
    BY <2>1, <2>2, SyncIsFirst
  <2>4. ASSUME frames # <<>>
        PROVE  \E r \in All : Handed(r) /\ PictureOf(r) < PictureOf(u)
    <3>1. PICK r \in All : Handed(r)
      BY <2>4 DEF IInv, HandedInv
    <3> DEFINE b == Batch(PictureOf(u))
    <3>2. b \in SUBSET UnitsOf(PictureOf(u)) /\ b \subseteq pending
      BY DEF IInv, TypeOK, Batch, UnitsOf
    <3>3. Cardinality(b) = SliceCount
      BY <1>4 DEF IsReady, IsWhole
    <3>4. PICK v \in b : Slot(v) = Slot(r)
      BY <3>2, <3>3, PictureSize, UnitTypes
    <3>5. v \in Unreleased /\ v \in All /\ PictureOf(v) = PictureOf(u)
      BY <1>4, <3>2 DEF Unreleased, UnitsOf
    <3>6. r < v
      BY <3>1, <3>4, <3>5 DEF Handed
    <3>7. r + 1 \in All /\ r + 1 <= v
      BY <3>5, <3>6, UnitTypes, UnitsLength DEF All
    <3>8. PictureOf(r + 1) = PictureOf(r) + 1 /\ PictureOf(r + 1) <= PictureOf(v)
      BY <3>1, <3>5, <3>7, Monotone DEF Handed
    <3> QED  BY <3>1, <3>5, <3>8, UnitTypes
  <2> QED  BY <1>1, <2>1, <2>2, <2>3, <2>4
<1> QED  BY <1>3, <1>4

(* The batch of a ready unit is its whole picture, and its number of units *)
(* is what the next expected number is computed from.                      *)
LEMMA ReadyBatch ==
  ASSUME IInv, NEW u \in pending, IsReady(u)
  PROVE  LET b == Batch(PictureOf(u))
             n == Cardinality(b)
         IN  /\ n \in Nat \ {0}
             /\ b = u .. u + n - 1
             /\ UnitsOf(PictureOf(u)) = b
             /\ InDecodeOrder(b) = SentPicture(PictureOf(u))
             /\ SentPicture(PictureOf(u)) = [i \in 1 .. n |-> u + i - 1]
             /\ Plus(Expected, n - 1) = Order(u + n - 1)
<1> DEFINE p == PictureOf(u)
           b == Batch(p)
           n == Cardinality(b)
<1>1. /\ u \in All /\ u \in Nat /\ u \in Position
      /\ \A v \in UnitsOf(p) : u <= v
  BY ReadyUnit, UnitTypes
<1>2. b \in SUBSET UnitsOf(p) /\ b \subseteq pending /\ u \in b
  BY <1>1 DEF IInv, TypeOK, Batch, UnitsOf
<1>3. Expected = Order(u) /\ IsWhole(b)
  BY DEF IsReady
<1>4. n \in Nat \ {0} /\ b = u .. u + n - 1
  <2>1. {Offset(Order(v), Order(u)) : v \in b} = 0 .. Cardinality(b) - 1
    BY <1>3 DEF IsWhole, IsContiguous
  <2> HIDE DEF b
  <2> QED  BY <1>1, <1>2, <2>1, ContiguousBatch
<1> HIDE DEF b, n
<1>5. u + n - 1 \in All /\ u + n \in Position /\ b \subseteq All
  <2>1. u + n - 1 \in b /\ b \subseteq All
    BY <1>1, <1>2, <1>4 DEF UnitsOf
  <2> QED  BY <1>1, <1>4, <2>1, UnitsLength DEF All, Position
<1>6. UnitsOf(p) = b
  <2>1. CASE n = SliceCount
    BY <1>2, <2>1, PictureSize DEF n
  <2>2. CASE \E v \in pending \ b : Order(v) = Plus(Expected, n)
    <3>1. PICK v \in pending \ b : Order(v) = Plus(Expected, n)
      BY <2>2
    <3>2. v \in All /\ v \in Position /\ PictureOf(v) # p
      BY <3>1, UnitTypes DEF IInv, TypeOK, b, Batch
    <3>3. v = u + n
      BY <1>1, <1>3, <1>4, <1>5, <3>1, <3>2, OrderPlus, OrderIsInjective
    <3>4. ASSUME NEW w \in UnitsOf(p) PROVE w \in b
      <4>1. w \in All /\ w \in Nat /\ PictureOf(w) = p /\ u <= w
        BY <1>1, UnitTypes DEF UnitsOf
      <4>2. SUFFICES ASSUME u + n <= w PROVE FALSE
        BY <1>1, <1>4, <4>1
      <4>3. PictureOf(v) <= p /\ p <= PictureOf(v)
        BY <1>1, <1>4, <3>2, <3>3, <4>1, <4>2, Monotone
      <4> QED  BY <1>1, <3>2, <4>3, UnitTypes
    <3> QED  BY <1>2, <3>4
  <2> QED  BY <1>3, <2>1, <2>2 DEF IsWhole, BoundaryProven, n
<1>7. SentPicture(p) = [i \in 1 .. n |-> u + i - 1]
  BY <1>1, <1>4, <1>6, ContentOfPicture
<1>8. InDecodeOrder(b) = [i \in 1 .. n |-> u + i - 1]
  <2>1. ASSUME NEW i \in 1 .. n
        PROVE  (CHOOSE v \in b : Order(v) = Plus(Expected, i - 1)) = u + i - 1
    <3>1. u + (i - 1) \in b /\ u + (i - 1) \in Position /\ i - 1 \in Nat /\ u + (i - 1) = u + i - 1
      BY <1>1, <1>4, <1>5, UnitTypes
    <3>2. Plus(Expected, i - 1) = Order(u + i - 1)
      BY <1>1, <1>3, <3>1, OrderPlus
    <3>3. \A v \in b : Order(v) = Order(u + i - 1) => v = u + i - 1
      BY <1>5, <3>1, UnitTypes, OrderIsInjective
    <3> QED  BY <3>1, <3>2, <3>3
  <2>2. InDecodeOrder(b) = [i \in 1 .. n |-> CHOOSE v \in b : Order(v) = Plus(Expected, i - 1)]
    BY DEF InDecodeOrder, n
  <2> QED  BY <2>1, <2>2
<1>9. Plus(Expected, n - 1) = Order(u + n - 1)
  <2>1. n - 1 \in Nat /\ u + (n - 1) = u + n - 1 /\ u + (n - 1) \in Position
    BY <1>1, <1>4, <1>5, UnitTypes
  <2> QED  BY <1>1, <1>3, <2>1, OrderPlus
<1> QED  BY <1>4, <1>6, <1>7, <1>8, <1>9 DEF b, n

-----------------------------------------------------------------------------
(* One step per action keeps the invariant. *)

(* There are finitely many pictures, so the batches can be counted.        *)
LEMMA BatchesFinite ==
  ASSUME NEW P \in SUBSET All
  PROVE  /\ IsFiniteSet({PictureOf(u) : u \in P})
         /\ Cardinality({PictureOf(u) : u \in P}) \in Nat
<1>1. PictureOf(Len(Units)) \in Int
  <2>1. Len(Units) \in All
    BY AssemblerAssumption DEF All
  <2> QED  BY <2>1, UnitTypes
<1>2. IsFiniteSet(Pictures)
  BY <1>1, FS_Interval DEF Pictures
<1>3. {PictureOf(u) : u \in P} \in SUBSET Pictures
  BY UnitTypes
<1> QED  BY <1>2, <1>3, FS_Subset, FS_CardinalityType

(* A completed unit is the newest of its band.                             *)
LEMMA CompleteStep ==
  ASSUME IInv, NEW u \in coming, Complete(u)
  PROVE  IInv'
<1>1. /\ u \in All /\ u \in Nat /\ completed \in Seq(All)
      /\ Elements(completed') = Elements(completed) \cup {u}
  BY UnitTypes, ElementsOf DEF IInv, TypeOK, Complete
<1>2. TypeOK'
  <2>1. orderly' \in BOOLEAN
    BY DEF Complete
  <2>2. completed' \in Seq(All)
    BY <1>1 DEF Complete
  <2>3. coming' \subseteq All /\ call' = "push"
    BY DEF IInv, TypeOK, Complete
  <2>4. UNCHANGED <<awaitingSync, followers, pending, Batches, initial, released, frames, resets>>
    BY DEF Complete, sync, batcher, Batches
  <2> QED  BY <2>1, <2>2, <2>3, <2>4 DEF IInv, TypeOK
<1>3. SyncInv'
  BY DEF IInv, SyncInv, Complete, sync, batcher
<1>4. BandInv'
  <2>1. SUFFICES ASSUME NEW v \in coming',
                        NEW w \in Elements(completed)' \cup followers' \cup pending',
                        Slot(v) = Slot(w)
                 PROVE  w < v
    BY DEF BandInv
  <2>2. v \in coming /\ v \in Nat /\ ~(Slot(v) = Slot(u) /\ v <= u)
    BY <2>1, UnitTypes DEF IInv, TypeOK, Complete
  <2>3. w = u \/ w \in Elements(completed) \cup followers \cup pending
    BY <1>1, <2>1 DEF Complete, sync, batcher
  <2>4. CASE w = u
    BY <1>1, <2>1, <2>2, <2>4
  <2>5. CASE w \in Elements(completed) \cup followers \cup pending
    BY <2>1, <2>2, <2>5 DEF IInv, BandInv
  <2> QED  BY <2>3, <2>4, <2>5
<1>5. Unreleased' \subseteq Unreleased
  BY <1>1 DEF Complete, sync, batcher, Unreleased
<1>6. HandedInv'
  BY <1>5 DEF IInv, HandedInv, Handed, Complete, sync, batcher
<1> QED  BY <1>2, <1>3, <1>4, <1>6 DEF IInv

(* What a look at a unit keeps, besides the types: nothing comes back that *)
(* is not the unit itself.                                                 *)
LEMMA LookKeeps ==
  ASSUME IInv, NEW u \in All, Look(u),
         Elements(completed)' \subseteq Elements(completed),
         followers' \cup pending' \subseteq followers \cup pending \cup {u},
         released' \in {released, NoOrder},
         Unreleased' \subseteq Unreleased
  PROVE  BandInv' /\ HandedInv'
<1>1. u \in Elements(completed)
  BY ElementsOf DEF IInv, TypeOK, Look
<1>2. BandInv'
  BY <1>1 DEF IInv, BandInv, Look
<1>3. HandedInv'
  BY DEF IInv, HandedInv, Handed, Look
<1> QED  BY <1>2, <1>3

(* The unit looked at leaves what was completed. *)
LEMMA LookTypes ==
  ASSUME IInv, NEW u \in All, Look(u)
  PROVE  /\ u \in Elements(completed) /\ u \in Nat
         /\ Tail(completed) \in Seq(All)
         /\ Elements(Tail(completed)) \subseteq Elements(completed)
BY ElementsOf, UnitTypes DEF IInv, TypeOK, Look

(* A number is never taken for None.                                       *)
LEMMA OrderRange ==
  ASSUME NEW u \in All
  PROVE  Order(u) \in -1 .. OrderModulus - 1 /\ Order(u) # NoOrder
BY OrderValue, UnitTypes, UnitsLength DEF NoOrder

(* hold_possible_sync_follower keeps the invariant.                        *)
LEMMA HoldFollowerStep ==
  ASSUME IInv, NEW u \in All, HoldFollower(u)
  PROVE  IInv'
<1>1. /\ Look(u) /\ completed' = Tail(completed)
      /\ followers' \subseteq followers \cup {u}
      /\ UNCHANGED <<awaitingSync, pending, initial, released>>
  BY DEF HoldFollower, batcher
<1>2. awaitingSync
  BY DEF HoldFollower, NeedsOrigin
<1>3. /\ u \in Elements(completed)
      /\ completed' \in Seq(All) /\ Elements(completed)' \subseteq Elements(completed)
  BY <1>1, LookTypes
<1>4. TypeOK'
  BY <1>1, <1>3 DEF IInv, TypeOK, Look, Batches
<1>5. SyncInv'
  BY <1>1, <1>2 DEF IInv, SyncInv
<1>6. Unreleased' \subseteq Unreleased
  BY <1>1, <1>3 DEF Unreleased, Look
<1> QED  BY <1>1, <1>3, <1>4, <1>5, <1>6, LookKeeps DEF IInv

(* A new origin keeps the invariant: one batch is pending.                 *)
LEMMA BeginChainStep ==
  ASSUME IInv, NEW u \in All, BeginChain(u)
  PROVE  IInv'
<1>1. /\ Look(u) /\ completed' = Tail(completed)
      /\ pending' \subseteq followers \cup {u} /\ followers' = {}
      /\ awaitingSync' = FALSE
      /\ released' = NoOrder /\ initial' = Order(u) /\ IsSync(u)
  BY DEF BeginChain
<1>2. /\ u \in Elements(completed)
      /\ completed' \in Seq(All) /\ Elements(completed)' \subseteq Elements(completed)
  BY <1>1, LookTypes
<1>3. Batches' = {PictureOf(u)}
  BY DEF BeginChain, Batches
<1>4. Cardinality(Batches') = 1 /\ MaxPending \in Nat \ {0}
  BY <1>3, FS_Singleton, AssemblerAssumption
<1>5. initial' \in -1 .. OrderModulus - 1 /\ released' \in -1 .. OrderModulus - 1
  BY <1>1, OrderRange, UnitsLength DEF NoOrder
<1>6. TypeOK'
  <2>1. pending' \subseteq All /\ followers' \subseteq All
    BY <1>1 DEF IInv, TypeOK
  <2>2. Cardinality(Batches') <= MaxPending
    BY <1>4
  <2>3. /\ coming' \subseteq All /\ call' = "receive" /\ frames' \in Seq(Seq(All))
        /\ resets' \in 0 .. MaxResets /\ orderly' \in BOOLEAN
    BY <1>1 DEF IInv, TypeOK, Look
  <2> QED  BY <1>1, <1>2, <1>5, <2>1, <2>2, <2>3 DEF TypeOK
<1>7. SyncInv'
  BY <1>1 DEF SyncInv
<1>8. Unreleased' \subseteq Unreleased
  BY <1>1, <1>2 DEF Unreleased, Look
<1> QED  BY <1>1, <1>2, <1>6, <1>7, <1>8, LookKeeps DEF IInv

(* AccessUnitBatcher::insert keeps the invariant, the limit included.      *)
LEMMA InsertStep ==
  ASSUME IInv, NEW u \in All, Insert(u)
  PROVE  IInv'
<1>1. /\ Look(u) /\ completed' = Tail(completed)
      /\ pending' = pending \cup {u} /\ ~NeedsOrigin(u) /\ ~Overflows(u)
      /\ UNCHANGED <<awaitingSync, followers, initial, released>>
  BY DEF Insert, sync
<1>2. /\ u \in Elements(completed)
      /\ completed' \in Seq(All) /\ Elements(completed)' \subseteq Elements(completed)
  BY <1>1, LookTypes
<1>3. Cardinality(Batches') <= MaxPending
  <2>1. Batches' = Batches \cup {PictureOf(u)}
    BY <1>1 DEF Batches
  <2>2. IsFiniteSet(Batches) /\ Cardinality(Batches) \in Nat
    BY BatchesFinite DEF IInv, TypeOK, Batches
  <2>3. Cardinality(Batches') =
          IF PictureOf(u) \in Batches THEN Cardinality(Batches) ELSE Cardinality(Batches) + 1
    BY <2>1, <2>2, FS_AddElement
  <2> QED  BY <1>1, <2>2, <2>3, AssemblerAssumption DEF IInv, TypeOK, Overflows
<1>4. TypeOK'
  BY <1>1, <1>2, <1>3 DEF IInv, TypeOK, Look
<1>5. SyncInv'
  BY <1>1 DEF IInv, SyncInv, NeedsOrigin
<1>6. Unreleased' \subseteq Unreleased
  BY <1>1, <1>2 DEF Unreleased, Look
<1> QED  BY <1>1, <1>2, <1>4, <1>5, <1>6, LookKeeps DEF IInv

(* A unit ignored as late keeps the invariant.                             *)
LEMMA IgnoreLateStep ==
  ASSUME IInv, NEW u \in All, IgnoreLate(u)
  PROVE  IInv'
<1>1. /\ Look(u) /\ completed' = Tail(completed)
      /\ UNCHANGED <<awaitingSync, followers, pending, initial, released>>
  BY DEF IgnoreLate, sync, batcher
<1>2. completed' \in Seq(All) /\ Elements(completed)' \subseteq Elements(completed)
  BY <1>1, LookTypes
<1>3. TypeOK'
  BY <1>1, <1>2 DEF IInv, TypeOK, Look, Batches
<1>4. SyncInv'
  BY <1>1 DEF IInv, SyncInv
<1>5. Unreleased' \subseteq Unreleased
  BY <1>1, <1>2 DEF Unreleased, Look
<1> QED  BY <1>1, <1>2, <1>3, <1>4, <1>5, LookKeeps DEF IInv

(* Giving up the chain leaves only what is still to come. *)
LEMMA RecoveryStep ==
  ASSUME IInv, EnterSyncRecovery, UNCHANGED <<coming, frames>>,
         call' \in {"idle", "receive"}, resets' \in 0 .. MaxResets, orderly' \in BOOLEAN
  PROVE  IInv'
<1>1. /\ pending' = {} /\ initial' = NoOrder /\ released' = NoOrder
      /\ awaitingSync' = TRUE /\ followers' = {} /\ completed' = <<>>
      /\ Elements(completed') = {}
  BY ElementsOf DEF EnterSyncRecovery, Elements
<1>2. TypeOK'
  <2>1. Batches' = {} /\ Cardinality({}) = 0 /\ MaxPending \in Nat
    BY <1>1, FS_EmptySet, AssemblerAssumption DEF Batches
  <2> QED  BY <1>1, <2>1, UnitsLength DEF IInv, TypeOK, NoOrder
<1>3. SyncInv'
  BY <1>1 DEF SyncInv
<1>4. BandInv'
  BY <1>1 DEF BandInv
<1>5. HandedInv'
  BY <1>1 DEF IInv, HandedInv, Handed, Unreleased
<1> QED  BY <1>2, <1>3, <1>4, <1>5 DEF IInv

(* take_ready keeps the invariant: the batch's last unit is the last one   *)
(* handed on.                                                              *)
LEMMA ReleaseStep ==
  ASSUME IInv, NEW u \in pending, Release(u)
  PROVE  IInv'
<1> DEFINE b == Batch(PictureOf(u))
           n == Cardinality(b)
           last == u + n - 1
<1>1. IsReady(u) /\ completed = <<>>
  BY DEF Release
<1>2. /\ n \in Nat \ {0} /\ b = u .. last /\ UnitsOf(PictureOf(u)) = b
      /\ InDecodeOrder(b) = SentPicture(PictureOf(u))
      /\ SentPicture(PictureOf(u)) = [i \in 1 .. n |-> u + i - 1]
      /\ Plus(Expected, n - 1) = Order(last)
  BY <1>1, ReadyBatch
<1>3. /\ frames' = Append(frames, SentPicture(PictureOf(u)))
      /\ pending' = pending \ b
      /\ released' = Order(last)
      /\ call' = "idle"
      /\ UNCHANGED <<coming, completed, awaitingSync, followers, initial, resets, orderly>>
  BY <1>2 DEF Release, sync
<1>4. /\ u \in Nat /\ b \subseteq pending /\ b \subseteq All
  BY UnitTypes DEF IInv, TypeOK, Batch
<1> HIDE DEF b, n
<1>5. last \in b /\ last \in All /\ last \in Nat /\ PictureOf(last) = PictureOf(u)
  <2>1. last \in b /\ last \in Nat
    BY <1>2, <1>4
  <2> QED  BY <1>2, <1>4, <2>1 DEF UnitsOf
<1> HIDE DEF last
<1>6. ~awaitingSync /\ followers = {}
  BY DEF IInv, SyncInv
<1>7. TypeOK'
  <2>1. Cardinality(Batches') <= MaxPending
    <3>1. IsFiniteSet(Batches) /\ Cardinality(Batches) \in Nat
      BY BatchesFinite DEF IInv, TypeOK, Batches
    <3>2. Batches' \in SUBSET Batches
      BY <1>3 DEF Batches
    <3>3. Cardinality(Batches') \in Nat /\ Cardinality(Batches') <= Cardinality(Batches)
      BY <3>1, <3>2, FS_Subset, FS_CardinalityType
    <3> QED  BY <3>1, <3>3, AssemblerAssumption DEF IInv, TypeOK
  <2>2. frames' \in Seq(Seq(All))
    <3>1. \A i \in 1 .. n : u + i - 1 \in All
      BY <1>2, <1>4 DEF last
    <3>2. SentPicture(PictureOf(u)) \in Seq(All)
      BY <1>2, <3>1
    <3> QED  BY <1>3, <3>2 DEF IInv, TypeOK
  <2>3. released' \in -1 .. OrderModulus - 1
    BY <1>3, <1>5, OrderRange
  <2> QED  BY <1>3, <2>1, <2>2, <2>3 DEF IInv, TypeOK
<1>8. SyncInv'
  BY <1>3, <1>5, <1>6, OrderRange DEF SyncInv
<1>9. BandInv'
  BY <1>3 DEF IInv, BandInv
<1>10. HandedInv'
  <2>0. PICK r \in All : r = last
    BY <1>5
  <2>1. frames' # <<>> /\ frames'[Len(frames')] = SentPicture(PictureOf(r))
    BY <1>3, <1>5, <2>0 DEF IInv, TypeOK
  <2>2. ASSUME r + 1 \in All
        PROVE  PictureOf(r + 1) = PictureOf(r) + 1
    <3>1. r + 1 \notin UnitsOf(PictureOf(u))
      BY <1>2, <1>4, <1>5, <2>0 DEF last
    <3> QED  BY <1>5, <2>0, <2>2, <3>1, NextUnit DEF UnitsOf
  <2>3. ASSUME NEW v \in Unreleased', Slot(v) = Slot(r)
        PROVE  r < v
    <3>1. v \in coming
      BY <1>1, <1>3, <1>5, <1>6, <2>3, OrderRange DEF Unreleased, Elements
    <3> QED  BY <1>4, <1>5, <2>0, <2>3, <3>1 DEF IInv, BandInv
  <2>4. Handed(r)'
    BY <1>3, <2>0, <2>1, <2>2, <2>3 DEF Handed
  <2> QED  BY <2>4 DEF HandedInv
<1> QED  BY <1>7, <1>8, <1>9, <1>10 DEF IInv

(* The invariant holds of a new assembler.                                 *)
LEMMA InitIInv == Init => IInv
<1> SUFFICES ASSUME Init PROVE IInv
  OBVIOUS
<1>1. Batches = {} /\ Cardinality({}) = 0 /\ MaxPending \in Nat /\ Elements(<<>>) = {}
  BY FS_EmptySet, AssemblerAssumption DEF Init, Batches, Elements
<1>2. TypeOK
  BY <1>1, UnitsLength, AssemblerAssumption DEF Init, TypeOK, NoOrder
<1>3. SyncInv /\ BandInv /\ HandedInv
  BY <1>1 DEF Init, SyncInv, BandInv, HandedInv
<1> QED  BY <1>2, <1>3 DEF IInv

(* Every step of Next keeps the invariant.                                 *)
LEMMA StepIInv == IInv /\ [Next]_vars => IInv'
<1> SUFFICES ASSUME IInv, [Next]_vars PROVE IInv'
  OBVIOUS
<1>1. ASSUME NEW u \in coming, Complete(u) PROVE IInv'
  BY <1>1, CompleteStep
<1>2. ASSUME NEW u \in All, Receive(u) PROVE IInv'
  <2>1. CASE HoldFollower(u)
    BY <2>1, HoldFollowerStep
  <2>2. CASE BeginChain(u)
    BY <2>2, BeginChainStep
  <2>3. CASE Insert(u)
    BY <2>3, InsertStep
  <2>4. CASE IgnoreLate(u)
    BY <2>4, IgnoreLateStep
  <2>5. CASE ChainFails(u)
    <3>1. EnterSyncRecovery /\ UNCHANGED <<coming, frames>> /\ call' = "receive"
      BY <2>5 DEF ChainFails, Look
    <3>2. resets' \in 0 .. MaxResets /\ orderly' \in BOOLEAN
      BY <2>5 DEF ChainFails, Look, IInv, TypeOK
    <3> QED  BY <3>1, <3>2, RecoveryStep
  <2> QED  BY <1>2, <2>1, <2>2, <2>3, <2>4, <2>5 DEF Receive
<1>3. ASSUME NEW u \in pending, Release(u) PROVE IInv'
  BY <1>3, ReleaseStep
<1>4. CASE ReceiveNothing
  <2>1. UNCHANGED <<coming, completed, awaitingSync, followers, pending, initial, released,
                    frames, resets, orderly>> /\ call' = "idle"
    BY <1>4 DEF ReceiveNothing, sync, batcher
  <2> QED  BY <2>1 DEF IInv, TypeOK, SyncInv, BandInv, HandedInv, Handed, Unreleased,
                       Batches, Elements
<1>5. CASE RequestKeyframe
  <2>1. EnterSyncRecovery /\ UNCHANGED <<coming, frames, call>> /\ call = "idle"
    BY <1>5 DEF RequestKeyframe
  <2>2. orderly' \in BOOLEAN
    BY <1>5 DEF RequestKeyframe
  <2>3. resets \in 0 .. MaxResets /\ resets < MaxResets /\ resets' = resets + 1
    BY <1>5 DEF RequestKeyframe, IInv, TypeOK
  <2>4. resets' \in 0 .. MaxResets
    BY <2>3, AssemblerAssumption
  <2> QED  BY <2>1, <2>2, <2>4, RecoveryStep
<1>6. CASE UNCHANGED vars
  <2>1. UNCHANGED <<coming, completed, call, awaitingSync, followers, pending, initial, released,
                    frames, resets, orderly>>
    BY <1>6 DEF vars, sync, batcher
  <2> QED  BY <2>1 DEF IInv, TypeOK, SyncInv, BandInv, HandedInv, Handed, Unreleased,
                       Batches, Elements
<1> QED  BY <1>1, <1>2, <1>3, <1>4, <1>5, <1>6 DEF Next

(* The invariant holds in every behaviour.                                 *)
THEOREM InvariantHolds == Spec => []IInv
BY InitIInv, StepIInv, PTL DEF Spec

(* Every variable keeps its type, and the batcher never holds more than    *)
(* MAX_PENDING_FRAME_BATCHES pictures.                                     *)
THEOREM TypeCorrect == Spec => []TypeOK
<1>1. IInv => TypeOK
  BY DEF IInv
<1> QED  BY <1>1, InvariantHolds, PTL

(* A step hands on one picture that continues the chain, or none at all.   *)
LEMMA ChainStep ==
  ASSUME IInv, [Next]_vars
  PROVE  [Chain!ChainNext]_frames
<1>1. ASSUME NEW u \in pending, Release(u)
      PROVE  Chain!ChainNext
  <2> DEFINE p == PictureOf(u)
             Picture == [q \in Pictures |-> SentPicture(q)]
  <2>1. /\ u \in All
        /\ \/ IsSync(u)
           \/ \E r \in All : Handed(r) /\ p = PictureOf(r) + 1
        /\ frames # <<>> => \E r \in All : Handed(r) /\ PictureOf(r) < p
    BY <1>1, ReadyUnit DEF Release
  <2>2. frames' = Append(frames, SentPicture(p))
    BY <1>1, ReadyBatch DEF Release
  <2>3. /\ p \in Pictures /\ p \in Nat \ {0} /\ DOMAIN Picture = Pictures
        /\ \A r \in All : PictureOf(r) \in Pictures /\ PictureOf(r) \in Nat \ {0}
        /\ \A q \in Pictures : Picture[q] = SentPicture(q)
    BY <2>1, UnitTypes
  <2>4. frames # <<>> => \E q \in 1 .. p - 1 : frames[Len(frames)] = Picture[q]
    BY <2>1, <2>3 DEF Handed
  <2>5. CASE IsSync(u)
    <3>1. p \in {PictureOf(v) : v \in {w \in All : IsSync(w)}}
      BY <2>1, <2>5
    <3>2. Chain!Show(p)
      BY <2>2, <2>3, <2>4, <3>1 DEF Chain!Show, Chain!IsLater
    <3> QED  BY <2>3, <3>2 DEF Chain!ChainNext
  <2>6. CASE \E r \in All : Handed(r) /\ p = PictureOf(r) + 1
    <3>1. PICK r \in All : Handed(r) /\ p = PictureOf(r) + 1
      BY <2>6
    <3>2. frames # <<>> /\ p > 1 /\ frames[Len(frames)] = Picture[p - 1]
      BY <2>3, <3>1 DEF Handed
    <3>3. Chain!Show(p)
      BY <2>2, <2>3, <2>4, <3>2 DEF Chain!Show, Chain!IsLater, Chain!Follows
    <3> QED  BY <2>3, <3>3 DEF Chain!ChainNext
  <2> QED  BY <2>1, <2>5, <2>6
<1>2. ASSUME NEW u \in coming, Complete(u) PROVE frames' = frames
  BY <1>2 DEF Complete
<1>3. ASSUME NEW u \in All, Receive(u) PROVE frames' = frames
  BY <1>3 DEF Receive, HoldFollower, BeginChain, Insert, IgnoreLate, ChainFails, Look
<1>4. ReceiveNothing \/ RequestKeyframe \/ UNCHANGED vars => frames' = frames
  BY DEF ReceiveNothing, RequestKeyframe, vars
<1> QED  BY <1>1, <1>2, <1>3, <1>4 DEF Next

(* Whatever is lost, delayed or reordered between bands, what the          *)
(* assembler hands on is a prediction chain.                               *)
THEOREM AssemblerImplementsChain == Spec => ImplementsChain
<1>1. Init => Chain!ChainInit
  BY DEF Init, Chain!ChainInit
<1>2. IInv /\ [Next]_vars => [Chain!ChainNext]_frames
  BY ChainStep
<1> QED  BY <1>1, <1>2, InvariantHolds, PTL DEF Spec, ImplementsChain, Chain!ChainSpec

-----------------------------------------------------------------------------
(* The way of the decoded pictures to the screen.                          *)

CONSTANTS Places, Sizes, Contents, Coded, Tables
VARIABLES
  kind, layout, mailbox, attached, decoded, native, presentNative, tiles,
  payload, tilesWait, bound, screen, published, seen

Path == INSTANCE PicturePath WITH pending <- tilesWait

(* The inductive invariant.                                                *)

(* What waits in the mailbox is part of what was published and not empty,  *)
(* a whole picture if it is a snapshot; what was published, this session   *)
(* published.                                                              *)
MailboxInv ==
  /\ mailbox # Path!NoPicture => Path!SameFormat(mailbox, published) /\ DOMAIN mailbox.parts # {}
  /\ mailbox # Path!NoPicture /\ kind = "pixels" => DOMAIN mailbox.parts = Places
  /\ \A p \in DOMAIN mailbox.parts :
       p \in DOMAIN published.parts /\ mailbox.parts[p] = published.parts[p]
  /\ Path!Entries(published) \subseteq seen

(* What is published of a native picture is the whole of it, in one        *)
(* colour; the compositor knows the layout of that picture or none.        *)
BandsInv ==
  kind = "bands" =>
    /\ published # Path!NoPicture => DOMAIN published.parts = Places
    /\ \A p \in DOMAIN published.parts : published.parts[p].table = published.table
    /\ \A known \in layout : published # Path!NoPicture /\ Path!SameFormat(known, published)

(* The tiles sent to the texture d: those that do not wait are in it, and  *)
(* those that wait are in the buffer b.                                    *)
TilesAgree(d, t, b, waits) ==
  /\ t # Path!NoTiles => t.size = d.size
  /\ \A p \in DOMAIN t.parts :
       IF waits /\ p \in t.dirty THEN p \in DOMAIN b /\ b[p] = t.parts[p]
       ELSE p \in DOMAIN d.parts /\ d.parts[p] = t.parts[p]
  /\ waits => t.dirty # {} /\ DOMAIN b = t.dirty
  /\ t.dirty \subseteq DOMAIN t.parts

(* The native textures n, shown or not: a whole picture in one colour.     *)
BandsAgree(n, shown) ==
  /\ shown <=> n # Path!NoPicture
  /\ n # Path!NoPicture =>
       DOMAIN n.parts = Places /\ \A p \in Places : n.parts[p].table = n.table

(* The renderer has what belongs to the session's kind of pictures, and    *)
(* nothing that the session did not publish.                               *)
Agree(d, n, shown, t, b, waits) ==
  /\ kind = "bands" => d = Path!NoPicture
  /\ kind # "bands" => n = Path!NoPicture
  /\ kind # "tiles" => t = Path!NoTiles /\ ~waits
  /\ TilesAgree(d, t, b, waits) /\ BandsAgree(n, shown)
  /\ Path!Entries(d) \cup Path!Entries(n) \cup Path!Entries(t) \subseteq seen

(* The picture the next redraw shows. *)
Future(d, n, b, waits) ==
  IF kind = "bands" THEN n
  ELSE Path!Frame(d.size, Path!None, IF waits THEN Path!Over(b, d.parts) ELSE d.parts)

(* What was published and does not wait in the mailbox is in picture f.    *)
AllShown(f) ==
  /\ mailbox = Path!NoPicture /\ published # Path!NoPicture => f.size = published.size
  /\ \A p \in DOMAIN published.parts \ DOMAIN mailbox.parts :
       f.size = published.size /\ p \in DOMAIN f.parts /\ f.parts[p] = published.parts[p]

RendererInv ==
  /\ attached => Agree(decoded, native, presentNative, tiles, payload, tilesWait)
  /\ IF attached THEN AllShown(Future(decoded, native, payload, tilesWait)) ELSE AllShown(Path!NoPicture)
  /\ tilesWait => bound /\ DOMAIN payload # {}

PathInv == Path!TypeOK /\ MailboxInv /\ BandsInv /\ RendererInv

-----------------------------------------------------------------------------
(* Partial functions from places to values, and one laid over another.     *)

LEMMA PartsShape ==
  ASSUME NEW f
  PROVE  f \in Path!Parts <=> /\ f = [p \in DOMAIN f |-> f[p]] /\ DOMAIN f \subseteq Places
                              /\ \A p \in DOMAIN f : f[p] \in Path!Values
<1>1. ASSUME f \in Path!Parts
      PROVE  /\ f = [p \in DOMAIN f |-> f[p]] /\ DOMAIN f \subseteq Places
             /\ \A p \in DOMAIN f : f[p] \in Path!Values
  <2>1. PICK D \in SUBSET Places : f \in [D -> Path!Values]
    BY <1>1 DEF Path!Parts
  <2> QED  BY <2>1
<1>2. ASSUME f = [p \in DOMAIN f |-> f[p]], DOMAIN f \subseteq Places,
             \A p \in DOMAIN f : f[p] \in Path!Values
      PROVE  f \in Path!Parts
  <2>1. f \in [DOMAIN f -> Path!Values]
    BY <1>2
  <2> QED  BY <1>2, <2>1 DEF Path!Parts
<1> QED  BY <1>1, <1>2

LEMMA OverParts ==
  ASSUME NEW a \in Path!Parts, NEW b \in Path!Parts
  PROVE  Path!Over(a, b) \in Path!Parts
<1>1. /\ DOMAIN a \subseteq Places /\ DOMAIN b \subseteq Places
      /\ \A p \in DOMAIN a : a[p] \in Path!Values
      /\ \A p \in DOMAIN b : b[p] \in Path!Values
  BY PartsShape
<1>2. Path!Over(a, b) = [p \in DOMAIN Path!Over(a, b) |-> Path!Over(a, b)[p]]
  BY DEF Path!Over
<1>3. DOMAIN Path!Over(a, b) \subseteq Places /\ \A p \in DOMAIN Path!Over(a, b) : Path!Over(a, b)[p] \in Path!Values
  BY <1>1 DEF Path!Over
<1> QED  BY <1>2, <1>3, PartsShape

LEMMA Blank == Path!Nothing \in Path!Parts /\ Path!NoPicture \in Path!Pictures /\ DOMAIN Path!Nothing = {}
<1>1. Path!Nothing = [p \in DOMAIN Path!Nothing |-> Path!Nothing[p]] /\ DOMAIN Path!Nothing = {}
  BY DEF Path!Nothing
<1>2. Path!Nothing \in Path!Parts
  BY <1>1, PartsShape
<1> QED  BY <1>1, <1>2 DEF Path!NoPicture, Path!Pictures

LEMMA FrameShape ==
  ASSUME NEW s, NEW t, NEW f
  PROVE  Path!Frame(s, t, f).size = s /\ Path!Frame(s, t, f).table = t /\ Path!Frame(s, t, f).parts = f
  BY DEF Path!Frame

LEMMA JoinedShape ==
  ASSUME NEW frame \in Path!Pictures, NEW older \in Path!Pictures
  PROVE  /\ Path!Joined(frame, older) \in Path!Pictures
         /\ Path!Joined(frame, older).size = frame.size /\ Path!Joined(frame, older).table = frame.table
         /\ \A p \in DOMAIN frame.parts :
              p \in DOMAIN Path!Joined(frame, older).parts /\ Path!Joined(frame, older).parts[p] = frame.parts[p]
         /\ Path!SameFormat(frame, older) =>
              /\ DOMAIN Path!Joined(frame, older).parts = DOMAIN frame.parts \cup DOMAIN older.parts
              /\ \A p \in DOMAIN older.parts \ DOMAIN frame.parts :
                   Path!Joined(frame, older).parts[p] = older.parts[p]
         /\ ~Path!SameFormat(frame, older) => Path!Joined(frame, older).parts = frame.parts
         /\ frame # Path!NoPicture => Path!Joined(frame, older) # Path!NoPicture
<1> DEFINE joined == Path!Joined(frame, older)
<1>1. frame.parts \in Path!Parts /\ Path!Over(frame.parts, older.parts) \in Path!Parts
  BY OverParts DEF Path!Pictures
<1>2. joined \in Path!Pictures
  BY <1>1 DEF Path!Joined, Path!Frame, Path!Pictures
<1>3. /\ joined.size = frame.size /\ joined.table = frame.table
      /\ joined.parts = IF Path!SameFormat(frame, older) THEN Path!Over(frame.parts, older.parts) ELSE frame.parts
  BY DEF Path!Joined, Path!Frame
<1>4. CASE Path!SameFormat(frame, older)
  <2>1. joined.parts = Path!Over(frame.parts, older.parts)
    BY <1>3, <1>4
  <2>2. /\ DOMAIN joined.parts = DOMAIN frame.parts \cup DOMAIN older.parts
        /\ \A p \in DOMAIN frame.parts : joined.parts[p] = frame.parts[p]
        /\ \A p \in DOMAIN older.parts \ DOMAIN frame.parts : joined.parts[p] = older.parts[p]
    BY <2>1 DEF Path!Over
  <2>3. ASSUME joined = Path!NoPicture PROVE frame = Path!NoPicture
    <3>1. DOMAIN joined.parts = {} /\ frame.size = Path!None /\ frame.table = Path!None
      BY <2>3, <1>3, Blank DEF Path!NoPicture
    <3>2. DOMAIN frame.parts = {}
      BY <3>1, <2>2
    <3>3. frame.parts = Path!Nothing
      BY <3>2, <1>1, Blank, PartsShape DEF Path!Nothing
    <3> QED  BY <3>1, <3>3 DEF Path!Pictures, Path!NoPicture
  <2> QED  BY <1>2, <1>3, <1>4, <2>2, <2>3
<1>5. CASE ~Path!SameFormat(frame, older)
  <2>1. joined = frame
    BY <1>5 DEF Path!Joined, Path!Frame, Path!Pictures
  <2> QED  BY <1>2, <1>3, <1>5, <2>1
<1> QED  BY <1>4, <1>5

-----------------------------------------------------------------------------
(* The frames a session publishes.                                         *)

(* What each of the three kinds of frames is. *)
IsFrame(frame) ==
  /\ frame \in Path!Pictures /\ DOMAIN frame.parts # {}
  /\ layout' \subseteq [size : Sizes, table : Tables]
  /\ kind = "pixels" => DOMAIN frame.parts = Places
  /\ kind = "bands" =>
       /\ \A p \in DOMAIN frame.parts : frame.parts[p].table = frame.table
       /\ layout' # {} /\ \A known \in layout' : Path!SameFormat(known, frame)
       /\ DOMAIN frame.parts = Places \/ layout = layout'
  /\ kind # "bands" => layout' = layout

(* Publishing keeps the invariant: what was published and is not in the    *)
(* frame stays where it was, in the mailbox or in the renderer, or is gone *)
(* with its format.                                                        *)
LEMMA PublishKeeps ==
  ASSUME PathInv, NEW frame, IsFrame(frame), Path!Publish(frame)
  PROVE  PathInv'
<1> DEFINE joins == Path!SameFormat(frame, published)
<1>1. /\ mailbox \in Path!Pictures /\ published \in Path!Pictures /\ frame \in Path!Pictures
      /\ mailbox' = Path!Joined(frame, mailbox) /\ published' = Path!Joined(frame, published)
      /\ seen' = seen \cup Path!Entries(frame)
      /\ UNCHANGED <<kind, Path!renderer>>
  BY DEF PathInv, Path!TypeOK, Path!Publish, IsFrame
<1>2. Path!TypeOK'
  <2>1. mailbox' \in Path!Pictures /\ published' \in Path!Pictures
    BY <1>1, JoinedShape
  <2> QED  BY <1>1, <2>1 DEF PathInv, Path!TypeOK, Path!renderer, IsFrame
<1>3. /\ mailbox'.size = frame.size /\ mailbox'.table = frame.table
      /\ published'.size = frame.size /\ published'.table = frame.table
  BY <1>1, JoinedShape
<1>4. /\ joins => /\ DOMAIN published'.parts = DOMAIN frame.parts \cup DOMAIN published.parts
                  /\ \A p \in DOMAIN published.parts \ DOMAIN frame.parts :
                       published'.parts[p] = published.parts[p]
      /\ ~joins => published'.parts = frame.parts
      /\ \A p \in DOMAIN frame.parts :
           p \in DOMAIN published'.parts /\ published'.parts[p] = frame.parts[p]
  BY <1>1, JoinedShape
<1>5. /\ Path!SameFormat(frame, mailbox) =>
           /\ DOMAIN mailbox'.parts = DOMAIN frame.parts \cup DOMAIN mailbox.parts
           /\ \A p \in DOMAIN mailbox.parts \ DOMAIN frame.parts :
                mailbox'.parts[p] = mailbox.parts[p]
      /\ ~Path!SameFormat(frame, mailbox) => mailbox'.parts = frame.parts
      /\ \A p \in DOMAIN frame.parts :
           p \in DOMAIN mailbox'.parts /\ mailbox'.parts[p] = frame.parts[p]
  BY <1>1, JoinedShape
<1>6. mailbox = Path!NoPicture => DOMAIN mailbox.parts = {}
  BY Blank DEF Path!NoPicture
<1>7. mailbox # Path!NoPicture => (Path!SameFormat(frame, mailbox) <=> joins)
  BY DEF PathInv, MailboxInv, Path!SameFormat
<1>8. mailbox' # Path!NoPicture /\ published' # Path!NoPicture
  BY <1>1, JoinedShape, Blank DEF IsFrame, Path!NoPicture
<1>9. MailboxInv'
  <2>1. Path!SameFormat(mailbox', published')
    BY <1>3 DEF Path!SameFormat
  <2>2. /\ DOMAIN mailbox'.parts # {}
        /\ kind' = "pixels" => DOMAIN mailbox'.parts = Places
    <3>1. DOMAIN mailbox'.parts \subseteq Places
      BY <1>2, PartsShape DEF Path!TypeOK, Path!Pictures
    <3> QED  BY <3>1, <1>1, <1>5 DEF IsFrame
  <2>3. \A p \in DOMAIN mailbox'.parts :
          p \in DOMAIN published'.parts /\ mailbox'.parts[p] = published'.parts[p]
    BY <1>4, <1>5, <1>6, <1>7 DEF PathInv, MailboxInv
  <2>4. Path!Entries(published') \subseteq seen'
    BY <1>1, <1>3, <1>4 DEF PathInv, MailboxInv, Path!Entries, Path!SameFormat
  <2> QED  BY <2>1, <2>2, <2>3, <2>4 DEF MailboxInv
<1>10. BandsInv'
  <2> SUFFICES ASSUME kind = "bands" PROVE BandsInv'
    BY <1>1 DEF BandsInv
  <2>1. layout # {} => DOMAIN published.parts = Places /\ \A known \in layout : Path!SameFormat(known, published)
    BY DEF PathInv, BandsInv
  <2>2. /\ layout' # {} /\ \A known \in layout' : Path!SameFormat(known, frame)
        /\ DOMAIN frame.parts = Places \/ layout = layout'
    BY DEF IsFrame
  <2>3. DOMAIN frame.parts \subseteq Places /\ DOMAIN published.parts \subseteq Places
    BY <1>1, PartsShape DEF Path!Pictures
  <2>4. DOMAIN published'.parts = Places
    BY <1>4, <2>1, <2>2, <2>3 DEF Path!SameFormat
  <2>5. \A p \in DOMAIN published'.parts : published'.parts[p].table = published'.table
    BY <1>3, <1>4 DEF PathInv, BandsInv, IsFrame, Path!SameFormat
  <2> QED  BY <1>3, <1>8, <2>4, <2>5 DEF BandsInv, IsFrame, Path!SameFormat
<1>11. RendererInv'
  <2>1. Future(decoded, native, payload, tilesWait)' = Future(decoded, native, payload, tilesWait)
    BY <1>1 DEF Future, Path!renderer
  <2>2. ASSUME NEW f, AllShown(f) PROVE AllShown(f)'
    BY <2>2, <1>3, <1>4, <1>5, <1>6, <1>7, <1>8 DEF AllShown, Path!SameFormat
  <2>3. AllShown(Future(decoded, native, payload, tilesWait)) => AllShown(Future(decoded, native, payload, tilesWait))'
    BY <2>1, <2>2
  <2> QED  BY <1>1, <2>2, <2>3 DEF PathInv, RendererInv, Agree, TilesAgree, BandsAgree,
              Path!renderer
<1> QED  BY <1>2, <1>9, <1>10, <1>11 DEF PathInv

LEMMA QueueTilesKeeps == PathInv /\ Path!QueueTiles => PathInv'
<1> SUFFICES ASSUME PathInv, Path!QueueTiles PROVE PathInv'
  OBVIOUS
<1>1. PICK size \in Sizes, table \in Tables, changed \in (SUBSET Places) \ {{}} :
        \E content \in [changed -> Contents] :
          Path!Publish(Path!Frame(size, Path!None,
                        [p \in changed |-> [content |-> content[p],
                                            table |-> IF content[p] \in Coded THEN table ELSE Path!None]]))
  BY DEF Path!QueueTiles
<1>2. PICK content \in [changed -> Contents] :
        Path!Publish(Path!Frame(size, Path!None,
                      [p \in changed |-> [content |-> content[p],
                                          table |-> IF content[p] \in Coded THEN table ELSE Path!None]]))
  BY <1>1
<1> DEFINE parts == [p \in changed |-> [content |-> content[p],
                                       table |-> IF content[p] \in Coded THEN table ELSE Path!None]]
           frame == Path!Frame(size, Path!None, parts)
<1>3. parts \in [changed -> Path!Values]
  BY DEF Path!Values
<1>4. frame \in Path!Pictures /\ DOMAIN frame.parts # {}
  BY <1>3 DEF Path!Frame, Path!Pictures, Path!Parts
<1>5. kind = "tiles" /\ layout' = layout
  BY DEF Path!QueueTiles
<1>6. IsFrame(frame)
  BY <1>4, <1>5 DEF IsFrame, PathInv, Path!TypeOK
<1>7. Path!Publish(frame)
  BY <1>2
<1> HIDE DEF frame, parts
<1> QED  BY <1>6, <1>7, PublishKeeps

LEMMA QueuePixelsKeeps == PathInv /\ Path!QueuePixels => PathInv'
<1> SUFFICES ASSUME PathInv, Path!QueuePixels PROVE PathInv'
  OBVIOUS
<1>1. PICK size \in Sizes : \E content \in [Places -> Contents] :
        Path!Publish(Path!Frame(size, Path!None, [p \in Places |-> [content |-> content[p], table |-> Path!None]]))
  BY DEF Path!QueuePixels
<1>2. PICK content \in [Places -> Contents] :
        Path!Publish(Path!Frame(size, Path!None, [p \in Places |-> [content |-> content[p], table |-> Path!None]]))
  BY <1>1
<1> DEFINE parts == [p \in Places |-> [content |-> content[p], table |-> Path!None]]
           frame == Path!Frame(size, Path!None, parts)
<1>3. parts \in [Places -> Path!Values]
  BY DEF Path!Values
<1>4. frame \in Path!Pictures /\ DOMAIN frame.parts = Places
  BY <1>3 DEF Path!Frame, Path!Pictures, Path!Parts
<1>5. kind = "pixels" /\ layout' = layout /\ Places # {}
  BY DEF Path!QueuePixels
<1>6. IsFrame(frame)
  BY <1>4, <1>5 DEF IsFrame, PathInv, Path!TypeOK
<1>7. Path!Publish(frame)
  BY <1>2
<1> HIDE DEF frame, parts
<1> QED  BY <1>6, <1>7, PublishKeeps

LEMMA QueueBandsKeeps == PathInv /\ Path!QueueBands => PathInv'
<1> SUFFICES ASSUME PathInv, Path!QueueBands PROVE PathInv'
  OBVIOUS
<1>1. PICK size \in Sizes, table \in Tables, changed \in (SUBSET Places) \ {{}} :
        /\ changed = Places \/ layout = {[size |-> size, table |-> table]}
        /\ layout' = {[size |-> size, table |-> table]}
        /\ \E content \in [changed -> Contents] :
             Path!Publish(Path!Frame(size, table, [p \in changed |-> [content |-> content[p], table |-> table]]))
  BY DEF Path!QueueBands
<1>2. PICK content \in [changed -> Contents] :
        Path!Publish(Path!Frame(size, table, [p \in changed |-> [content |-> content[p], table |-> table]]))
  BY <1>1
<1> DEFINE parts == [p \in changed |-> [content |-> content[p], table |-> table]]
           frame == Path!Frame(size, table, parts)
<1>3. parts \in [changed -> Path!Values]
  BY DEF Path!Values
<1>4. /\ frame \in Path!Pictures /\ DOMAIN frame.parts = changed /\ frame.size = size /\ frame.table = table
      /\ \A p \in DOMAIN frame.parts : frame.parts[p].table = frame.table
  BY <1>3 DEF Path!Frame, Path!Pictures, Path!Parts
<1>5. kind = "bands" /\ Path!Publish(frame)
  BY <1>2 DEF Path!QueueBands
<1>6. IsFrame(frame)
  <2> HIDE DEF frame
  <2>1. layout' \subseteq [size : Sizes, table : Tables] /\ layout' # {}
    BY <1>1
  <2>2. \A known \in layout' : Path!SameFormat(known, frame)
    BY <1>1, <1>4 DEF Path!SameFormat
  <2>3. DOMAIN frame.parts = Places \/ layout = layout'
    BY <1>1, <1>4
  <2>4. DOMAIN frame.parts # {}
    BY <1>4
  <2> QED  BY <1>4, <1>5, <2>1, <2>2, <2>3, <2>4 DEF IsFrame
<1> HIDE DEF frame, parts
<1> QED  BY <1>5, <1>6, PublishKeeps

LEMMA ResetKeeps == PathInv /\ Path!CompositorResets => PathInv'
  BY DEF PathInv, Path!CompositorResets, Path!renderer, Path!TypeOK, MailboxInv, BandsInv,
     RendererInv, Agree,
         TilesAgree, BandsAgree, AllShown, Future

LEMMA NewSessionKeeps == PathInv /\ Path!NewSession => PathInv'
<1> SUFFICES ASSUME PathInv, Path!NewSession PROVE PathInv'
  OBVIOUS
<1>1. Path!TypeOK'
  BY Blank DEF PathInv, Path!TypeOK, Path!NewSession
<1>2. published'.parts = Path!Nothing /\ mailbox'.parts = Path!Nothing /\ ~attached'
  BY DEF Path!NewSession, Path!NoPicture
<1> QED  BY <1>1, <1>2, Blank DEF PathInv, Path!NewSession, MailboxInv, BandsInv, RendererInv,
            AllShown, Path!Entries

-----------------------------------------------------------------------------
(* The renderer.                                                           *)

(* What the renderer has of the session: all of it, or nothing when it has *)
(* not shown the session yet.                                              *)
LEMMA OwnAgree ==
  ASSUME PathInv
  PROVE  /\ Path!OwnDecoded \in Path!Pictures /\ Path!OwnNative \in Path!Pictures
         /\ Path!OwnTiles \in [size : Sizes \cup {Path!None}, parts : Path!Parts, dirty : SUBSET Places]
         /\ Agree(Path!OwnDecoded, Path!OwnNative, attached /\ presentNative, Path!OwnTiles, payload, Path!OwnPending)
         /\ AllShown(Future(Path!OwnDecoded, Path!OwnNative, payload, Path!OwnPending))
         /\ Path!OwnPending => Path!OwnBound /\ DOMAIN payload # {}
<1>1. CASE attached
  BY <1>1 DEF PathInv, Path!TypeOK, RendererInv, Path!OwnDecoded, Path!OwnNative, Path!OwnTiles,
     Path!OwnPending, Path!OwnBound, Path!Own
<1>2. CASE ~attached
  <2>1. /\ Path!OwnDecoded = Path!NoPicture /\ Path!OwnNative = Path!NoPicture /\ Path!OwnTiles = Path!NoTiles
        /\ ~Path!OwnPending /\ ~Path!OwnBound
    BY <1>2 DEF Path!OwnDecoded, Path!OwnNative, Path!OwnTiles, Path!OwnPending, Path!OwnBound,
       Path!Own
  <2>2. Path!NoTiles \in [size : Sizes \cup {Path!None}, parts : Path!Parts, dirty : SUBSET Places]
    BY Blank DEF Path!NoTiles
  <2>3. Agree(Path!NoPicture, Path!NoPicture, FALSE, Path!NoTiles, payload, FALSE)
    <3>1. /\ Path!NoTiles.parts = Path!Nothing /\ Path!NoTiles.dirty = {} /\ Path!NoPicture.parts = Path!Nothing
          /\ DOMAIN Path!Nothing = {}
      BY Blank DEF Path!NoTiles, Path!NoPicture
    <3> QED  BY <3>1 DEF Agree, TilesAgree, BandsAgree, Path!Entries
  <2>4. Future(Path!NoPicture, Path!NoPicture, payload, FALSE) = Path!NoPicture
        \/ Future(Path!NoPicture, Path!NoPicture, payload, FALSE) = Path!Frame(Path!None, Path!None, Path!Nothing)
    BY DEF Future, Path!NoPicture
  <2>5. Path!Frame(Path!None, Path!None, Path!Nothing) = Path!NoPicture
    BY DEF Path!Frame, Path!NoPicture
  <2>6. AllShown(Path!NoPicture)
    BY <1>2 DEF PathInv, RendererInv
  <2>7. (attached /\ presentNative) = FALSE /\ Path!OwnPending = FALSE
    BY <1>2 DEF Path!OwnPending
  <2> QED  BY <2>1, <2>2, <2>3, <2>4, <2>5, <2>6, <2>7, Blank
<1> QED  BY <1>1, <1>2

(* The invariant after prepare, from what it makes of the renderer.        *)
LEMMA Prepared ==
  ASSUME PathInv, Path!Prepare, Path!TypeOK',
         Agree(decoded, native, presentNative, tiles, payload, tilesWait)',
         published # Path!NoPicture => Future(decoded, native, payload, tilesWait)'.size = published.size,
         \A p \in DOMAIN published.parts :
           /\ Future(decoded, native, payload, tilesWait)'.size = published.size
           /\ p \in DOMAIN Future(decoded, native, payload, tilesWait)'.parts
           /\ Future(decoded, native, payload, tilesWait)'.parts[p] = published.parts[p],
         tilesWait' => bound' /\ DOMAIN payload' # {}
  PROVE  PathInv'
<1>1. attached' /\ mailbox' = Path!NoPicture /\ UNCHANGED <<kind, layout, published, seen>>
  BY DEF Path!Prepare
<1>2. DOMAIN mailbox'.parts = {}
  BY <1>1, Blank DEF Path!NoPicture
<1>3. MailboxInv' /\ BandsInv'
  BY <1>1, <1>2 DEF PathInv, MailboxInv, BandsInv, Path!Entries, Path!SameFormat
<1>4. AllShown(Future(decoded, native, payload, tilesWait))'
  BY <1>1 DEF AllShown
<1> QED  BY <1>1, <1>3, <1>4 DEF PathInv, RendererInv

LEMMA KeepAllKeeps == PathInv /\ Path!Prepare /\ mailbox = Path!NoPicture => PathInv'
<1> SUFFICES ASSUME PathInv, Path!Prepare, mailbox = Path!NoPicture PROVE PathInv'
  OBVIOUS
<1>1. /\ decoded' = Path!OwnDecoded /\ native' = Path!OwnNative /\ presentNative' = (attached /\ presentNative)
      /\ tiles' = Path!OwnTiles /\ tilesWait' = Path!OwnPending /\ bound' = Path!OwnBound /\ payload' = payload
      /\ attached' = TRUE /\ mailbox' = Path!NoPicture
      /\ UNCHANGED <<kind, layout, screen, published, seen>>
  BY DEF Path!Prepare, Path!KeepAll
<1>2. Path!OwnTiles.dirty \subseteq DOMAIN Path!OwnTiles.parts
  BY OwnAgree DEF Agree, TilesAgree
<1>3. Path!TypeOK'
  BY <1>1, <1>2, OwnAgree, Blank DEF PathInv, Path!TypeOK, Path!OwnPending, Path!OwnBound
<1>4. Agree(decoded, native, presentNative, tiles, payload, tilesWait)'
  BY <1>1, OwnAgree DEF Agree, TilesAgree, BandsAgree
<1>5. Future(decoded, native, payload, tilesWait)' = Future(Path!OwnDecoded, Path!OwnNative, payload, Path!OwnPending)
  BY <1>1 DEF Future
<1>6. DOMAIN mailbox.parts = {}
  BY Blank DEF Path!NoPicture
<1>7. AllShown(Future(Path!OwnDecoded, Path!OwnNative, payload, Path!OwnPending))
  BY OwnAgree
<1> QED  BY <1>1, <1>3, <1>4, <1>5, <1>6, <1>7, OwnAgree, Prepared DEF AllShown

LEMMA PixelsKeeps == PathInv /\ Path!Prepare /\ mailbox # Path!NoPicture /\ kind = "pixels" => PathInv'
<1> SUFFICES ASSUME PathInv, Path!Prepare, mailbox # Path!NoPicture, kind = "pixels" PROVE PathInv'
  OBVIOUS
<1>1. /\ decoded' = Path!Frame(mailbox.size, Path!None, mailbox.parts)
      /\ native' = Path!OwnNative /\ presentNative' = FALSE
      /\ tiles' = Path!NoTiles /\ tilesWait' = FALSE /\ bound' = Path!KeptBound /\ payload' = payload
      /\ attached' = TRUE /\ mailbox' = Path!NoPicture
      /\ UNCHANGED <<kind, layout, screen, published, seen>>
  BY DEF Path!Prepare, Path!UploadPixels
<1>2. mailbox \in Path!Pictures /\ decoded' \in Path!Pictures
  BY <1>1 DEF PathInv, Path!TypeOK, Path!Pictures, Path!Frame
<1>3. Path!NoTiles.parts = Path!Nothing /\ Path!NoTiles.dirty = {} /\ DOMAIN Path!Nothing = {}
  BY Blank DEF Path!NoTiles
<1>4. Path!TypeOK'
  <2>1. Path!NoTiles \in [size : Sizes \cup {Path!None}, parts : Path!Parts, dirty : SUBSET Places]
    BY Blank DEF Path!NoTiles
  <2>2. bound' \in BOOLEAN
    BY <1>1 DEF Path!KeptBound, Path!OwnBound
  <2> QED  BY <1>1, <1>2, <1>3, <2>1, <2>2, OwnAgree, Blank DEF PathInv, Path!TypeOK
<1>5. Path!OwnNative = Path!NoPicture
  BY OwnAgree DEF Agree
<1>6. /\ Path!SameFormat(mailbox, published) /\ DOMAIN mailbox.parts = Places
      /\ DOMAIN published.parts \subseteq Places
      /\ \A p \in DOMAIN mailbox.parts :
           p \in DOMAIN published.parts /\ mailbox.parts[p] = published.parts[p]
      /\ Path!Entries(published) \subseteq seen
  BY PartsShape DEF PathInv, MailboxInv, Path!TypeOK, Path!Pictures
<1>7. decoded'.size = mailbox.size /\ decoded'.parts = mailbox.parts
  BY <1>1 DEF Path!Frame
<1>8. Agree(decoded, native, presentNative, tiles, payload, tilesWait)'
  <2>1. TilesAgree(decoded', tiles', payload', FALSE) /\ BandsAgree(native', FALSE)
    BY <1>1, <1>3, <1>5 DEF TilesAgree, BandsAgree
  <2>2. Path!Entries(native') = {} /\ Path!Entries(tiles') = {}
    BY <1>1, <1>3, <1>5, Blank DEF Path!Entries, Path!NoPicture
  <2>3. Path!Entries(decoded') \subseteq seen
    BY <1>6, <1>7 DEF Path!Entries, Path!SameFormat
  <2> QED  BY <1>1, <1>5, <2>1, <2>2, <2>3 DEF Agree, TilesAgree, BandsAgree
<1>9. /\ Future(decoded, native, payload, tilesWait)'.size = mailbox.size
      /\ Future(decoded, native, payload, tilesWait)'.parts = mailbox.parts
  BY <1>1, <1>7 DEF Future, Path!Frame
<1> QED  BY <1>1, <1>4, <1>6, <1>8, <1>9, Prepared DEF Path!SameFormat

LEMMA BandsKeeps == PathInv /\ Path!Prepare /\ mailbox # Path!NoPicture /\ kind = "bands" => PathInv'
<1> SUFFICES ASSUME PathInv, Path!Prepare, mailbox # Path!NoPicture, kind = "bands" PROVE PathInv'
  OBVIOUS
<1> DEFINE joined == Path!Over(mailbox.parts, Path!NativeTexture)
<1>1. /\ native' = Path!Frame(mailbox.size, mailbox.table, joined)
      /\ presentNative' = (DOMAIN native'.parts = Places)
      /\ decoded' = Path!OwnDecoded /\ tiles' = Path!OwnTiles /\ tilesWait' = FALSE /\ bound' = Path!OwnBound
      /\ payload' = payload
      /\ attached' = TRUE /\ mailbox' = Path!NoPicture
      /\ UNCHANGED <<kind, layout, screen, published, seen>>
  BY DEF Path!Prepare, Path!UploadBands
<1>2. mailbox \in Path!Pictures /\ Path!OwnNative \in Path!Pictures
  BY OwnAgree DEF PathInv, Path!TypeOK
<1>3. joined \in Path!Parts /\ native' \in Path!Pictures
  <2>1. Path!NativeTexture \in Path!Parts /\ mailbox.parts \in Path!Parts
    BY <1>2, Blank DEF Path!NativeTexture, Path!Pictures
  <2>2. joined \in Path!Parts
    BY <2>1, OverParts
  <2> QED  BY <1>1, <1>2, <2>2 DEF Path!Pictures, Path!Frame
<1>4. native'.size = mailbox.size /\ native'.table = mailbox.table /\ native'.parts = joined
  BY <1>1 DEF Path!Frame
<1>5. Path!TypeOK'
  <2>1. Path!OwnTiles.dirty \subseteq DOMAIN Path!OwnTiles.parts
    BY OwnAgree DEF Agree, TilesAgree
  <2> QED  BY <1>1, <1>3, <2>1, OwnAgree, Blank DEF PathInv, Path!TypeOK, Path!OwnBound
<1>6. /\ Path!SameFormat(mailbox, published) /\ DOMAIN mailbox.parts # {}
      /\ \A p \in DOMAIN mailbox.parts :
           p \in DOMAIN published.parts /\ mailbox.parts[p] = published.parts[p]
      /\ Path!Entries(published) \subseteq seen
      /\ DOMAIN published.parts = Places
      /\ \A p \in Places : published.parts[p].table = published.table
  <2>1. published # Path!NoPicture
    BY Blank DEF PathInv, MailboxInv, Path!NoPicture
  <2> QED  BY <2>1 DEF PathInv, MailboxInv, BandsInv
<1>7. \A p \in Places \ DOMAIN mailbox.parts :
        /\ Path!OwnNative.size = mailbox.size
        /\ p \in DOMAIN Path!OwnNative.parts /\ Path!OwnNative.parts[p] = published.parts[p]
  <2>1. AllShown(Path!OwnNative)
    BY OwnAgree DEF Future
  <2> QED  BY <1>6, <2>1 DEF AllShown, Path!SameFormat
<1>8. DOMAIN joined = Places /\ \A p \in Places : joined[p] = published.parts[p]
  <2>1. DOMAIN joined \subseteq Places
    BY <1>3, PartsShape
  <2>2. ASSUME NEW p \in Places PROVE p \in DOMAIN joined /\ joined[p] = published.parts[p]
    <3>1. CASE p \in DOMAIN mailbox.parts
      <4>1. DOMAIN mailbox.parts \subseteq DOMAIN joined
        BY DEF Path!Over
      <4>2. joined[p] = mailbox.parts[p]
        BY <3>1 DEF Path!Over
      <4> QED  BY <1>6, <3>1, <4>1, <4>2
    <3>2. CASE p \notin DOMAIN mailbox.parts
      <4>1. Path!NativeTexture = Path!OwnNative.parts
        BY <1>7, <3>2 DEF Path!NativeTexture
      <4> QED  BY <1>7, <3>2, <4>1 DEF Path!Over
    <3> QED  BY <3>1, <3>2
  <2> QED  BY <2>1, <2>2
<1> HIDE DEF joined
<1>9. Path!OwnDecoded = Path!NoPicture /\ Path!OwnTiles = Path!NoTiles
  BY OwnAgree DEF Agree
<1>10. Agree(decoded, native, presentNative, tiles, payload, tilesWait)'
  <2>1. Path!NoTiles.parts = Path!Nothing /\ Path!NoTiles.dirty = {} /\ DOMAIN Path!Nothing = {} /\ Path!NoPicture.parts = Path!Nothing
    BY Blank DEF Path!NoTiles, Path!NoPicture
  <2>2. Places # {}
    BY <1>6
  <2>3. native' # Path!NoPicture /\ presentNative'
    BY <1>1, <1>4, <1>8, <2>1, <2>2
  <2>4. BandsAgree(native', TRUE)
    BY <1>4, <1>6, <1>8, <2>3 DEF BandsAgree, Path!SameFormat
  <2>5. TilesAgree(decoded', tiles', payload', FALSE)
    BY <1>1, <1>9, <2>1 DEF TilesAgree
  <2>6. Path!Entries(decoded') = {} /\ Path!Entries(tiles') = {}
    BY <1>1, <1>9, <2>1 DEF Path!Entries
  <2>7. Path!Entries(native') \subseteq seen
    BY <1>4, <1>6, <1>8 DEF Path!Entries, Path!SameFormat
  <2> QED  BY <1>1, <1>9, <2>3, <2>4, <2>5, <2>6, <2>7 DEF Agree, TilesAgree, BandsAgree
<1>11. Future(decoded, native, payload, tilesWait)' = native'
  BY <1>1 DEF Future
<1> QED  BY <1>1, <1>4, <1>5, <1>6, <1>8, <1>10, <1>11, Prepared DEF Path!SameFormat

(* What UploadTiles sends: the tiles that are not in the texture as they   *)
(* are to be drawn.                                                        *)
LEMMA TilesMerge ==
  ASSUME PathInv, mailbox # Path!NoPicture, kind = "tiles"
  PROVE  /\ Path!MergedTiles \in [size : Sizes \cup {Path!None}, parts : Path!Parts, dirty : SUBSET Places]
         /\ Path!MergedTiles.size = mailbox.size /\ Path!MergedTiles.dirty \subseteq DOMAIN Path!MergedTiles.parts
         /\ Path!Texture \in Path!Pictures /\ Path!Texture.size = mailbox.size
         /\ Path!Entries(Path!MergedTiles) \cup Path!Entries(Path!Texture) \subseteq seen
         /\ \A p \in DOMAIN Path!MergedTiles.parts \ Path!MergedTiles.dirty :
              p \in DOMAIN Path!Texture.parts /\ Path!Texture.parts[p] = Path!MergedTiles.parts[p]
         /\ \A p \in DOMAIN mailbox.parts :
              p \in DOMAIN Path!MergedTiles.parts /\ Path!MergedTiles.parts[p] = mailbox.parts[p]
         /\ \A p \in DOMAIN published.parts \ DOMAIN mailbox.parts :
              IF p \in Path!MergedTiles.dirty THEN Path!MergedTiles.parts[p] = published.parts[p]
              ELSE p \in DOMAIN Path!Texture.parts /\ Path!Texture.parts[p] = published.parts[p]
         /\ Path!MergedTiles.dirty = {} => ~Path!OwnPending /\ ~Path!Recreated
<1>1. /\ mailbox \in Path!Pictures /\ mailbox.parts \in Path!Parts /\ DOMAIN mailbox.parts # {}
      /\ DOMAIN mailbox.parts \subseteq Places /\ mailbox.size \in Sizes \cup {Path!None}
      /\ Path!SameFormat(mailbox, published)
      /\ \A p \in DOMAIN mailbox.parts :
           p \in DOMAIN published.parts /\ mailbox.parts[p] = published.parts[p]
      /\ Path!Entries(published) \subseteq seen
  BY PartsShape DEF PathInv, Path!TypeOK, MailboxInv, Path!Pictures
<1>2. /\ Path!OwnDecoded \in Path!Pictures /\ Path!OwnTiles.parts \in Path!Parts /\ Path!OwnTiles.dirty \subseteq Places
      /\ TilesAgree(Path!OwnDecoded, Path!OwnTiles, payload, Path!OwnPending)
      /\ Path!Entries(Path!OwnDecoded) \subseteq seen /\ Path!Entries(Path!OwnTiles) \subseteq seen
      /\ DOMAIN Path!OwnTiles.parts \subseteq Places
  BY OwnAgree, PartsShape DEF Agree
<1>3. Path!Entries(mailbox) \subseteq seen
  BY <1>1 DEF Path!Entries, Path!SameFormat
<1>4. /\ Path!Texture \in Path!Pictures /\ Path!Texture.size = mailbox.size /\ Path!Entries(Path!Texture) \subseteq seen
      /\ ~Path!Recreated => Path!Texture = Path!OwnDecoded /\ Path!OwnDecoded.size = mailbox.size
  <2>1. CASE Path!Recreated
    <3>1. Path!Texture.size = mailbox.size /\ Path!Texture.table = Path!None /\ Path!Texture.parts = Path!Nothing
      BY <2>1 DEF Path!Texture, Path!Frame
    <3>2. Path!Texture = Path!Frame(mailbox.size, Path!None, Path!Nothing)
      BY <2>1 DEF Path!Texture
    <3>3. Path!Texture \in Path!Pictures
      BY <1>1, <3>2, Blank DEF Path!Frame, Path!Pictures
    <3> QED  BY <2>1, <3>1, <3>3, Blank DEF Path!Entries
  <2>2. CASE ~Path!Recreated
    BY <1>2, <2>2 DEF Path!Texture, Path!Recreated
  <2> QED  BY <2>1, <2>2
<1>5. \A p \in DOMAIN published.parts \ DOMAIN mailbox.parts :
        /\ Path!OwnDecoded.size = mailbox.size
        /\ IF Path!OwnPending /\ p \in DOMAIN payload THEN payload[p] = published.parts[p]
           ELSE p \in DOMAIN Path!OwnDecoded.parts /\ Path!OwnDecoded.parts[p] = published.parts[p]
  <2> DEFINE shown == Future(Path!OwnDecoded, Path!OwnNative, payload, Path!OwnPending)
  <2>1. AllShown(shown)
    BY OwnAgree
  <2>2. /\ shown.size = Path!OwnDecoded.size
        /\ shown.parts = IF Path!OwnPending THEN Path!Over(payload, Path!OwnDecoded.parts) ELSE Path!OwnDecoded.parts
    BY DEF Future, Path!Frame
  <2> HIDE DEF shown
  <2>3. TAKE p \in DOMAIN published.parts \ DOMAIN mailbox.parts
  <2>4. /\ shown.size = published.size
        /\ p \in DOMAIN shown.parts /\ shown.parts[p] = published.parts[p]
    BY <2>1 DEF AllShown
  <2> QED  BY <1>1, <2>2, <2>4 DEF Path!SameFormat, Path!Over
<1>6. CASE Path!OwnTiles.size # mailbox.size
  <2>1. /\ Path!MergedTiles.size = mailbox.size /\ Path!MergedTiles.parts = mailbox.parts
        /\ Path!MergedTiles.dirty = DOMAIN mailbox.parts
        /\ Path!MergedTiles \in [size : Sizes \cup {Path!None}, parts : Path!Parts, dirty : SUBSET Places]
    BY <1>1, <1>6 DEF Path!MergedTiles
  <2>2. Path!OwnDecoded.size = mailbox.size => ~Path!OwnPending
    <3>1. Path!OwnPending => Path!OwnTiles # Path!NoTiles
      BY <1>2 DEF TilesAgree, Path!NoTiles
    <3> QED  BY <1>2, <1>6, <3>1 DEF TilesAgree
  <2>3. \A p \in DOMAIN published.parts \ DOMAIN mailbox.parts :
          p \in DOMAIN Path!Texture.parts /\ Path!Texture.parts[p] = published.parts[p]
    BY <1>4, <1>5, <2>2 DEF Path!Recreated
  <2> QED  BY <1>1, <1>3, <1>4, <2>1, <2>3 DEF Path!Entries
<1>7. CASE Path!OwnTiles.size = mailbox.size
  <2> DEFINE parts == Path!Over(mailbox.parts, Path!OwnTiles.parts)
  <2>1. /\ DOMAIN parts = DOMAIN mailbox.parts \cup DOMAIN Path!OwnTiles.parts
        /\ \A p \in DOMAIN mailbox.parts : parts[p] = mailbox.parts[p]
        /\ \A p \in DOMAIN Path!OwnTiles.parts \ DOMAIN mailbox.parts : parts[p] = Path!OwnTiles.parts[p]
        /\ parts \in Path!Parts
    BY <1>1, <1>2, OverParts DEF Path!Over
  <2>2. /\ Path!MergedTiles.size = mailbox.size /\ Path!MergedTiles.parts = parts
        /\ Path!MergedTiles.dirty = IF Path!Recreated THEN DOMAIN parts
                               ELSE Path!Changed(mailbox.parts, Path!OwnTiles.parts)
                                      \cup (IF Path!OwnPending THEN Path!OwnTiles.dirty ELSE {})
        /\ Path!MergedTiles = [size |-> mailbox.size, parts |-> parts, dirty |-> Path!MergedTiles.dirty]
    BY <1>7 DEF Path!MergedTiles
  <2> HIDE DEF parts
  <2>3. Path!Changed(mailbox.parts, Path!OwnTiles.parts) \subseteq DOMAIN mailbox.parts
    BY DEF Path!Changed
  <2>4. Path!MergedTiles.dirty \subseteq DOMAIN parts /\ DOMAIN parts \subseteq Places
    BY <1>1, <1>2, <2>1, <2>2, <2>3 DEF TilesAgree
  <2>5. Path!MergedTiles \in [size : Sizes \cup {Path!None}, parts : Path!Parts, dirty : SUBSET Places]
    BY <1>1, <2>1, <2>2, <2>4
  <2>6. Path!Entries(Path!MergedTiles) \subseteq seen
    BY <1>2, <1>3, <1>7, <2>1, <2>2 DEF Path!Entries
  <2>7. \A p \in DOMAIN parts \ Path!MergedTiles.dirty :
          p \in DOMAIN Path!Texture.parts /\ Path!Texture.parts[p] = parts[p]
    <3>1. TAKE p \in DOMAIN parts \ Path!MergedTiles.dirty
    <3>2. ~Path!Recreated
      BY <2>2
    <3>3. p \in DOMAIN Path!OwnTiles.parts /\ parts[p] = Path!OwnTiles.parts[p]
      BY <2>1, <2>2, <3>2 DEF Path!Changed
    <3>4. ~(Path!OwnPending /\ p \in Path!OwnTiles.dirty)
      BY <2>2, <3>2
    <3> QED  BY <1>2, <1>4, <3>2, <3>3, <3>4 DEF TilesAgree
  <2>8. \A p \in DOMAIN published.parts \ DOMAIN mailbox.parts :
          IF p \in Path!MergedTiles.dirty THEN parts[p] = published.parts[p]
          ELSE p \in DOMAIN Path!Texture.parts /\ Path!Texture.parts[p] = published.parts[p]
    <3>1. TAKE p \in DOMAIN published.parts \ DOMAIN mailbox.parts
    <3>2. ~Path!Recreated /\ Path!Texture = Path!OwnDecoded
      BY <1>4, <1>5 DEF Path!Recreated
    <3>3. Path!OwnPending => DOMAIN payload = Path!OwnTiles.dirty
      BY <1>2 DEF TilesAgree
    <3>4. CASE p \in Path!MergedTiles.dirty
      <4>1. Path!OwnPending /\ p \in Path!OwnTiles.dirty
        BY <2>2, <2>3, <3>2, <3>4
      <4>2. p \in DOMAIN Path!OwnTiles.parts /\ payload[p] = Path!OwnTiles.parts[p]
        BY <1>2, <4>1 DEF TilesAgree
      <4> QED  BY <1>5, <2>1, <3>3, <3>4, <4>1, <4>2
    <3>5. CASE p \notin Path!MergedTiles.dirty
      <4>1. ~(Path!OwnPending /\ p \in DOMAIN payload)
        BY <2>2, <3>2, <3>3, <3>5
      <4> QED  BY <1>5, <3>2, <3>5, <4>1
    <3> QED  BY <3>4, <3>5
  <2>9. Path!MergedTiles.dirty = {} => ~Path!OwnPending /\ ~Path!Recreated
    BY <1>1, <1>2, <2>1, <2>2 DEF TilesAgree
  <2> QED  BY <1>4, <2>1, <2>2, <2>4, <2>5, <2>6, <2>7, <2>8, <2>9
<1> QED  BY <1>6, <1>7

LEMMA TilesKeeps == PathInv /\ Path!Prepare /\ mailbox # Path!NoPicture /\ kind = "tiles" => PathInv'
<1> SUFFICES ASSUME PathInv, Path!Prepare, mailbox # Path!NoPicture, kind = "tiles" PROVE PathInv'
  OBVIOUS
<1> DEFINE drawn == Future(decoded, native, payload, tilesWait)'
<1>1. Path!UploadTiles /\ attached' = TRUE /\ mailbox' = Path!NoPicture
      /\ UNCHANGED <<kind, layout, screen, published, seen>>
  BY DEF Path!Prepare
<1>2. decoded' = Path!Texture /\ native' = Path!NoPicture /\ presentNative' = FALSE
  BY <1>1, OwnAgree DEF Path!UploadTiles, Agree
<1>3. /\ Path!MergedTiles \in [size : Sizes \cup {Path!None}, parts : Path!Parts, dirty : SUBSET Places]
      /\ Path!MergedTiles.size = mailbox.size /\ Path!MergedTiles.dirty \subseteq DOMAIN Path!MergedTiles.parts
      /\ Path!Texture \in Path!Pictures /\ Path!Texture.size = mailbox.size
      /\ Path!Entries(Path!MergedTiles) \cup Path!Entries(Path!Texture) \subseteq seen
      /\ \A p \in DOMAIN Path!MergedTiles.parts \ Path!MergedTiles.dirty :
           p \in DOMAIN Path!Texture.parts /\ Path!Texture.parts[p] = Path!MergedTiles.parts[p]
      /\ \A p \in DOMAIN mailbox.parts :
           p \in DOMAIN Path!MergedTiles.parts /\ Path!MergedTiles.parts[p] = mailbox.parts[p]
      /\ \A p \in DOMAIN published.parts \ DOMAIN mailbox.parts :
           IF p \in Path!MergedTiles.dirty THEN Path!MergedTiles.parts[p] = published.parts[p]
           ELSE p \in DOMAIN Path!Texture.parts /\ Path!Texture.parts[p] = published.parts[p]
      /\ Path!MergedTiles.dirty = {} => ~Path!OwnPending /\ ~Path!Recreated
  BY TilesMerge
<1>4. /\ tiles' = Path!MergedTiles /\ tilesWait' = (Path!MergedTiles.dirty # {})
      /\ tilesWait' => bound' /\ payload' = [p \in Path!MergedTiles.dirty |-> Path!MergedTiles.parts[p]]
      /\ ~tilesWait' => payload' = payload
      /\ bound' \in BOOLEAN
  <2>1. CASE Path!MergedTiles.dirty = {}
    BY <1>1, <1>3, <2>1 DEF Path!UploadTiles, Path!KeptBound, Path!OwnBound, Path!OwnPending
  <2>2. CASE Path!MergedTiles.dirty # {}
    BY <1>1, <2>2 DEF Path!UploadTiles
  <2> QED  BY <2>1, <2>2
<1>5. tilesWait' => DOMAIN payload' = Path!MergedTiles.dirty
                  /\ \A p \in Path!MergedTiles.dirty : payload'[p] = Path!MergedTiles.parts[p]
  BY <1>4
<1>6. Path!TypeOK'
  <2>1. payload' \in Path!Parts
    <3>1. CASE tilesWait'
      <4>1. payload' = [p \in DOMAIN payload' |-> payload'[p]]
        BY <1>4, <3>1
      <4>2. DOMAIN Path!MergedTiles.parts \subseteq Places
            /\ \A p \in DOMAIN Path!MergedTiles.parts : Path!MergedTiles.parts[p] \in Path!Values
        BY <1>3, PartsShape
      <4> QED  BY <1>3, <1>5, <3>1, <4>1, <4>2, PartsShape
    <3>2. CASE ~tilesWait'
      BY <1>4, <3>2 DEF PathInv, Path!TypeOK
    <3> QED  BY <3>1, <3>2
  <2> QED  BY <1>1, <1>2, <1>3, <1>4, <2>1, Blank DEF PathInv, Path!TypeOK
<1>7. TilesAgree(Path!Texture, Path!MergedTiles, payload', tilesWait')
  BY <1>3, <1>4, <1>5 DEF TilesAgree
<1>8. Agree(decoded, native, presentNative, tiles, payload, tilesWait)'
  <2>1. Path!Entries(Path!NoPicture) = {}
    BY Blank DEF Path!Entries, Path!NoPicture
  <2>2. BandsAgree(Path!NoPicture, FALSE)
    BY DEF BandsAgree
  <2> QED  BY <1>1, <1>2, <1>3, <1>4, <1>7, <2>1, <2>2 DEF Agree, TilesAgree, BandsAgree
<1>9. /\ drawn.size = mailbox.size
      /\ drawn.parts = IF tilesWait' THEN Path!Over(payload', Path!Texture.parts) ELSE Path!Texture.parts
  BY <1>1, <1>2, <1>3 DEF Future, Path!Frame
<1>10. Path!SameFormat(mailbox, published)
       /\ \A p \in DOMAIN mailbox.parts : mailbox.parts[p] = published.parts[p]
  BY DEF PathInv, MailboxInv
<1> HIDE DEF drawn
<1>11. \A p \in DOMAIN published.parts : p \in DOMAIN drawn.parts /\ drawn.parts[p] = published.parts[p]
  <2>1. TAKE p \in DOMAIN published.parts
  <2>2. IF p \in Path!MergedTiles.dirty THEN Path!MergedTiles.parts[p] = published.parts[p]
        ELSE p \in DOMAIN Path!Texture.parts /\ Path!Texture.parts[p] = published.parts[p]
    BY <1>3, <1>10
  <2>3. CASE p \in Path!MergedTiles.dirty
    BY <1>4, <1>5, <1>9, <2>2, <2>3 DEF Path!Over
  <2>4. CASE p \notin Path!MergedTiles.dirty
    <3>1. p \in DOMAIN Path!Texture.parts /\ Path!Texture.parts[p] = published.parts[p]
      BY <2>2, <2>4
    <3>2. tilesWait' => p \in DOMAIN Path!Texture.parts \ DOMAIN payload'
      BY <1>5, <2>4, <3>1
    <3> QED  BY <1>9, <3>1, <3>2 DEF Path!Over
  <2> QED  BY <2>3, <2>4
<1>12. tilesWait' => bound' /\ DOMAIN payload' # {}
  BY <1>4, <1>5
<1> QED  BY <1>6, <1>8, <1>9, <1>10, <1>11, <1>12, Prepared DEF drawn, Path!SameFormat

LEMMA PrepareKeeps == PathInv /\ Path!Prepare => PathInv'
  BY KeepAllKeeps, PixelsKeeps, BandsKeeps, TilesKeeps DEF PathInv, Path!TypeOK

(* What render draws is what was to be drawn next, and it is of the        *)
(* session.                                                                *)
LEMMA Drawn ==
  ASSUME PathInv, Path!Render
  PROVE  /\ screen'.size = Future(decoded, native, payload, tilesWait).size
         /\ screen'.parts = Future(decoded, native, payload, tilesWait).parts
         /\ kind = "bands" => screen' = native
         /\ decoded' \in Path!Pictures /\ screen' \in Path!Pictures
         /\ Path!Entries(decoded') \cup Path!Entries(screen') \subseteq seen
<1>1. /\ attached /\ Agree(decoded, native, presentNative, tiles, payload, tilesWait)
      /\ decoded' = IF tilesWait THEN Path!Frame(decoded.size, Path!None, Path!Over(payload, decoded.parts)) ELSE decoded
      /\ screen' = IF presentNative THEN native ELSE decoded'
  BY DEF PathInv, RendererInv, Path!Render
<1>2. /\ decoded \in Path!Pictures /\ native \in Path!Pictures /\ payload \in Path!Parts
  BY DEF PathInv, Path!TypeOK
<1>3. decoded' \in Path!Pictures
  BY <1>1, <1>2, OverParts, Blank DEF Path!Frame, Path!Pictures, Path!NoPicture
<1>4. Path!Entries(decoded') \subseteq seen
  <2>1. CASE tilesWait
    <3>1. /\ tiles # Path!NoTiles /\ tiles.size = decoded.size /\ DOMAIN payload = tiles.dirty
          /\ \A p \in DOMAIN payload : p \in DOMAIN tiles.parts /\ payload[p] = tiles.parts[p]
      BY <1>1, <2>1 DEF Agree, TilesAgree, Path!NoTiles
    <3>2. Path!Entries(decoded) \subseteq seen /\ Path!Entries(tiles) \subseteq seen
      BY <1>1 DEF Agree
    <3>3. decoded'.size = decoded.size /\ decoded'.parts = Path!Over(payload, decoded.parts)
      BY <1>1, <2>1 DEF Path!Frame
    <3> QED  BY <3>1, <3>2, <3>3 DEF Path!Entries, Path!Over
  <2>2. CASE ~tilesWait
    BY <1>1, <2>2 DEF Agree
  <2> QED  BY <2>1, <2>2
<1>5. CASE kind = "bands"
  <2>1. decoded' = Path!NoPicture
    BY <1>1, <1>5 DEF Agree
  <2>2. screen' = native
    BY <1>1, <2>1 DEF Agree, BandsAgree
  <2> QED  BY <1>1, <1>2, <1>3, <1>4, <1>5, <2>2 DEF Future, Agree
<1>6. CASE kind # "bands"
  <2>1. screen' = decoded'
    BY <1>1, <1>6 DEF Agree, BandsAgree
  <2> QED  BY <1>1, <1>3, <1>4, <1>6, <2>1 DEF Future, Path!Frame
<1> QED  BY <1>5, <1>6

LEMMA RenderKeeps == PathInv /\ Path!Render => PathInv'
<1> SUFFICES ASSUME PathInv, Path!Render PROVE PathInv'
  OBVIOUS
<1>1. /\ attached /\ attached' /\ tilesWait' = FALSE
      /\ decoded' = IF tilesWait THEN Path!Frame(decoded.size, Path!None, Path!Over(payload, decoded.parts)) ELSE decoded
      /\ UNCHANGED <<kind, layout, mailbox, native, presentNative, tiles, payload, bound,
                     published, seen>>
  BY DEF Path!Render
<1>2. Agree(decoded, native, presentNative, tiles, payload, tilesWait)
  BY <1>1 DEF PathInv, RendererInv
<1>3. Path!TypeOK'
  BY <1>1, Drawn DEF PathInv, Path!TypeOK
<1>4. TilesAgree(decoded', tiles, payload, FALSE)
  <2>1. TilesAgree(decoded, tiles, payload, tilesWait)
    BY <1>2 DEF Agree
  <2>2. CASE tilesWait
    <3>1. decoded'.size = decoded.size /\ decoded'.parts = Path!Over(payload, decoded.parts)
      BY <1>1, <2>2 DEF Path!Frame
    <3> QED  BY <2>1, <2>2, <3>1 DEF TilesAgree, Path!Over
  <2>3. CASE ~tilesWait
    BY <1>1, <2>1, <2>3 DEF TilesAgree
  <2> QED  BY <2>2, <2>3
<1>5. Agree(decoded, native, presentNative, tiles, payload, tilesWait)'
  <2>1. kind = "bands" => decoded' = Path!NoPicture
    BY <1>1, <1>2 DEF Agree
  <2>2. Path!Entries(decoded') \cup Path!Entries(native) \cup Path!Entries(tiles) \subseteq seen
    BY <1>2, Drawn DEF Agree
  <2> QED  BY <1>1, <1>2, <1>4, <2>1, <2>2 DEF Agree, TilesAgree, BandsAgree, Path!Entries
<1>6. Future(decoded, native, payload, tilesWait)' = Future(decoded, native, payload, tilesWait)
  BY <1>1 DEF Future, Path!Frame
<1>7. AllShown(Future(decoded, native, payload, tilesWait))'
  <2>1. AllShown(Future(decoded, native, payload, tilesWait))
    BY <1>1 DEF PathInv, RendererInv
  <2> QED  BY <1>1, <1>6, <2>1 DEF AllShown
<1>8. MailboxInv' /\ BandsInv'
  BY <1>1 DEF PathInv, MailboxInv, BandsInv, Path!Entries, Path!SameFormat
<1> QED  BY <1>1, <1>3, <1>5, <1>7, <1>8 DEF PathInv, RendererInv

-----------------------------------------------------------------------------
(* The theorems.                                                           *)

LEMMA InitHolds == Path!Init => PathInv
<1> SUFFICES ASSUME Path!Init PROVE PathInv
  OBVIOUS
<1>1. /\ Path!NoPicture.parts = Path!Nothing /\ Path!NoTiles.parts = Path!Nothing /\ Path!NoTiles.dirty = {}
      /\ DOMAIN Path!Nothing = {} /\ Path!Nothing \in Path!Parts
  BY Blank DEF Path!NoPicture, Path!NoTiles
<1>2. Path!TypeOK
  BY <1>1, Blank DEF Path!Init, Path!TypeOK, Path!NoTiles
<1>3. MailboxInv /\ BandsInv /\ RendererInv
  BY <1>1 DEF Path!Init, MailboxInv, BandsInv, RendererInv, AllShown, Path!Entries
<1> QED  BY <1>2, <1>3 DEF PathInv

LEMMA StutterKeeps == PathInv /\ UNCHANGED Path!vars => PathInv'
  BY DEF PathInv, Path!vars, Path!renderer, Path!TypeOK, MailboxInv, BandsInv, RendererInv,
     Agree, TilesAgree,
         BandsAgree, AllShown, Future, Path!Entries, Path!SameFormat

(* Whatever a session publishes and whenever the window is drawn, what the *)
(* renderer and the mailbox hold together is the session's picture         *)
(* (prepare, upload_mvs, upload_nv12 and TileSet::merge).                  *)
THEOREM PathInvariance == Path!Spec => []PathInv
<1>1. PathInv /\ [Path!Next]_(Path!vars) => PathInv'
  BY QueueTilesKeeps, QueuePixelsKeeps, QueueBandsKeeps, ResetKeeps, NewSessionKeeps, PrepareKeeps,
     RenderKeeps, StutterKeeps DEF Path!Next
<1> QED  BY <1>1, InitHolds, PTL DEF Path!Spec

(* Every variable keeps its type. *)
THEOREM PathTypesHold == Path!Spec => []Path!TypeOK
<1>1. PathInv => Path!TypeOK
  BY DEF PathInv
<1> QED  BY <1>1, PathInvariance, PTL

(* The decode pass of render finds the bind group and the tiles it needs.  *)
THEOREM BindGroupThere == Path!Spec => []Path!DecodesWithBindGroup
<1>1. PathInv => Path!DecodesWithBindGroup
  BY Blank DEF PathInv, RendererInv, Path!DecodesWithBindGroup
<1> QED  BY <1>1, PathInvariance, PTL

(* What is drawn when the mailbox is empty shows each part as the session  *)
(* published it last, whatever was merged, skipped or sent again.          *)
THEOREM DrawnIsPublished == Path!Spec => Path!DrawsWhatWasPublished
<1> DEFINE Step == Path!Draws => /\ published # Path!NoPicture => screen'.size = published.size
                                 /\ \A p \in DOMAIN published.parts :
                                      p \in DOMAIN screen'.parts /\ screen'.parts[p] = published.parts[p]
<1>1. ASSUME PathInv, Path!Draws PROVE Step
  <2>1. Path!Render /\ mailbox = Path!NoPicture /\ attached
    BY <1>1 DEF Path!Draws, Path!Render
  <2>2. AllShown(Future(decoded, native, payload, tilesWait))
    BY <1>1, <2>1 DEF PathInv, RendererInv
  <2>3. DOMAIN mailbox.parts = {}
    BY <2>1, Blank DEF Path!NoPicture
  <2> QED  BY <1>1, <2>1, <2>2, <2>3, Drawn DEF AllShown
<1>2. PathInv /\ [Path!Next]_(Path!vars) => [Step]_(Path!vars)
  BY <1>1
<1> QED  BY <1>2, PathInvariance, PTL DEF Path!Spec, Path!DrawsWhatWasPublished

(* Nothing the renderer kept of the session it showed before is drawn in   *)
(* this one.                                                               *)
THEOREM DrawnIsItsOwn == Path!Spec => Path!DrawsItsOwn
<1> DEFINE Step == Path!Render => Path!Entries(screen') \subseteq seen
<1>1. PathInv /\ [Path!Next]_(Path!vars) => [Step]_(Path!vars)
  BY Drawn
<1> QED  BY <1>1, PathInvariance, PTL DEF Path!Spec, Path!DrawsItsOwn

(* A native picture is never drawn in part, nor in two colours.            *)
THEOREM BandsAreWhole == Path!Spec => Path!DrawsWholeBands
<1> DEFINE Step == Path!Render /\ kind = "bands" =>
                     \/ screen' = Path!NoPicture
                     \/ /\ DOMAIN screen'.parts = Places
                        /\ \A p \in Places : screen'.parts[p].table = screen'.table
<1>1. ASSUME PathInv, Path!Render, kind = "bands" PROVE Step
  <2>1. screen' = native /\ attached
    BY <1>1, Drawn DEF Path!Render
  <2> QED  BY <1>1, <2>1 DEF PathInv, RendererInv, Agree, BandsAgree
<1>2. PathInv /\ [Path!Next]_(Path!vars) => [Step]_(Path!vars)
  BY <1>1
<1> QED  BY <1>2, PathInvariance, PTL DEF Path!Spec, Path!DrawsWholeBands
=============================================================================
