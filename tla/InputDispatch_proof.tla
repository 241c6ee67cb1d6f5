------------------------- MODULE InputDispatch_proof ------------------------
(***************************************************************************)
(* Proofs about InputDispatch, for any finite keyboard, any buttons, any   *)
(* limits of the queue and any number of events and sessions: its types,   *)
(* that no wake-up is lost, that pointer positions form no trail, and that *)
(* no key and no button is left down behind the user's back.               *)
(***************************************************************************)
EXTENDS InputDispatch, TLAPS, SequenceTheorems, WellFoundedInduction, FiniteSetTheorems

-----------------------------------------------------------------------------
(* Commands                                                                *)

KindsOfCommands == {"press", "release", "motion", "pointer", "batch", "scroll", "clipboard"}

LEMMA CommandKind ==
  ASSUME NEW c \in Command
  PROVE  /\ c.kind \in KindsOfCommands
         /\ c.kind \in {"press", "release"} => c.key \in Keys
         /\ c.kind \in Pointing => c.mask \in SUBSET Buttons
BY DEF Command, KindsOfCommands, Pointing

LEMMA PressCommand ==
  ASSUME NEW k \in Keys
  PROVE  /\ KeyCommand(TRUE, k) \in Command
         /\ KeyCommand(TRUE, k).kind = "press" /\ KeyCommand(TRUE, k).key = k
BY DEF Command, KeyCommand

LEMMA ReleaseCommand ==
  ASSUME NEW k \in Keys
  PROVE  /\ KeyCommand(FALSE, k) \in Command
         /\ KeyCommand(FALSE, k).kind = "release" /\ KeyCommand(FALSE, k).key = k
BY DEF Command, KeyCommand

LEMMA MouseCommand ==
  ASSUME NEW kind \in Pointing, NEW m \in SUBSET Buttons
  PROVE  LET c == PointerCommand(kind, m)
         IN  c \in Command /\ c.kind = kind /\ c.mask = m
BY DEF Command, PointerCommand, Pointing

LEMMA PlainCommand ==
  ASSUME NEW kind \in {"scroll", "clipboard"}
  PROVE  Plain(kind) \in Command /\ Plain(kind).kind = kind
BY DEF Command, Plain

(* What is a release says which key or that no button is down any more.    *)
LEMMA ReleaseKinds ==
  ASSUME NEW c \in Command
  PROVE  /\ IsRelease(c) <=> c.kind = "release" \/ (c.kind \in {"pointer", "batch"} /\ c.mask = {})
         /\ c.kind = "release" => Releases(c) = {c.key}
         /\ c.kind # "release" => Releases(c) \subseteq {"pointer"}
         /\ Releases(c) \subseteq Keys \cup {"pointer"}
         /\ c.kind \in {"pointer", "batch"} /\ c.mask = {} => Releases(c) = {"pointer"}
<1>1. c.kind = "release" => c.key \in Keys
  BY CommandKind
<1> QED
  BY <1>1 DEF IsRelease, Releases

-----------------------------------------------------------------------------
(* Queues of commands: one is dropped, one is added, the first is taken    *)

Places(q) == 1 .. Len(q)

(* r is q without its command at d.                                        *)
Skip(d, i) == IF i < d THEN i ELSE i + 1
IsWithout(r, q, d) ==
  /\ d \in Places(q) /\ Len(r) = Len(q) - 1
  /\ \A i \in Places(r) : r[i] = q[Skip(d, i)]

LEMMA FirstOnes ==
  ASSUME NEW q \in Seq(Command), NEW n \in Nat, n <= Len(q)
  PROVE  /\ SubSeq(q, 1, n) \in Seq(Command) /\ Len(SubSeq(q, 1, n)) = n
         /\ \A i \in 1 .. n : SubSeq(q, 1, n)[i] = q[i]
<1>1. Len(q) \in Nat
  OBVIOUS
<1>2. \A i \in 1 .. n : q[i] \in Command
  BY <1>1, ElementOfSeq
<1>3. /\ SubSeq(q, 1, n) \in Seq(Command)
      /\ Len(SubSeq(q, 1, n)) = IF 1 <= n THEN n - 1 + 1 ELSE 0
      /\ \A i \in 1 .. n - 1 + 1 : SubSeq(q, 1, n)[i] = q[1 + i - 1]
  BY <1>2, SubSeqProperties
<1> QED
  BY <1>3

LEMMA FrontIsWithout ==
  ASSUME NEW q \in Seq(Command), q # <<>>
  PROVE  Front(q) \in Seq(Command) /\ IsWithout(Front(q), q, Len(q))
<1>1. Len(q) - 1 \in Nat /\ Len(q) - 1 <= Len(q)
  BY EmptySeq, LenProperties
<1> DEFINE n == Len(q) - 1
<1>2. n \in Nat /\ n <= Len(q) /\ Len(q) = n + 1
  BY <1>1
<1>3. Front(q) = SubSeq(q, 1, n)
  BY DEF Front
<1> HIDE DEF n
<1>4. /\ Front(q) \in Seq(Command) /\ Len(Front(q)) = n
      /\ \A i \in 1 .. n : Front(q)[i] = q[i]
  BY <1>2, <1>3, FirstOnes
<1> QED
  BY <1>2, <1>4 DEF IsWithout, Places, Skip

LEMMA CutIsWithout ==
  ASSUME NEW q \in Seq(Command), NEW d \in Places(q)
  PROVE  LET r == SubSeq(q, 1, d - 1) \o SubSeq(q, d + 1, Len(q))
         IN  r \in Seq(Command) /\ IsWithout(r, q, d)
<1> DEFINE a == SubSeq(q, 1, d - 1)
           b == SubSeq(q, d + 1, Len(q))
<1>1. Len(q) \in Nat /\ d \in 1 .. Len(q)
  BY DEF Places
<1>2. a \in Seq(Command) /\ Len(a) = d - 1 /\ \A i \in 1 .. d - 1 : a[i] = q[i]
  BY <1>1
<1>3. /\ b \in Seq(Command) /\ Len(b) = Len(q) - d
      /\ \A i \in 1 .. Len(q) - d : b[i] = q[d + i]
  BY <1>1
<1> HIDE DEF a, b
<1>4. /\ a \o b \in Seq(Command) /\ Len(a \o b) = Len(a) + Len(b)
      /\ \A i \in 1 .. Len(a) + Len(b) :
           (a \o b)[i] = IF i <= Len(a) THEN a[i] ELSE b[i - Len(a)]
  BY <1>2, <1>3, ConcatProperties
<1>5. Len(a \o b) = Len(q) - 1
  BY <1>1, <1>2, <1>3, <1>4
<1>6. ASSUME NEW i \in 1 .. Len(q) - 1 PROVE (a \o b)[i] = q[Skip(d, i)]
  <2>1. CASE i < d
    BY <1>1, <1>2, <1>3, <1>4, <2>1 DEF Skip
  <2>2. CASE ~(i < d)
    <3>1. (a \o b)[i] = b[i - Len(a)] /\ i - Len(a) \in 1 .. Len(q) - d
      BY <1>1, <1>2, <1>3, <1>4, <2>2
    <3>2. b[i - Len(a)] = q[d + (i - Len(a))] /\ d + (i - Len(a)) = i + 1
      BY <1>1, <1>2, <1>3, <3>1
    <3> QED
      BY <3>1, <3>2, <2>2 DEF Skip
  <2> QED
    BY <2>1, <2>2
<1> QED
  BY <1>1, <1>4, <1>5, <1>6 DEF IsWithout, Places, a, b

(* Dropping a command that releases nothing leaves no more keys down, and  *)
(* no more buttons.                                                        *)
UpSince(held, q) ==
  \E i \in 0 .. Len(q) :
    /\ IF i = 0 THEN held.mask = {} ELSE q[i].kind \in {"pointer", "batch"} /\ q[i].mask = {}
    /\ \A j \in i + 1 .. Len(q) : q[j].kind \in Pointing => q[j].mask = {}

LEMMA WithoutKeys ==
  ASSUME NEW q \in Seq(Command), NEW r \in Seq(Command), NEW d \in Int, IsWithout(r, q, d),
         ~IsRelease(q[d]), NEW held
  PROVE  WillBeDown(held, r) \subseteq WillBeDown(held, q)
<1>1. Len(q) \in Nat /\ Len(r) \in Nat /\ Len(r) = Len(q) - 1 /\ d \in 1 .. Len(q)
  BY DEF IsWithout, Places
<1>2. \A i \in 1 .. Len(r) : r[i] = q[Skip(d, i)]
  BY DEF IsWithout, Places
<1>3. SUFFICES ASSUME NEW k \in WillBeDown(held, r) PROVE k \in WillBeDown(held, q)
  OBVIOUS
<1>4. PICK i \in 0 .. Len(r) :
        /\ IF i = 0 THEN k \in held.down ELSE r[i].kind = "press" /\ r[i].key = k
        /\ \A j \in i + 1 .. Len(r) : ~(r[j].kind = "release" /\ r[j].key = k)
  BY <1>3 DEF WillBeDown
<1> DEFINE m == IF i = 0 THEN 0 ELSE Skip(d, i)
<1>5. m \in 0 .. Len(q) /\ (m = 0 <=> i = 0)
  BY <1>1 DEF Skip
<1>6. IF m = 0 THEN k \in held.down ELSE q[m].kind = "press" /\ q[m].key = k
  BY <1>2, <1>4, <1>5
<1>7. ASSUME NEW j \in m + 1 .. Len(q) PROVE ~(q[j].kind = "release" /\ q[j].key = k)
  <2>1. CASE j = d
    BY <2>1 DEF IsRelease
  <2>2. CASE j # d
    <3> DEFINE n == IF j < d THEN j ELSE j - 1
    <3>1. n \in i + 1 .. Len(r) /\ Skip(d, n) = j
      BY <1>1, <1>5, <2>2 DEF Skip
    <3>2. n \in 1 .. Len(r)
      BY <1>1, <3>1
    <3> QED
      BY <1>2, <1>4, <3>1, <3>2
  <2> QED
    BY <2>1, <2>2
<1>8. k \in Keys
  BY <1>3 DEF WillBeDown
<1> HIDE DEF m
<1> QED
  BY <1>5, <1>6, <1>7, <1>8 DEF WillBeDown

LEMMA WithoutMouse ==
  ASSUME NEW q \in Seq(Command), NEW r \in Seq(Command), NEW d \in Int, IsWithout(r, q, d),
         ~IsRelease(q[d]), NEW held, UpSince(held, q)
  PROVE  UpSince(held, r)
<1>1. Len(q) \in Nat /\ Len(r) \in Nat /\ Len(r) = Len(q) - 1 /\ d \in 1 .. Len(q)
  BY DEF IsWithout, Places
<1>2. \A i \in 1 .. Len(r) : r[i] = q[Skip(d, i)]
  BY DEF IsWithout, Places
<1>3. PICK i \in 0 .. Len(q) :
        /\ IF i = 0 THEN held.mask = {} ELSE q[i].kind \in {"pointer", "batch"} /\ q[i].mask = {}
        /\ \A j \in i + 1 .. Len(q) : q[j].kind \in Pointing => q[j].mask = {}
  BY DEF UpSince
<1>4. i # d
  BY <1>1, <1>3 DEF IsRelease
<1> DEFINE n == IF i < d THEN i ELSE i - 1
<1>5. n \in 0 .. Len(r) /\ (n = 0 <=> i = 0) /\ (n # 0 => Skip(d, n) = i)
  BY <1>1, <1>4 DEF Skip
<1>6. IF n = 0 THEN held.mask = {} ELSE r[n].kind \in {"pointer", "batch"} /\ r[n].mask = {}
  BY <1>2, <1>3, <1>5
<1>7. ASSUME NEW j \in n + 1 .. Len(r), r[j].kind \in Pointing PROVE r[j].mask = {}
  <2>1. j \in 1 .. Len(r) /\ Skip(d, j) \in i + 1 .. Len(q)
    BY <1>1, <1>4, <1>5 DEF Skip
  <2> QED
    BY <1>2, <1>3, <1>7, <2>1
<1> HIDE DEF n
<1> QED
  BY <1>5, <1>6, <1>7 DEF UpSince

(* A command is added. *)
LEMMA AddedKeys ==
  ASSUME NEW q \in Seq(Command), NEW c \in Command, NEW held,
         NEW k \in WillBeDown(held, Append(q, c))
  PROVE  /\ k \in WillBeDown(held, q) \/ (c.kind = "press" /\ c.key = k)
         /\ ~(c.kind = "release" /\ c.key = k)
<1> DEFINE r == Append(q, c)
<1>1. /\ Len(q) \in Nat /\ Len(r) = Len(q) + 1 /\ r[Len(q) + 1] = c
      /\ \A i \in 1 .. Len(q) : r[i] = q[i]
  OBVIOUS
<1>2. PICK i \in 0 .. Len(r) :
        /\ IF i = 0 THEN k \in held.down ELSE r[i].kind = "press" /\ r[i].key = k
        /\ \A j \in i + 1 .. Len(r) : ~(r[j].kind = "release" /\ r[j].key = k)
  BY DEF WillBeDown
<1>3. k \in Keys
  BY DEF WillBeDown
<1> HIDE DEF r
<1>4. CASE i = Len(r)
  BY <1>1, <1>2, <1>4
<1>5. CASE i # Len(r)
  <2>1. i \in 0 .. Len(q) /\ Len(r) \in i + 1 .. Len(r)
    BY <1>1, <1>5
  <2>2. ~(c.kind = "release" /\ c.key = k)
    BY <1>1, <1>2, <2>1
  <2>3. \A j \in i + 1 .. Len(q) : j \in i + 1 .. Len(r) /\ r[j] = q[j]
    BY <1>1, <2>1
  <2>4. IF i = 0 THEN k \in held.down ELSE q[i].kind = "press" /\ q[i].key = k
    BY <1>1, <1>2, <2>1
  <2>5. k \in WillBeDown(held, q)
    BY <1>2, <1>3, <2>1, <2>3, <2>4 DEF WillBeDown
  <2> QED
    BY <2>2, <2>5
<1> QED
  BY <1>4, <1>5

LEMMA AddedMouse ==
  ASSUME NEW q \in Seq(Command), NEW c \in Command, NEW held
  PROVE  /\ c.kind \in {"pointer", "batch"} /\ c.mask = {} => UpSince(held, Append(q, c))
         /\ UpSince(held, q) /\ (c.kind \in Pointing => c.mask = {}) => UpSince(held, Append(q, c))
<1> DEFINE r == Append(q, c)
<1>1. /\ Len(q) \in Nat /\ Len(r) = Len(q) + 1 /\ r[Len(q) + 1] = c
      /\ \A i \in 1 .. Len(q) : r[i] = q[i]
  OBVIOUS
<1> HIDE DEF r
<1>2. ASSUME c.kind \in {"pointer", "batch"}, c.mask = {} PROVE UpSince(held, r)
  <2>1. Len(r) \in 0 .. Len(r) /\ Len(r) # 0 /\ r[Len(r)] = c
    BY <1>1
  <2>2. \A j \in Len(r) + 1 .. Len(r) : FALSE
    BY <1>1
  <2> QED
    BY <1>2, <2>1, <2>2 DEF UpSince
<1>3. ASSUME UpSince(held, q), c.kind \in Pointing => c.mask = {} PROVE UpSince(held, r)
  <2>1. PICK i \in 0 .. Len(q) :
          /\ IF i = 0 THEN held.mask = {} ELSE q[i].kind \in {"pointer", "batch"} /\ q[i].mask = {}
          /\ \A j \in i + 1 .. Len(q) : q[j].kind \in Pointing => q[j].mask = {}
    BY <1>3 DEF UpSince
  <2>2. i \in 0 .. Len(r)
    BY <1>1
  <2>3. IF i = 0 THEN held.mask = {} ELSE r[i].kind \in {"pointer", "batch"} /\ r[i].mask = {}
    BY <1>1, <2>1
  <2>4. ASSUME NEW j \in i + 1 .. Len(r), r[j].kind \in Pointing PROVE r[j].mask = {}
    BY <1>1, <1>3, <2>1, <2>4
  <2> QED
    BY <2>2, <2>3, <2>4 DEF UpSince
<1> QED
  BY <1>2, <1>3 DEF r

(* The first command is taken, and is in hand.                             *)
LEMMA TakenKeys ==
  ASSUME NEW q \in Seq(Command), q # <<>>, NEW held
  PROVE  WillBeDown(Effect(held, Head(q)), Tail(q)) \subseteq WillBeDown(held, q)
<1> DEFINE r == Tail(q)
           h == Effect(held, Head(q))
<1>1. /\ Len(q) \in Nat \ {0} /\ r \in Seq(Command) /\ Len(r) = Len(q) - 1
      /\ Head(q) = q[1] /\ \A i \in 1 .. Len(r) : r[i] = q[i + 1]
  BY EmptySeq
<1>2. SUFFICES ASSUME NEW k \in WillBeDown(h, r) PROVE k \in WillBeDown(held, q)
  OBVIOUS
<1> HIDE DEF r
<1>3. PICK i \in 0 .. Len(r) :
        /\ IF i = 0 THEN k \in h.down ELSE r[i].kind = "press" /\ r[i].key = k
        /\ \A j \in i + 1 .. Len(r) : ~(r[j].kind = "release" /\ r[j].key = k)
  BY <1>2 DEF WillBeDown
<1>4. k \in Keys
  BY <1>2 DEF WillBeDown
<1>5. \A j \in i + 2 .. Len(q) : ~(q[j].kind = "release" /\ q[j].key = k)
  <2>1. \A j \in i + 2 .. Len(q) : j - 1 \in i + 1 .. Len(r) /\ q[j] = r[j - 1]
    BY <1>1
  <2> QED
    BY <1>3, <2>1
<1>6. CASE i # 0
  <2>1. i + 1 \in 0 .. Len(q) /\ i + 1 # 0 /\ q[i + 1] = r[i]
    BY <1>1, <1>6
  <2>2. q[i + 1].kind = "press" /\ q[i + 1].key = k
    BY <1>3, <1>6, <2>1
  <2>3. \A j \in (i + 1) + 1 .. Len(q) : ~(q[j].kind = "release" /\ q[j].key = k)
    BY <1>5
  <2> QED
    BY <1>4, <2>1, <2>2, <2>3 DEF WillBeDown
<1>7. CASE i = 0 /\ q[1].kind = "press" /\ q[1].key = k
  <2>1. 1 \in 0 .. Len(q) /\ \A j \in 1 + 1 .. Len(q) : ~(q[j].kind = "release" /\ q[j].key = k)
    BY <1>1, <1>5, <1>7
  <2> QED
    BY <1>4, <1>7, <2>1 DEF WillBeDown
<1>8. CASE i = 0 /\ ~(q[1].kind = "press" /\ q[1].key = k)
  <2>1. k \in held.down /\ ~(q[1].kind = "release" /\ q[1].key = k)
    BY <1>1, <1>3, <1>8 DEF h, Effect
  <2>2. \A j \in 0 + 1 .. Len(q) : ~(q[j].kind = "release" /\ q[j].key = k)
    BY <1>1, <1>5, <1>8, <2>1
  <2>3. 0 \in 0 .. Len(q)
    BY <1>1
  <2> QED
    BY <1>4, <2>1, <2>2, <2>3 DEF WillBeDown
<1> QED
  BY <1>6, <1>7, <1>8

LEMMA TakenMouse ==
  ASSUME NEW q \in Seq(Command), q # <<>>, NEW held, UpSince(held, q)
  PROVE  UpSince(Effect(held, Head(q)), Tail(q))
<1> DEFINE r == Tail(q)
           h == Effect(held, Head(q))
<1>1. /\ Len(q) \in Nat \ {0} /\ r \in Seq(Command) /\ Len(r) = Len(q) - 1
      /\ Head(q) = q[1] /\ \A i \in 1 .. Len(r) : r[i] = q[i + 1]
  BY EmptySeq
<1> HIDE DEF r
<1>2. PICK i \in 0 .. Len(q) :
        /\ IF i = 0 THEN held.mask = {} ELSE q[i].kind \in {"pointer", "batch"} /\ q[i].mask = {}
        /\ \A j \in i + 1 .. Len(q) : q[j].kind \in Pointing => q[j].mask = {}
  BY DEF UpSince
<1>3. h.mask = IF q[1].kind \in Pointing THEN q[1].mask ELSE held.mask
  BY <1>1 DEF h, Effect
<1> HIDE DEF h
<1>4. CASE i <= 1
  <2>1. h.mask = {}
    <3>1. CASE i = 0
      <4>1. 1 \in i + 1 .. Len(q)
        BY <1>1, <3>1
      <4> QED
        BY <1>2, <1>3, <3>1, <4>1
    <3>2. CASE i = 1
      BY <1>2, <1>3, <3>2 DEF Pointing
    <3> QED
      BY <1>4, <3>1, <3>2
  <2>2. \A j \in 0 + 1 .. Len(r) : j + 1 \in i + 1 .. Len(q) /\ r[j] = q[j + 1]
    BY <1>1, <1>4
  <2>3. \A j \in 0 + 1 .. Len(r) : r[j].kind \in Pointing => r[j].mask = {}
    BY <1>2, <2>2
  <2>4. 0 \in 0 .. Len(r)
    BY <1>1
  <2> QED
    BY <2>1, <2>3, <2>4 DEF UpSince, r, h
<1>5. CASE ~(i <= 1)
  <2>1. i - 1 \in 0 .. Len(r) /\ i - 1 # 0 /\ r[i - 1] = q[i]
    BY <1>1, <1>5
  <2>2. r[i - 1].kind \in {"pointer", "batch"} /\ r[i - 1].mask = {}
    BY <1>2, <1>5, <2>1
  <2>3. \A j \in (i - 1) + 1 .. Len(r) : j + 1 \in i + 1 .. Len(q) /\ r[j] = q[j + 1]
    BY <1>1, <1>5
  <2>4. \A j \in (i - 1) + 1 .. Len(r) : r[j].kind \in Pointing => r[j].mask = {}
    BY <1>2, <2>3
  <2> QED
    BY <2>1, <2>2, <2>4 DEF UpSince, r, h
<1> QED
  BY <1>4, <1>5

LEMMA NothingQueued ==
  ASSUME NEW held
  PROVE  /\ WillBeDown(held, <<>>) \subseteq held.down
         /\ held.mask = {} => UpSince(held, <<>>)
BY DEF WillBeDown, UpSince

(* The form in which the property is stated. *)
LEMMA UpSinceIsUp ==
  ASSUME NEW q \in Seq(Command), NEW held, UpSince(held, q)
  PROVE  WillBeUp(held, q)
<1>1. Len(q) \in Nat
  OBVIOUS
<1>2. PICK i \in 0 .. Len(q) :
        /\ IF i = 0 THEN held.mask = {} ELSE q[i].kind \in {"pointer", "batch"} /\ q[i].mask = {}
        /\ \A j \in i + 1 .. Len(q) : q[j].kind \in Pointing => q[j].mask = {}
  BY DEF UpSince
<1>3. ASSUME NEW n \in LastPointing(q) PROVE (IF n = 0 THEN held.mask ELSE q[n].mask) = {}
  <2>1. /\ n \in 0 .. Len(q) /\ (n = 0 \/ q[n].kind \in Pointing)
        /\ \A j \in n + 1 .. Len(q) : q[j].kind \notin Pointing
    BY DEF LastPointing
  <2>2. CASE n = i
    BY <1>2, <2>2
  <2>3. CASE n > i
    <3>1. n \in i + 1 .. Len(q) /\ n # 0
      BY <1>1, <2>1, <2>3
    <3> QED
      BY <1>2, <2>1, <3>1
  <2>4. CASE n < i
    <3>1. i \in n + 1 .. Len(q) /\ i # 0
      BY <1>1, <2>1, <2>4
    <3> QED
      BY <1>2, <2>1, <3>1 DEF Pointing
  <2> QED
    BY <2>1, <2>2, <2>3, <2>4
<1> QED
  BY <1>3 DEF WillBeUp

-----------------------------------------------------------------------------
(* The queue: submit                                                       *)

TrailFree(q) ==
  \A i \in 1 .. Len(q) - 1 : ~(q[i].kind = "motion" /\ q[i + 1].kind = "motion")

(* r is what is left of q: nothing stays down or up any longer.            *)
Thinned(held, q, r) ==
  /\ r \in Seq(Command) /\ Len(r) <= Len(q) /\ TrailFree(r)
  /\ WillBeDown(held, r) \subseteq WillBeDown(held, q)
  /\ UpSince(held, q) => UpSince(held, r)

LEMMA NotDropped ==
  ASSUME NEW q \in Seq(Command), TrailFree(q), NEW held
  PROVE  Thinned(held, q, q)
BY DEF Thinned

LEMMA DroppedTwice ==
  ASSUME NEW q \in Seq(Command), NEW r \in Seq(Command), NEW t \in Seq(Command), NEW held,
         Thinned(held, q, r), Thinned(held, r, t)
  PROVE  Thinned(held, q, t)
<1>1. Len(q) \in Nat /\ Len(r) \in Nat /\ Len(t) \in Nat
  OBVIOUS
<1> QED
  BY <1>1 DEF Thinned

(* The last command may go, or one before which there are only releases.   *)
LEMMA Dropped ==
  ASSUME NEW q \in Seq(Command), NEW r \in Seq(Command), NEW d \in Int, IsWithout(r, q, d),
         ~IsRelease(q[d]), TrailFree(q), NEW held,
         d = Len(q) \/ \A j \in 1 .. d - 1 : IsRelease(q[j])
  PROVE  Thinned(held, q, r)
<1>1. Len(q) \in Nat /\ Len(r) = Len(q) - 1 /\ d \in 1 .. Len(q)
  BY DEF IsWithout, Places
<1>2. \A i \in 1 .. Len(r) : r[i] = q[Skip(d, i)]
  BY DEF IsWithout, Places
<1>3. ASSUME NEW i \in 1 .. Len(r) - 1, r[i].kind = "motion", r[i + 1].kind = "motion"
      PROVE  FALSE
  <2>1. i \in 1 .. Len(r) /\ i + 1 \in 1 .. Len(r)
    BY <1>1
  <2>2. r[i] = q[Skip(d, i)] /\ r[i + 1] = q[Skip(d, i + 1)]
    BY <1>2, <2>1
  <2>3. CASE i + 1 = d
    <3>1. i \in 1 .. d - 1 /\ d # Len(q) /\ Skip(d, i) = i
      BY <1>1, <2>3 DEF Skip
    <3>2. IsRelease(q[i])
      BY <3>1
    <3> QED
      BY <1>3, <2>2, <3>1, <3>2 DEF IsRelease
  <2>4. CASE i + 1 # d
    <3>1. Skip(d, i) \in 1 .. Len(q) - 1 /\ Skip(d, i + 1) = Skip(d, i) + 1
      BY <1>1, <2>4 DEF Skip
    <3> QED
      BY <1>3, <2>2, <3>1 DEF TrailFree
  <2> QED
    BY <2>3, <2>4
<1>4. TrailFree(r)
  BY <1>3 DEF TrailFree
<1>5. WillBeDown(held, r) \subseteq WillBeDown(held, q)
  BY WithoutKeys
<1>6. UpSince(held, q) => UpSince(held, r)
  BY WithoutMouse
<1> QED
  BY <1>1, <1>4, <1>5, <1>6 DEF Thinned

LEMMA CoalescedThins ==
  ASSUME NEW q \in Seq(Command), TrailFree(q), NEW c \in Command, NEW held
  PROVE  LET r == Coalesced(q, c)
         IN  /\ Thinned(held, q, r)
             /\ c.kind = "motion" => \A i \in 1 .. Len(r) : i = Len(r) => r[i].kind # "motion"
             /\ InPlace(q, c) => Len(r) = Len(q) - 1
             /\ q = <<>> => r = <<>>
<1>1. Len(q) \in Nat
  OBVIOUS
<1>2. CASE q # <<>> /\ Last(q).kind = "motion"
           /\ c.kind \in {"motion", "pointer", "batch", "scroll"}
  <2>1. Coalesced(q, c) = Front(q)
    BY <1>2 DEF Coalesced
  <2>2. Front(q) \in Seq(Command) /\ IsWithout(Front(q), q, Len(q))
    BY <1>2, FrontIsWithout
  <2>3. ~IsRelease(q[Len(q)]) /\ q[Len(q)].kind = "motion"
    BY <1>2 DEF Last, IsRelease
  <2>4. Thinned(held, q, Front(q))
    BY <1>1, <2>2, <2>3, Dropped
  <2>5. Len(Front(q)) = Len(q) - 1
    BY <2>2 DEF IsWithout
  <2>6. ASSUME NEW i \in 1 .. Len(Front(q)), i = Len(Front(q)) PROVE Front(q)[i].kind # "motion"
    <3>1. i \in 1 .. Len(q) - 1 /\ i + 1 = Len(q) /\ Front(q)[i] = q[i]
      BY <1>1, <2>2, <2>5, <2>6 DEF IsWithout, Places, Skip
    <3> QED
      BY <2>3, <3>1 DEF TrailFree
  <2> QED
    BY <1>2, <2>1, <2>4, <2>5, <2>6
<1>3. CASE ~(q # <<>> /\ Last(q).kind = "motion"
             /\ c.kind \in {"motion", "pointer", "batch", "scroll"})
  <2>1. Coalesced(q, c) = q /\ ~InPlace(q, c)
    BY <1>3 DEF Coalesced, InPlace
  <2>2. c.kind = "motion" => \A i \in 1 .. Len(q) : i = Len(q) => q[i].kind # "motion"
    BY <1>1, <1>3, EmptySeq DEF Last
  <2> QED
    BY <2>1, <2>2, NotDropped
<1> QED
  BY <1>2, <1>3

(* A set of places has a first one. *)
LEMMA HasFirst ==
  ASSUME NEW S, S \subseteq Nat, S # {}
  PROVE  \E x \in S : \A y \in S : x <= y
<1> DEFINE R == OpToRel(<, Nat)
<1>1. IsWellFoundedOn(R, Nat)
  BY NatLessThanWellFounded
<1>2. \A x, y \in Nat : ~(<<y, x>> \in R) => x <= y
  BY DEF OpToRel
<1> HIDE DEF R
<1>3. PICK x \in S : \A y \in S : ~(<<y, x>> \in R)
  BY <1>1, WFMin
<1> QED
  BY <1>2, <1>3

LEMMA EvictThins ==
  ASSUME NEW q \in Seq(Command), TrailFree(q), Droppable(q) # {}, NEW held
  PROVE  Thinned(held, q, Evict(q)) /\ Len(Evict(q)) = Len(q) - 1
<1> DEFINE first == CHOOSE i \in Droppable(q) : \A j \in Droppable(q) : i <= j
<1>1. Droppable(q) \subseteq Nat /\ Len(q) \in Nat
  BY DEF Droppable
<1>2. \E i \in Droppable(q) : \A j \in Droppable(q) : i <= j
  BY <1>1, HasFirst
<1>3. first \in Droppable(q) /\ \A j \in Droppable(q) : first <= j
  BY <1>2
<1>4. Evict(q) = SubSeq(q, 1, first - 1) \o SubSeq(q, first + 1, Len(q))
  BY DEF Evict
<1> HIDE DEF first
<1>5. first \in 1 .. Len(q) /\ ~IsRelease(q[first])
  BY <1>3 DEF Droppable
<1>6. \A j \in 1 .. first - 1 : IsRelease(q[j])
  <2> SUFFICES ASSUME NEW j \in 1 .. first - 1, ~IsRelease(q[j]) PROVE FALSE
    OBVIOUS
  <2>1. j \in 1 .. Len(q)
    BY <1>1, <1>5
  <2>2. first <= j
    BY <1>3, <2>1 DEF Droppable
  <2> QED
    BY <1>5, <2>2
<1>7. Evict(q) \in Seq(Command) /\ IsWithout(Evict(q), q, first)
  BY <1>4, <1>5, CutIsWithout DEF Places
<1>8. Thinned(held, q, Evict(q))
  BY <1>5, <1>6, <1>7, Dropped
<1> QED
  BY <1>7, <1>8 DEF IsWithout

(* What submit makes of the queue when it accepts the command.             *)
LEMMA PushedQueue ==
  ASSUME NEW q \in Seq(Command), TrailFree(q), Len(q) <= MaxCommands, NEW c \in Command,
         Accepts(q, c), NEW held
  PROVE  LET r == Pushed(q, c)
         IN  /\ r \in Seq(Command) /\ Len(r) <= MaxCommands /\ TrailFree(r)
             /\ \A k \in WillBeDown(held, r) :
                  /\ k \in WillBeDown(held, q) \/ (c.kind = "press" /\ c.key = k)
                  /\ ~(c.kind = "release" /\ c.key = k)
             /\ c.kind \in {"pointer", "batch"} /\ c.mask = {} => UpSince(held, r)
             /\ UpSince(held, q) /\ (c.kind \in Pointing => c.mask = {}) => UpSince(held, r)
<1> DEFINE t == Coalesced(q, c)
           u == IF InPlace(q, c) \/ Fits(q, c) THEN t ELSE Evict(t)
<1>1. /\ Thinned(held, q, t) /\ t \in Seq(Command) /\ TrailFree(t) /\ Len(t) <= Len(q)
      /\ c.kind = "motion" => \A i \in 1 .. Len(t) : i = Len(t) => t[i].kind # "motion"
      /\ InPlace(q, c) => Len(t) = Len(q) - 1
  BY CoalescedThins DEF Thinned
<1>2. Pushed(q, c) = Append(u, c)
  BY DEF Pushed
<1>3. Limit(c) <= MaxCommands /\ Limit(c) \in Int /\ MaxCommands \in Nat
  BY DispatchAssumption DEF Limit
<1>4. Fits(q, c) => Len(t) < Limit(c)
  BY DEF Fits
<1>5. ~(InPlace(q, c) \/ Fits(q, c)) => IsRelease(c) /\ Droppable(t) # {}
  BY DEF Accepts, MakesRoom
<1> HIDE DEF t
<1>6. /\ Thinned(held, q, u) /\ u \in Seq(Command) /\ TrailFree(u) /\ Len(u) < MaxCommands
      /\ c.kind = "motion" => \A i \in 1 .. Len(u) : i = Len(u) => u[i].kind # "motion"
  <2>1. Len(q) \in Nat /\ Len(t) \in Nat
    BY <1>1
  <2>2. CASE InPlace(q, c) \/ Fits(q, c)
    BY <1>1, <1>3, <1>4, <2>1, <2>2
  <2>3. CASE ~(InPlace(q, c) \/ Fits(q, c))
    <3>1. u = Evict(t) /\ IsRelease(c) /\ Droppable(t) # {}
      BY <1>5, <2>3
    <3>2. Thinned(held, t, Evict(t)) /\ Len(Evict(t)) = Len(t) - 1
      BY <1>1, <3>1, EvictThins
    <3>3. Evict(t) \in Seq(Command) /\ TrailFree(Evict(t))
      BY <3>2 DEF Thinned
    <3>4. Thinned(held, q, Evict(t))
      BY <1>1, <3>2, <3>3, DroppedTwice
    <3>5. c.kind # "motion"
      BY <3>1 DEF IsRelease
    <3> QED
      BY <1>1, <1>3, <2>1, <3>1, <3>2, <3>3, <3>4, <3>5
  <2> QED
    BY <2>2, <2>3
<1> HIDE DEF u
<1> DEFINE r == Append(u, c)
<1>7. /\ Len(u) \in Nat /\ r \in Seq(Command) /\ Len(r) = Len(u) + 1 /\ r[Len(u) + 1] = c
      /\ \A i \in 1 .. Len(u) : r[i] = u[i]
  BY <1>6, AppendProperties
<1>8. TrailFree(r)
  <2> SUFFICES ASSUME NEW i \in 1 .. Len(r) - 1, r[i].kind = "motion", r[i + 1].kind = "motion"
               PROVE  FALSE
    BY DEF TrailFree
  <2>1. CASE i = Len(u)
    <3>1. c.kind = "motion" /\ u[i].kind = "motion" /\ i \in 1 .. Len(u)
      BY <1>7, <2>1
    <3> QED
      BY <1>6, <2>1, <3>1
  <2>2. CASE i # Len(u)
    <3>1. i \in 1 .. Len(u) - 1 /\ r[i] = u[i] /\ r[i + 1] = u[i + 1]
      BY <1>7, <2>2
    <3> QED
      BY <1>6, <3>1 DEF TrailFree
  <2> QED
    BY <2>1, <2>2
<1>9. Len(r) <= MaxCommands
  BY <1>3, <1>6, <1>7
<1>10. \A k \in WillBeDown(held, r) :
         /\ k \in WillBeDown(held, u) \/ (c.kind = "press" /\ c.key = k)
         /\ ~(c.kind = "release" /\ c.key = k)
  BY <1>6, AddedKeys
<1>11. /\ c.kind \in {"pointer", "batch"} /\ c.mask = {} => UpSince(held, r)
       /\ UpSince(held, u) /\ (c.kind \in Pointing => c.mask = {}) => UpSince(held, r)
  BY <1>6, AddedMouse
<1>12. /\ WillBeDown(held, u) \subseteq WillBeDown(held, q)
       /\ UpSince(held, q) => UpSince(held, u)
  BY <1>6 DEF Thinned
<1> HIDE DEF r
<1> QED
  BY <1>2, <1>7, <1>8, <1>9, <1>10, <1>11, <1>12 DEF r

-----------------------------------------------------------------------------
(* The inductive invariant                                                 *)

(* The commands or keys a call has still to submit.                        *)
TodoInv ==
  /\ ui = "ime" => \E k \in Keys :
       todo \in {<<KeyCommand(TRUE, k), KeyCommand(FALSE, k)>>, <<KeyCommand(FALSE, k)>>}
  /\ ui = "combo" => \E m, k \in Keys :
       todo \in {<<KeyCommand(TRUE, m), KeyCommand(TRUE, k), KeyCommand(FALSE, k), KeyCommand(FALSE, m)>>,
                <<KeyCommand(TRUE, k), KeyCommand(FALSE, k), KeyCommand(FALSE, m)>>,
                <<KeyCommand(FALSE, k), KeyCommand(FALSE, m)>>,
                <<KeyCommand(FALSE, m)>>}
  /\ ui = "shortcut" => todo \in Seq(Keys)

(* A session is the current one, but for the time between its connection   *)
(* and set_input: nothing reaches it then.                                 *)
Replacing == ui \in {"swap", "swapped"}
SessionInv ==
  /\ current <= session /\ target <= session
  /\ alive /\ Replacing => current < session /\ target < session /\ remote = NothingHeld
  /\ alive /\ ~Replacing => current = session
  /\ ui = "clear" => ~alive

(* The keys that a call has pressed and has still to release.              *)
Doing ==
  IF (ui = "ime" /\ Len(todo) = 1) \/ ui = "combo" THEN {c.key : c \in Range(todo)} ELSE {}

(* From set_input's first step to the end of the session, every key that   *)
(* is or will be down is accounted for, and once the buttons are up here a *)
(* command that lets go of them is on its way that nothing takes back.     *)
Live == alive /\ ui \notin {"swap", "gone"}
Down == WillBeDown(Now, commands)
Up == UpSince(Now, commands)
KeysInv == Live => Down \subseteq pressedKeys \cup pressedRaw \cup Excused \cup Doing
ButtonsInv == Live /\ buttonMask = {} => Up \/ "pointer" \in Excused

IInv ==
  /\ TypeOK /\ TodoInv /\ SessionInv
  /\ NoTrail /\ ParkedOnlyWhenIdle
  /\ KeysInv /\ ButtonsInv

(* The types, in four parts. *)
Threads == {"receive", "wait", "hand", "send", "failed", "exit"}
UiStates ==
  {"ready", "ime", "combo", "shortcut", "release", "clear", "swap", "swapped", "forget", "gone"}
QueueOK ==
  /\ commands \in Seq(Command) /\ Len(commands) <= MaxCommands
  /\ thread \in Threads
  /\ excused \subseteq {"told", "crossed"} \X (Keys \cup {"pointer"})
FlagsOK ==
  /\ stopped \in BOOLEAN /\ error \in BOOLEAN /\ alive \in BOOLEAN
  /\ cursor \in BOOLEAN /\ imeActive \in BOOLEAN
KeysOK ==
  /\ pressedKeys \subseteq Keys /\ pressedRaw \subseteq Keys
  /\ suppressed \subseteq {"paste", "shortcut", "ime"} \X Keys
  /\ buttonMask \subseteq Buttons
RestOK ==
  /\ current \in 0 .. MaxSessions /\ target \in 0 .. MaxSessions
  /\ session \in 0 .. MaxSessions
  /\ hand \in Command \cup {NoCommand}
  /\ ui \in UiStates
  /\ remote \in [down : SUBSET Keys, mask : SUBSET Buttons]
  /\ events \in 0 .. MaxEvents

LEMMA Types == TypeOK <=> QueueOK /\ FlagsOK /\ KeysOK /\ RestOK
BY DEF TypeOK, QueueOK, FlagsOK, KeysOK, RestOK, Threads, UiStates

LEMMA TypesNext == TypeOK' <=> QueueOK' /\ FlagsOK' /\ KeysOK' /\ RestOK'
BY DEF TypeOK, QueueOK, FlagsOK, KeysOK, RestOK, Threads, UiStates

LEMMA TrailFreeQueue == NoTrail <=> TrailFree(commands)
BY DEF NoTrail, TrailFree

LEMMA TrailFreeNext == NoTrail' <=> TrailFree(commands')
BY DEF NoTrail, TrailFree

-----------------------------------------------------------------------------
(* InputDispatcher::submit, or no submit                                   *)

(* What a call does to the queue, and which keys it makes go down.         *)
Quiet ==
  /\ QueueOK' /\ NoTrail' /\ ParkedOnlyWhenIdle'
  /\ error' \in BOOLEAN /\ UNCHANGED <<stopped, current, hand, target>>

LEMMA WakingIsQuiet ==
  ASSUME thread \in Threads, thread' = thread \/ WakeThread, UNCHANGED <<hand, target, link>>
  PROVE  thread' \in Threads /\ Now' = Now
<1>1. thread' = thread \/ (thread = "wait" /\ thread' = "receive")
  BY DEF WakeThread
<1>2. UNCHANGED <<hand, target, session, remote>>
  BY DEF link
<1> QED
  BY <1>1, <1>2 DEF Now, Threads

LEMMA Submits ==
  ASSUME QueueOK, FlagsOK, NoTrail, ParkedOnlyWhenIdle,
         NEW c \in Command, NEW owed, owed \subseteq Keys \cup {"pointer"}, SubmitOwing(c, owed),
         UNCHANGED link
  PROVE  /\ Quiet
         /\ \A k \in Down' : /\ k \in Down \/ (Accepted(c) /\ c.kind = "press" /\ c.key = k)
                            /\ ~(Accepted(c) /\ c.kind = "release" /\ c.key = k)
         /\ Accepted(c) /\ c.kind \in {"pointer", "batch"} /\ c.mask = {} => Up'
         /\ Up /\ (c.kind \in Pointing => c.mask = {}) => Up'
         /\ Accepted(c) => Excused \subseteq Excused' \cup Releases(c)
         /\ ~Accepted(c) => Excused \cup owed \subseteq Excused'
<1>1. /\ commands \in Seq(Command) /\ Len(commands) <= MaxCommands /\ TrailFree(commands)
      /\ thread \in Threads
      /\ excused \subseteq {"told", "crossed"} \X (Keys \cup {"pointer"})
  BY TrailFreeQueue DEF QueueOK
<1>2. UNCHANGED <<stopped, current, hand, target>> /\ error' = FALSE
  BY DEF SubmitOwing
<1>3. error' \in BOOLEAN
  BY <1>2
<1>4. thread' = thread \/ WakeThread
  BY DEF SubmitOwing
<1>5. thread' \in Threads /\ Now' = Now
  BY <1>1, <1>2, <1>4, WakingIsQuiet
<1>6. CASE Accepted(c)
  <2>1. /\ commands' = Pushed(commands, c) /\ Accepts(commands, c)
        /\ excused' = excused \ ({"told", "crossed"} \X Releases(c))
        /\ IF InPlace(commands, c) THEN thread' = thread ELSE WakeThread
    BY <1>6 DEF SubmitOwing, Accepted
  <2>2. /\ commands' \in Seq(Command) /\ Len(commands') <= MaxCommands /\ TrailFree(commands')
        /\ \A k \in WillBeDown(Now, commands') :
             /\ k \in WillBeDown(Now, commands) \/ (c.kind = "press" /\ c.key = k)
             /\ ~(c.kind = "release" /\ c.key = k)
        /\ c.kind \in {"pointer", "batch"} /\ c.mask = {} => UpSince(Now, commands')
        /\ UpSince(Now, commands) /\ (c.kind \in Pointing => c.mask = {})
           => UpSince(Now, commands')
    BY <1>1, <2>1, PushedQueue
  <2>3. excused' \subseteq {"told", "crossed"} \X (Keys \cup {"pointer"})
    BY <1>1, <2>1
  <2>4. ParkedOnlyWhenIdle'
    <3>1. thread' # "wait"
      BY <2>1 DEF InPlace, ParkedOnlyWhenIdle, WakeThread
    <3> QED
      BY <3>1 DEF ParkedOnlyWhenIdle
  <2>5. Excused \subseteq Excused' \cup Releases(c)
    <3> SUFFICES ASSUME NEW e \in excused, e[2] \notin Releases(c) PROVE e[2] \in Excused'
      BY DEF Excused
    <3>1. e \in excused'
      BY <2>1
    <3> QED
      BY <3>1 DEF Excused
  <2>6. /\ \A k \in Down' : /\ k \in Down \/ (c.kind = "press" /\ c.key = k)
                           /\ ~(c.kind = "release" /\ c.key = k)
        /\ c.kind \in {"pointer", "batch"} /\ c.mask = {} => Up'
        /\ Up /\ (c.kind \in Pointing => c.mask = {}) => Up'
    BY <1>5, <2>2 DEF Down, Up
  <2>7. Quiet
    BY <1>2, <1>3, <1>5, <2>2, <2>3, <2>4, TrailFreeNext DEF Quiet, QueueOK
  <2> QED
    BY <1>6, <2>5, <2>6, <2>7
<1>7. CASE ~Accepted(c)
  <2>1. /\ commands' = commands \/ commands' = Coalesced(commands, c)
        /\ thread' = thread /\ excused' = excused \cup ({"told"} \X owed)
    BY <1>7 DEF SubmitOwing
  <2>2. Thinned(Now, commands, commands') /\ (commands = <<>> => commands' = <<>>)
    BY <1>1, <2>1, CoalescedThins, NotDropped
  <2>3. excused' \subseteq {"told", "crossed"} \X (Keys \cup {"pointer"})
    BY <1>1, <2>1
  <2>4. ParkedOnlyWhenIdle'
    BY <1>2, <2>1, <2>2 DEF ParkedOnlyWhenIdle
  <2>5. Excused \cup owed \subseteq Excused'
    <3>1. ASSUME NEW e \in excused PROVE e[2] \in Excused'
      BY <2>1 DEF Excused
    <3>2. ASSUME NEW k \in owed PROVE k \in Excused'
      <4>1. <<"told", k>> \in excused' /\ <<"told", k>>[2] = k
        BY <2>1
      <4> QED
        BY <4>1 DEF Excused
    <3> QED
      BY <3>1, <3>2 DEF Excused
  <2>6. Len(commands') <= MaxCommands
    <3>1. Len(commands) \in Nat /\ Len(commands') \in Nat /\ MaxCommands \in Nat
      BY <1>1, <2>2, DispatchAssumption DEF Thinned
    <3> QED
      BY <1>1, <2>2, <3>1 DEF Thinned
  <2>7. Down' \subseteq Down /\ (Up => Up')
    BY <1>5, <2>2 DEF Down, Up, Thinned
  <2>8. Quiet
    BY <1>2, <1>3, <1>5, <2>2, <2>3, <2>4, <2>6, TrailFreeNext DEF Quiet, QueueOK, Thinned
  <2> QED
    BY <1>7, <2>5, <2>7, <2>8
<1> QED
  BY <1>6, <1>7

LEMMA NoSubmits ==
  ASSUME QueueOK, FlagsOK, NoTrail, ParkedOnlyWhenIdle, NoSubmit, UNCHANGED link
  PROVE  Quiet /\ Down' = Down /\ (Up' <=> Up) /\ Excused' = Excused
<1>1. UNCHANGED <<commands, stopped, thread, hand, target, current, error, excused, session,
                  remote>>
  BY DEF NoSubmit, queue, worker, cells, link
<1>2. Now' = Now
  BY <1>1 DEF Now
<1> QED
  BY <1>1, <1>2 DEF Quiet, QueueOK, FlagsOK, NoTrail, ParkedOnlyWhenIdle, Down, Up, Excused

-----------------------------------------------------------------------------
(* What a key command and a mouse command do to the accounts               *)

Accounts == QueueOK /\ FlagsOK /\ NoTrail /\ ParkedOnlyWhenIdle

LEMMA IInvAccounts == IInv => Accounts /\ KeysOK /\ RestOK
BY Types DEF IInv, Accounts

LEMMA DownAreKeys == Down \subseteq Keys
BY DEF Down, WillBeDown

LEMMA Presses ==
  ASSUME Accounts, NEW k \in Keys, NEW owed, owed \subseteq Keys \cup {"pointer"},
         SubmitOwing(KeyCommand(TRUE, k), owed), UNCHANGED link
  PROVE  /\ Quiet /\ Down' \subseteq Down \cup {k}
         /\ ~Accepted(KeyCommand(TRUE, k)) => Down' \subseteq Down /\ owed \subseteq Excused'
         /\ Excused \subseteq Excused'
         /\ Up \/ "pointer" \in Excused => Up' \/ "pointer" \in Excused'
<1> DEFINE c == KeyCommand(TRUE, k)
<1>1. c \in Command /\ c.kind = "press" /\ c.key = k
  BY PressCommand
<1>2. SubmitOwing(c, owed)
  OBVIOUS
<1> HIDE DEF c
<1>3. /\ Quiet
      /\ \A i \in Down' : i \in Down \/ (Accepted(c) /\ c.kind = "press" /\ c.key = i)
      /\ Up /\ (c.kind \in Pointing => c.mask = {}) => Up'
      /\ Accepted(c) => Excused \subseteq Excused' \cup Releases(c)
      /\ ~Accepted(c) => Excused \cup owed \subseteq Excused'
  BY <1>1, <1>2, Submits DEF Accounts
<1>4. c.kind \notin Pointing /\ ~IsRelease(c)
  BY <1>1 DEF Pointing, IsRelease
<1>5. Releases(c) = {}
  BY <1>4 DEF Releases
<1>6. Excused \subseteq Excused'
  BY <1>3, <1>5
<1>7. Down' \subseteq Down \cup {k} /\ (~Accepted(c) => Down' \subseteq Down)
  BY <1>1, <1>3
<1>8. Up \/ "pointer" \in Excused => Up' \/ "pointer" \in Excused'
  BY <1>3, <1>4, <1>6
<1> QED
  BY <1>3, <1>6, <1>7, <1>8 DEF c

LEMMA Lifts ==
  ASSUME Accounts, NEW k \in Keys, NEW owed, owed \subseteq Keys \cup {"pointer"},
         SubmitOwing(KeyCommand(FALSE, k), owed), UNCHANGED link
  PROVE  /\ Quiet
         /\ Accepted(KeyCommand(FALSE, k)) =>
              Down' \subseteq Down \ {k} /\ Excused \subseteq Excused' \cup {k}
         /\ ~Accepted(KeyCommand(FALSE, k)) =>
              Down' \subseteq Down /\ Excused \cup owed \subseteq Excused'
         /\ Up \/ "pointer" \in Excused => Up' \/ "pointer" \in Excused'
<1> DEFINE c == KeyCommand(FALSE, k)
<1>1. c \in Command /\ c.kind = "release" /\ c.key = k
  BY ReleaseCommand
<1>2. SubmitOwing(c, owed)
  OBVIOUS
<1> HIDE DEF c
<1>3. /\ Quiet
      /\ \A i \in Down' : /\ i \in Down \/ (Accepted(c) /\ c.kind = "press" /\ c.key = i)
                         /\ ~(Accepted(c) /\ c.kind = "release" /\ c.key = i)
      /\ Up /\ (c.kind \in Pointing => c.mask = {}) => Up'
      /\ Accepted(c) => Excused \subseteq Excused' \cup Releases(c)
      /\ ~Accepted(c) => Excused \cup owed \subseteq Excused'
  BY <1>1, <1>2, Submits DEF Accounts
<1>4. c.kind \notin Pointing /\ Releases(c) = {k} /\ k # "pointer"
  BY <1>1, ReleaseKinds, DispatchAssumption DEF Pointing
<1>5. Accepted(c) => Down' \subseteq Down \ {k} /\ Excused \subseteq Excused' \cup {k}
  BY <1>1, <1>3, <1>4
<1>6. ~Accepted(c) => Down' \subseteq Down
  BY <1>3
<1>7. Up \/ "pointer" \in Excused => Up' \/ "pointer" \in Excused'
  <2>1. "pointer" \in Excused => "pointer" \in Excused'
    BY <1>3, <1>4
  <2> QED
    BY <1>3, <1>4, <2>1
<1> QED
  BY <1>3, <1>5, <1>6, <1>7 DEF c

(* Of a mouse command the keys know nothing, and the buttons are settled   *)
(* if it says they are up.                                                 *)
LEMMA Points ==
  ASSUME Accounts, NEW c \in Command, c.kind \notin {"press", "release"},
         NEW owed, owed \subseteq Releases(c), SubmitOwing(c, owed), UNCHANGED link
  PROVE  /\ Quiet /\ Down' \subseteq Down
         /\ Excused \cap Keys \subseteq Excused'
         /\ (Up \/ "pointer" \in Excused) /\ (c.kind \in Pointing => c.mask = {})
            => Up' \/ "pointer" \in Excused'
         /\ c.kind \in {"pointer", "batch"} /\ c.mask = {} /\ (Accepted(c) \/ "pointer" \in owed)
            => Up' \/ "pointer" \in Excused'
<1>1. /\ Releases(c) \subseteq {"pointer"} /\ "pointer" \notin Keys
      /\ "pointer" \in Releases(c) => c.kind \in {"pointer", "batch"} /\ c.mask = {}
      /\ owed \subseteq Keys \cup {"pointer"}
  BY ReleaseKinds, DispatchAssumption DEF Releases
<1>2. /\ Quiet
      /\ \A i \in Down' : i \in Down \/ (Accepted(c) /\ c.kind = "press" /\ c.key = i)
      /\ Accepted(c) /\ c.kind \in {"pointer", "batch"} /\ c.mask = {} => Up'
      /\ Up /\ (c.kind \in Pointing => c.mask = {}) => Up'
      /\ Accepted(c) => Excused \subseteq Excused' \cup Releases(c)
      /\ ~Accepted(c) => Excused \cup owed \subseteq Excused'
  BY <1>1, Submits DEF Accounts
<1>3. Down' \subseteq Down
  BY <1>2
<1>4. Excused \cap Keys \subseteq Excused'
  BY <1>1, <1>2
<1>5. ASSUME "pointer" \in Excused, "pointer" \notin Excused' PROVE Up'
  BY <1>1, <1>2, <1>5
<1>6. (Up \/ "pointer" \in Excused) /\ (c.kind \in Pointing => c.mask = {})
      => Up' \/ "pointer" \in Excused'
  BY <1>2, <1>5
<1>7. c.kind \in {"pointer", "batch"} /\ c.mask = {} /\ (Accepted(c) \/ "pointer" \in owed)
      => Up' \/ "pointer" \in Excused'
  BY <1>2
<1> QED
  BY <1>2, <1>3, <1>4, <1>6, <1>7

-----------------------------------------------------------------------------
(* The user's events and the steps that follow them                        *)

Busy == UiStates \ {"swap", "swapped", "gone"}
Recorded == pressedKeys \cup pressedRaw
KeysSettled == Down \subseteq Recorded \cup Excused \cup Doing
ButtonsSettled == buttonMask = {} => Up \/ "pointer" \in Excused

LEMMA Settled ==
  ASSUME IInv, alive, ui \in Busy
  PROVE  KeysSettled /\ ButtonsSettled
BY DEF IInv, KeysInv, ButtonsInv, Live, Busy, KeysSettled, ButtonsSettled, Recorded

(* A step of the UI thread that connects to nothing keeps the invariant if *)
(* it keeps the accounts.                                                  *)
LEMMA UiKeeps ==
  ASSUME IInv, Quiet, UNCHANGED link, ui \in Busy, ui' \in Busy \cup {"swap"},
         cursor' \in BOOLEAN, imeActive' \in BOOLEAN, KeysOK', events' \in 0 .. MaxEvents, TodoInv',
         ui' \in {"swap", "clear"} => ~alive,
         alive => KeysSettled' /\ ButtonsSettled'
  PROVE  IInv'
<1>1. /\ QueueOK' /\ NoTrail' /\ ParkedOnlyWhenIdle' /\ error' \in BOOLEAN
      /\ UNCHANGED <<stopped, current, hand, target, session, alive, remote>>
  BY DEF Quiet, link
<1>2. QueueOK /\ FlagsOK /\ KeysOK /\ RestOK
  BY Types DEF IInv
<1>3. FlagsOK'
  BY <1>1, <1>2 DEF FlagsOK
<1>4. ui' \in UiStates /\ ui' # "swapped" /\ ui' # "gone"
  BY DEF Busy, UiStates
<1>5. RestOK'
  BY <1>1, <1>2, <1>4 DEF RestOK
<1>6. TypeOK'
  BY <1>1, <1>3, <1>5, TypesNext
<1>7. SessionInv'
  BY <1>1, <1>4 DEF IInv, SessionInv, Replacing, Busy
<1>8. KeysInv' /\ ButtonsInv'
  BY <1>1 DEF KeysInv, ButtonsInv, Live, KeysSettled, ButtonsSettled, Recorded
<1> QED
  BY <1>1, <1>6, <1>7, <1>8 DEF IInv

LEMMA EventKeeps ==
  ASSUME IInv, NEW kind, Event(kind)
  PROVE  /\ Accounts /\ KeysOK /\ cursor \in BOOLEAN /\ imeActive \in BOOLEAN
         /\ ui = "ready" /\ ui \in Busy /\ Doing = {} /\ UNCHANGED link
         /\ events' \in 0 .. MaxEvents
         /\ alive => Down \subseteq Recorded \cup Excused /\ ButtonsSettled
<1>1. Accounts /\ KeysOK /\ RestOK /\ FlagsOK
  BY IInvAccounts DEF Accounts
<1>2. ui = "ready" /\ UNCHANGED link /\ events < MaxEvents /\ events' = events + 1
  BY DEF Event
<1>3. ui \in Busy /\ Doing = {}
  BY <1>2 DEF Busy, UiStates, Doing
<1>4. events' \in 0 .. MaxEvents
  BY <1>1, <1>2, DispatchAssumption DEF RestOK
<1>5. alive => Down \subseteq Recorded \cup Excused /\ ButtonsSettled
  BY <1>3, Settled DEF KeysSettled
<1> QED
  BY <1>1, <1>2, <1>3, <1>4, <1>5 DEF FlagsOK

(* While the UI thread is ready it owes nothing.                           *)
LEMMA ReadyOwes ==
  ASSUME IInv, ui = "ready", UNCHANGED calling
  PROVE  ui' = "ready" /\ TodoInv' /\ Doing' = {} /\ ui' \in Busy
BY DEF calling, TodoInv, Doing, Busy, UiStates

(* Mouse events. *)
LEMMA CursorKeeps ==
  ASSUME IInv, NEW inside \in BOOLEAN, CursorMoved(inside)
  PROVE  IInv'
<1>1. /\ Event("cursor") /\ UNCHANGED calling /\ cursor' = inside
      /\ UNCHANGED <<pressedKeys, pressedRaw, suppressed, buttonMask, imeActive>>
      /\ Submit(PointerCommand("motion", buttonMask)) \/ NoSubmit
  BY DEF CursorMoved
<1>2. /\ Accounts /\ KeysOK /\ imeActive \in BOOLEAN /\ ui = "ready" /\ ui \in Busy /\ UNCHANGED link
      /\ events' \in 0 .. MaxEvents /\ (alive => Down \subseteq Recorded \cup Excused /\ ButtonsSettled)
  BY <1>1, EventKeeps
<1>3. ui' = "ready" /\ TodoInv' /\ Doing' = {} /\ ui' \in Busy
  BY <1>1, <1>2, ReadyOwes
<1>4. KeysOK'
  BY <1>1, <1>2 DEF KeysOK
<1>5. /\ Quiet
      /\ Down' \subseteq Down /\ Excused \cap Keys \subseteq Excused'
      /\ buttonMask = {} /\ (Up \/ "pointer" \in Excused) => Up' \/ "pointer" \in Excused'
  <2>1. CASE Submit(PointerCommand("motion", buttonMask))
    <3>1. LET c == PointerCommand("motion", buttonMask)
          IN  c \in Command /\ c.kind = "motion" /\ c.mask = buttonMask
      BY <1>2, MouseCommand DEF KeysOK, Pointing
    <3> QED
      BY <1>2, <2>1, <3>1, Points DEF Submit
  <2>2. CASE NoSubmit
    BY <1>2, <2>2, NoSubmits DEF Accounts
  <2> QED
    BY <1>1, <2>1, <2>2
<1>6. alive => KeysSettled' /\ ButtonsSettled'
  BY <1>1, <1>2, <1>3, <1>5, DownAreKeys DEF KeysSettled, ButtonsSettled, Recorded
<1> QED
  BY <1>1, <1>2, <1>3, <1>4, <1>5, <1>6, UiKeeps

LEMMA ButtonKeeps ==
  ASSUME IInv, NEW b \in Buttons, NEW down \in BOOLEAN, Button(b, down)
  PROVE  IInv'
<1>1. /\ Event("button") /\ UNCHANGED calling
      /\ UNCHANGED <<pressedKeys, pressedRaw, suppressed, cursor, imeActive>>
      /\ \/ buttonMask' \in {buttonMask \cup {b}, buttonMask \ {b}}
            /\ Submit(PointerCommand("pointer", buttonMask'))
         \/ UNCHANGED buttonMask /\ NoSubmit
  BY DEF Button
<1>2. /\ Accounts /\ KeysOK /\ cursor \in BOOLEAN /\ imeActive \in BOOLEAN
      /\ ui = "ready" /\ ui \in Busy /\ UNCHANGED link
      /\ events' \in 0 .. MaxEvents /\ (alive => Down \subseteq Recorded \cup Excused /\ ButtonsSettled)
  BY <1>1, EventKeeps
<1>3. ui' = "ready" /\ TodoInv' /\ Doing' = {} /\ ui' \in Busy
  BY <1>1, <1>2, ReadyOwes
<1>4. KeysOK'
  BY <1>1, <1>2 DEF KeysOK
<1>5. /\ Quiet
      /\ Down' \subseteq Down /\ Excused \cap Keys \subseteq Excused'
      /\ alive => ButtonsSettled'
  <2>1. CASE Submit(PointerCommand("pointer", buttonMask'))
    <3> DEFINE c == PointerCommand("pointer", buttonMask')
    <3>1. c \in Command /\ c.kind = "pointer" /\ c.mask = buttonMask'
      BY <1>4, MouseCommand DEF KeysOK, Pointing
    <3>2. SubmitOwing(c, Releases(c))
      BY <2>1 DEF Submit
    <3> HIDE DEF c
    <3>3. buttonMask' = {} => "pointer" \in Releases(c)
      BY <3>1, ReleaseKinds
    <3>4. /\ Quiet /\ Down' \subseteq Down /\ Excused \cap Keys \subseteq Excused'
          /\ c.kind \in {"pointer", "batch"} /\ c.mask = {} /\ (Accepted(c) \/ "pointer" \in Releases(c))
             => Up' \/ "pointer" \in Excused'
      BY <1>2, <3>1, <3>2, Points
    <3> QED
      BY <3>1, <3>3, <3>4 DEF ButtonsSettled
  <2>2. CASE UNCHANGED buttonMask /\ NoSubmit
    BY <1>2, <2>2, NoSubmits DEF Accounts, ButtonsSettled
  <2> QED
    BY <1>1, <2>1, <2>2
<1>6. alive => KeysSettled'
  BY <1>1, <1>2, <1>3, <1>5, DownAreKeys DEF KeysSettled, Recorded
<1> QED
  BY <1>1, <1>2, <1>3, <1>4, <1>5, <1>6, UiKeeps

(* A command of which neither the keys nor the buttons know anything, or   *)
(* one that says how the buttons are; or nothing is sent at all.           *)
LEMMA OthersKeep ==
  ASSUME IInv, NEW kind, Event(kind), UNCHANGED calling,
         UNCHANGED <<pressedKeys, pressedRaw, buttonMask, cursor>>, imeActive' \in BOOLEAN,
         suppressed' \subseteq {"paste", "shortcut", "ime"} \X Keys,
         NoSubmit \/ Submit(Plain("scroll")) \/ Submit(Plain("clipboard"))
                  \/ Submit(PointerCommand("batch", buttonMask))
  PROVE  IInv'
<1>1. /\ Accounts /\ KeysOK /\ cursor \in BOOLEAN /\ ui = "ready" /\ ui \in Busy /\ UNCHANGED link
      /\ events' \in 0 .. MaxEvents /\ (alive => Down \subseteq Recorded \cup Excused /\ ButtonsSettled)
  BY EventKeeps
<1>2. ui' = "ready" /\ TodoInv' /\ Doing' = {} /\ ui' \in Busy
  BY <1>1, ReadyOwes
<1>3. KeysOK'
  BY <1>1 DEF KeysOK
<1>4. ASSUME NEW c \in Command, Submit(c),
             c.kind \in {"scroll", "clipboard"} \/ (c.kind = "batch" /\ c.mask = buttonMask)
      PROVE  /\ Quiet /\ Down' \subseteq Down /\ Excused \cap Keys \subseteq Excused'
             /\ ButtonsSettled => ButtonsSettled'
  <2>1. /\ c.kind \notin {"press", "release"}
        /\ buttonMask = {} => (c.kind \in Pointing => c.mask = {})
    BY <1>4 DEF Pointing
  <2>2. SubmitOwing(c, Releases(c))
    BY <1>4 DEF Submit
  <2>3. /\ Quiet /\ Down' \subseteq Down /\ Excused \cap Keys \subseteq Excused'
        /\ (Up \/ "pointer" \in Excused) /\ (c.kind \in Pointing => c.mask = {})
           => Up' \/ "pointer" \in Excused'
    BY <1>1, <2>1, <2>2, Points
  <2> QED
    BY <2>1, <2>3 DEF ButtonsSettled
<1>5. /\ Quiet /\ Down' \subseteq Down /\ Excused \cap Keys \subseteq Excused'
      /\ ButtonsSettled => ButtonsSettled'
  <2>1. CASE NoSubmit
    BY <1>1, <2>1, NoSubmits DEF Accounts, ButtonsSettled
  <2>2. CASE Submit(Plain("scroll"))
    BY <1>4, <2>2, PlainCommand
  <2>3. CASE Submit(Plain("clipboard"))
    BY <1>4, <2>3, PlainCommand
  <2>4. CASE Submit(PointerCommand("batch", buttonMask))
    <3>1. LET c == PointerCommand("batch", buttonMask)
          IN  c \in Command /\ c.kind = "batch" /\ c.mask = buttonMask
      BY <1>1, MouseCommand DEF KeysOK, Pointing
    <3> QED
      BY <1>4, <2>4, <3>1
  <2> QED
    BY <2>1, <2>2, <2>3, <2>4
<1>6. alive => KeysSettled' /\ ButtonsSettled'
  BY <1>1, <1>2, <1>5, DownAreKeys DEF KeysSettled, Recorded
<1> QED
  BY <1>1, <1>2, <1>3, <1>5, <1>6, UiKeeps

LEMMA WheelKeeps == IInv /\ Wheel => IInv'
<1> SUFFICES ASSUME IInv, Wheel PROVE IInv'
  OBVIOUS
<1>1. /\ Event("scroll") \/ Event("wheel")
      /\ UNCHANGED calling
      /\ UNCHANGED <<pressedKeys, pressedRaw, buttonMask, cursor, suppressed, imeActive>>
      /\ NoSubmit \/ Submit(Plain("scroll")) \/ Submit(PointerCommand("batch", buttonMask))
  BY DEF Wheel, local
<1>2. suppressed \subseteq {"paste", "shortcut", "ime"} \X Keys /\ imeActive \in BOOLEAN
  BY IInvAccounts DEF Accounts, KeysOK, FlagsOK
<1> QED
  BY <1>1, <1>2, OthersKeep

LEMMA ClipboardKeeps == IInv /\ SendClipboard => IInv'
<1> SUFFICES ASSUME IInv, SendClipboard PROVE IInv'
  OBVIOUS
<1>1. /\ Event("clipboard") /\ Submit(Plain("clipboard"))
      /\ UNCHANGED calling
      /\ UNCHANGED <<pressedKeys, pressedRaw, buttonMask, cursor, suppressed, imeActive>>
  BY DEF SendClipboard, local
<1>2. suppressed \subseteq {"paste", "shortcut", "ime"} \X Keys /\ imeActive \in BOOLEAN
  BY IInvAccounts DEF Accounts, KeysOK, FlagsOK
<1> QED
  BY <1>1, <1>2, OthersKeep

LEMMA PasteKeeps ==
  ASSUME IInv, NEW k \in Keys, PasteShortcut(k)
  PROVE  IInv'
<1>1. suppressed \subseteq {"paste", "shortcut", "ime"} \X Keys /\ imeActive \in BOOLEAN
  BY IInvAccounts DEF Accounts, KeysOK, FlagsOK
<1>2. /\ Event("paste") /\ NoSubmit
      /\ suppressed' = suppressed \cup {<<"paste", k>>}
      /\ UNCHANGED calling /\ UNCHANGED <<pressedKeys, pressedRaw, buttonMask, cursor, imeActive>>
  BY DEF PasteShortcut
<1>3. suppressed' \subseteq {"paste", "shortcut", "ime"} \X Keys /\ imeActive' \in BOOLEAN
  BY <1>1, <1>2
<1> QED
  BY <1>2, <1>3, OthersKeep

LEMMA ImeTogglesKeep == IInv /\ ImeToggles => IInv'
<1> SUFFICES ASSUME IInv, ImeToggles PROVE IInv'
  OBVIOUS
<1>1. suppressed \subseteq {"paste", "shortcut", "ime"} \X Keys
  BY IInvAccounts DEF KeysOK
<1>2. /\ Event("ime") /\ NoSubmit /\ imeActive' = ~imeActive
      /\ UNCHANGED calling /\ UNCHANGED <<pressedKeys, pressedRaw, buttonMask, cursor, suppressed>>
  BY DEF ImeToggles
<1>3. suppressed' \subseteq {"paste", "shortcut", "ime"} \X Keys
  BY <1>1, <1>2
<1>4. imeActive' \in BOOLEAN
  BY <1>2
<1> QED
  BY <1>2, <1>3, <1>4, OthersKeep

(* Key events.  A press is recorded, a release takes the record back.      *)
LEMMA KeysKeep ==
  ASSUME IInv, NEW kind, Event(kind), UNCHANGED calling,
         UNCHANGED <<buttonMask, cursor, imeActive>>, KeysOK', NEW k \in Keys,
         \/ NoSubmit /\ UNCHANGED <<pressedKeys, pressedRaw>>
         \/ Submit(KeyCommand(TRUE, k)) /\ Recorded' = Recorded \cup {k}
         \/ Submit(KeyCommand(FALSE, k)) /\ Recorded \ {k} \subseteq Recorded'
  PROVE  IInv'
<1>1. /\ Accounts /\ cursor \in BOOLEAN /\ imeActive \in BOOLEAN
      /\ ui = "ready" /\ ui \in Busy /\ UNCHANGED link
      /\ events' \in 0 .. MaxEvents /\ (alive => Down \subseteq Recorded \cup Excused /\ ButtonsSettled)
  BY EventKeeps
<1>2. ui' = "ready" /\ TodoInv' /\ Doing' = {} /\ ui' \in Busy
  BY <1>1, ReadyOwes
<1>3. /\ Quiet
      /\ Down \subseteq Recorded \cup Excused => Down' \subseteq Recorded' \cup Excused'
      /\ ButtonsSettled => ButtonsSettled'
  <2>1. CASE NoSubmit /\ UNCHANGED <<pressedKeys, pressedRaw>>
    BY <1>1, <2>1, NoSubmits DEF Accounts, ButtonsSettled, Recorded
  <2>2. CASE Submit(KeyCommand(TRUE, k)) /\ Recorded' = Recorded \cup {k}
    <3>1. Releases(KeyCommand(TRUE, k)) \subseteq Keys \cup {"pointer"}
      BY PressCommand, ReleaseKinds
    <3>2. /\ Quiet /\ Down' \subseteq Down \cup {k} /\ Excused \subseteq Excused'
          /\ Up \/ "pointer" \in Excused => Up' \/ "pointer" \in Excused'
      BY <1>1, <2>2, <3>1, Presses DEF Submit
    <3> QED
      BY <2>2, <3>2 DEF ButtonsSettled
  <2>3. CASE Submit(KeyCommand(FALSE, k)) /\ Recorded \ {k} \subseteq Recorded'
    <3>1. Releases(KeyCommand(FALSE, k)) = {k}
      BY ReleaseCommand, ReleaseKinds
    <3>2. /\ Quiet
          /\ \/ Down' \subseteq Down \ {k} /\ Excused \subseteq Excused' \cup {k}
             \/ Down' \subseteq Down /\ Excused \cup {k} \subseteq Excused'
          /\ Up \/ "pointer" \in Excused => Up' \/ "pointer" \in Excused'
      BY <1>1, <2>3, <3>1, Lifts DEF Submit
    <3> QED
      BY <2>3, <3>2 DEF ButtonsSettled
  <2> QED
    BY <2>1, <2>2, <2>3
<1>4. alive => KeysSettled' /\ ButtonsSettled'
  BY <1>1, <1>2, <1>3 DEF KeysSettled
<1> QED
  BY <1>1, <1>2, <1>3, <1>4, UiKeeps

LEMMA KeyKeeps ==
  ASSUME IInv, NEW k \in Keys, KeyPressed(k) \/ KeyReleased(k)
  PROVE  IInv'
<1>1. KeysOK
  BY IInvAccounts
<1>2. CASE KeyPressed(k)
  <2>1. /\ Event("key") /\ UNCHANGED calling /\ UNCHANGED <<pressedRaw, buttonMask, cursor, imeActive>>
        /\ \/ /\ suppressed' = suppressed \cup {<<"ime", k>>} /\ NoSubmit
              /\ UNCHANGED pressedKeys
           \/ /\ UNCHANGED suppressed /\ Submit(KeyCommand(TRUE, k))
              /\ pressedKeys' = pressedKeys \cup {k}
    BY <1>2 DEF KeyPressed
  <2>2. suppressed' \subseteq suppressed \cup ({"ime"} \X {k}) /\ pressedKeys' \subseteq pressedKeys \cup {k}
    <3>1. CASE imeActive /\ k \notin Modifiers
      BY <1>2, <3>1 DEF KeyPressed
    <3>2. CASE ~(imeActive /\ k \notin Modifiers)
      BY <1>2, <3>2 DEF KeyPressed
    <3> QED
      BY <3>1, <3>2
  <2>3. KeysOK'
    BY <1>1, <2>1, <2>2 DEF KeysOK
  <2> QED
    BY <2>1, <2>3, KeysKeep DEF Recorded
<1>3. CASE KeyReleased(k)
  <2>1. /\ Event("key") /\ UNCHANGED calling /\ UNCHANGED <<pressedRaw, buttonMask, cursor, imeActive>>
        /\ suppressed' = suppressed \ SwallowedBy(k)
        /\ \/ NoSubmit /\ UNCHANGED pressedKeys
           \/ Submit(KeyCommand(FALSE, k)) /\ pressedKeys' = pressedKeys \ {k}
    BY <1>3 DEF KeyReleased
  <2>2. KeysOK'
    BY <1>1, <2>1 DEF KeysOK
  <2> QED
    BY <2>1, <2>2, KeysKeep DEF Recorded
<1> QED
  BY <1>2, <1>3

LEMMA RawKeeps ==
  ASSUME IInv, NEW k \in Keys, NEW down \in BOOLEAN, RawKey(k, down)
  PROVE  IInv'
<1>1. KeysOK
  BY IInvAccounts
<1>2. /\ Event("raw") /\ UNCHANGED calling
      /\ UNCHANGED <<pressedKeys, suppressed, buttonMask, cursor, imeActive>>
  BY DEF RawKey
<1>3. \/ pressedRaw' = pressedRaw \cup {k} /\ Submit(KeyCommand(TRUE, k))
      \/ pressedRaw' = pressedRaw \ {k} /\ Submit(KeyCommand(FALSE, k))
  <2>1. CASE down = TRUE
    BY <2>1 DEF RawKey
  <2>2. CASE down = FALSE
    BY <2>2 DEF RawKey
  <2> QED
    BY <2>1, <2>2
<1>4. KeysOK'
  BY <1>1, <1>2, <1>3 DEF KeysOK
<1> QED
  BY <1>2, <1>3, <1>4, KeysKeep DEF Recorded

(* An event that ends later starts with no submit.                         *)
LEMMA StartsKeep ==
  ASSUME IInv, NEW kind, Event(kind), NoSubmit,
         UNCHANGED <<pressedKeys, pressedRaw, buttonMask, cursor>>,
         KeysOK', imeActive' \in BOOLEAN, ui' \in Busy \ {"clear"}, TodoInv'
  PROVE  IInv'
<1>1. /\ Accounts /\ cursor \in BOOLEAN /\ ui \in Busy /\ UNCHANGED link
      /\ events' \in 0 .. MaxEvents /\ (alive => Down \subseteq Recorded \cup Excused /\ ButtonsSettled)
  BY EventKeeps
<1>2. Quiet /\ Down' = Down /\ (Up' <=> Up) /\ Excused' = Excused
  BY <1>1, NoSubmits DEF Accounts
<1>3. alive => KeysSettled' /\ ButtonsSettled'
  BY <1>1, <1>2 DEF KeysSettled, ButtonsSettled, Recorded
<1>4. ui' # "swap" /\ ui' # "clear"
  BY DEF Busy
<1> QED
  BY <1>1, <1>2, <1>3, <1>4, UiKeeps

LEMMA ImeCommitKeeps ==
  ASSUME IInv, NEW k \in Keys, ImeCommit(k)
  PROVE  IInv'
<1>1. /\ Event("ime") /\ NoSubmit /\ imeActive' = FALSE
      /\ ui' = "ime" /\ todo' = <<KeyCommand(TRUE, k), KeyCommand(FALSE, k)>>
      /\ UNCHANGED <<pressedKeys, pressedRaw, suppressed, buttonMask, cursor>>
  BY DEF ImeCommit
<1>2. KeysOK'
  BY <1>1, IInvAccounts DEF KeysOK
<1>3. TodoInv' /\ ui' \in Busy \ {"clear"}
  BY <1>1 DEF TodoInv, Busy, UiStates
<1>4. imeActive' \in BOOLEAN
  BY <1>1
<1> QED
  BY <1>1, <1>2, <1>3, <1>4, StartsKeep

LEMMA KeyComboKeeps ==
  ASSUME IInv, NEW m \in Keys, NEW k \in Keys, KeyCombo(m, k)
  PROVE  IInv'
<1>1. /\ Event("combo") /\ NoSubmit /\ ui' = "combo"
      /\ todo' = <<KeyCommand(TRUE, m), KeyCommand(TRUE, k), KeyCommand(FALSE, k), KeyCommand(FALSE, m)>>
      /\ UNCHANGED <<pressedKeys, pressedRaw, suppressed, buttonMask, cursor, imeActive>>
  BY DEF KeyCombo, local
<1>2. KeysOK' /\ imeActive \in BOOLEAN
  BY <1>1, IInvAccounts DEF KeysOK, Accounts, FlagsOK
<1>3. TodoInv' /\ ui' \in Busy \ {"clear"}
  BY <1>1 DEF TodoInv, Busy, UiStates
<1> QED
  BY <1>1, <1>2, <1>3, StartsKeep

LEMMA ShortcutKeeps ==
  ASSUME IInv, NEW k \in Keys, Shortcut(k)
  PROVE  IInv'
<1>1. /\ Event("shortcut") /\ NoSubmit /\ ui' = "shortcut"
      /\ suppressed' = suppressed \cup {<<"shortcut", k>>}
      /\ todo' \in SetToSeqs(pressedKeys \cap Modifiers)
      /\ UNCHANGED <<pressedKeys, pressedRaw, buttonMask, cursor, imeActive>>
  BY DEF Shortcut
<1>2. KeysOK /\ imeActive \in BOOLEAN
  BY <1>1, IInvAccounts DEF Accounts, FlagsOK
<1>3. KeysOK'
  BY <1>1, <1>2 DEF KeysOK
<1>4. todo' \in Seq(Keys)
  <2> DEFINE S == pressedKeys \cap Modifiers
  <2>1. S \subseteq Keys
    BY <1>2 DEF KeysOK
  <2>2. IsFiniteSet(S)
    BY <2>1, DispatchAssumption, FS_Subset
  <2>3. Cardinality(S) \in Nat
    BY <2>2, FS_CardinalityType
  <2>4. todo' \in [1 .. Cardinality(S) -> S]
    BY <1>1 DEF SetToSeqs
  <2> HIDE DEF S
  <2>5. todo' \in [1 .. Cardinality(S) -> Keys]
    BY <2>1, <2>4
  <2> QED
    BY <2>3, <2>5, SeqDef
<1>5. TodoInv' /\ ui' \in Busy \ {"clear"}
  BY <1>1, <1>4 DEF TodoInv, Busy, UiStates
<1> QED
  BY <1>1, <1>2, <1>3, <1>5, StartsKeep

LEMMA FocusKeeps == IInv /\ FocusLost => IInv'
<1> SUFFICES ASSUME IInv, FocusLost PROVE IInv'
  OBVIOUS
<1>1. /\ Event("focus") /\ NoSubmit /\ ui' = "release"
      /\ UNCHANGED <<pressedKeys, pressedRaw, suppressed, buttonMask, cursor, imeActive>>
  BY DEF FocusLost, local
<1>2. KeysOK' /\ imeActive \in BOOLEAN
  BY <1>1, IInvAccounts DEF KeysOK, Accounts, FlagsOK
<1>3. TodoInv' /\ ui' \in Busy \ {"clear"}
  BY <1>1 DEF TodoInv, Busy, UiStates
<1> QED
  BY <1>1, <1>2, <1>3, StartsKeep

(* The keys of a combination: those still to be released are owed, and the *)
(* next command presses one of them or releases one.                       *)
ComboForms(m, k) ==
  {<<KeyCommand(TRUE, m), KeyCommand(TRUE, k), KeyCommand(FALSE, k), KeyCommand(FALSE, m)>>,
   <<KeyCommand(TRUE, k), KeyCommand(FALSE, k), KeyCommand(FALSE, m)>>,
   <<KeyCommand(FALSE, k), KeyCommand(FALSE, m)>>,
   <<KeyCommand(FALSE, m)>>}
KeysOf(t) == {c.key : c \in Range(t)}
ReleasedBy(t) == UNION {Releases(c) : c \in Range(t)}

LEMMA ComboStep ==
  ASSUME NEW m \in Keys, NEW k \in Keys, NEW t \in ComboForms(m, k)
  PROVE  /\ KeysOf(t) = ReleasedBy(t) /\ KeysOf(t) \subseteq Keys
         /\ Len(t) \in Nat /\ (Len(t) > 1 => Tail(t) \in ComboForms(m, k))
         /\ Len(t) <= 1 => KeysOf(Tail(t)) = {}
         /\ \E i \in Keys :
              \/ Head(t) = KeyCommand(TRUE, i) /\ i \in KeysOf(t) /\ Len(t) > 1
                 /\ KeysOf(Tail(t)) = KeysOf(t)
              \/ Head(t) = KeyCommand(FALSE, i) /\ KeysOf(t) \subseteq KeysOf(Tail(t)) \cup {i}
<1> DEFINE pm == KeyCommand(TRUE, m)  rm == KeyCommand(FALSE, m)
           pk == KeyCommand(TRUE, k)  rk == KeyCommand(FALSE, k)
<1>1. /\ pm.key = m /\ rm.key = m /\ pk.key = k /\ rk.key = k
      /\ Releases(pm) = {} /\ Releases(pk) = {} /\ Releases(rm) = {m} /\ Releases(rk) = {k}
  BY DEF KeyCommand, Releases, IsRelease
<1>2. ComboForms(m, k) = {<<pm, pk, rk, rm>>, <<pk, rk, rm>>, <<rk, rm>>, <<rm>>}
  BY DEF ComboForms
<1> HIDE DEF pm, rm, pk, rk
<1>3. /\ Range(<<pm, pk, rk, rm>>) = {pm, pk, rk, rm}
      /\ Range(<<pk, rk, rm>>) = {pk, rk, rm}
      /\ Range(<<rk, rm>>) = {rk, rm} /\ Range(<<rm>>) = {rm} /\ Range(<<>>) = {}
  BY DEF Range
<1>4. /\ KeysOf(<<pm, pk, rk, rm>>) = {m, k} /\ ReleasedBy(<<pm, pk, rk, rm>>) = {m, k}
      /\ KeysOf(<<pk, rk, rm>>) = {m, k} /\ ReleasedBy(<<pk, rk, rm>>) = {m, k}
      /\ KeysOf(<<rk, rm>>) = {m, k} /\ ReleasedBy(<<rk, rm>>) = {m, k}
      /\ KeysOf(<<rm>>) = {m} /\ ReleasedBy(<<rm>>) = {m}
      /\ KeysOf(<<>>) = {}
  <2>1. /\ KeysOf(<<pm, pk, rk, rm>>) = {m, k} /\ KeysOf(<<pk, rk, rm>>) = {m, k}
        /\ KeysOf(<<rk, rm>>) = {m, k} /\ KeysOf(<<rm>>) = {m} /\ KeysOf(<<>>) = {}
    BY <1>1, <1>3 DEF KeysOf
  <2>2. ReleasedBy(<<pm, pk, rk, rm>>) = {m, k} /\ ReleasedBy(<<pk, rk, rm>>) = {m, k}
    BY <1>1, <1>3 DEF ReleasedBy
  <2>3. ReleasedBy(<<rk, rm>>) = {m, k} /\ ReleasedBy(<<rm>>) = {m}
    BY <1>1, <1>3 DEF ReleasedBy
  <2> QED
    BY <2>1, <2>2, <2>3
<1>5. CASE t = <<pm, pk, rk, rm>>
  <2>1. Len(t) = 4 /\ Head(t) = pm /\ Tail(t) = <<pk, rk, rm>>
    BY <1>5
  <2>2. KeyCommand(TRUE, m) = pm
    BY DEF pm
  <2>3. KeysOf(t) = ReleasedBy(t) /\ KeysOf(t) \subseteq Keys
    BY <1>4, <1>5
  <2>4. Len(t) > 1 => Tail(t) \in ComboForms(m, k)
    BY <1>2, <2>1
  <2>5. Len(t) <= 1 => KeysOf(Tail(t)) = {}
    BY <1>4, <2>1
  <2>6. Head(t) = KeyCommand(TRUE, m)
    BY <2>1, <2>2
  <2>7. m \in KeysOf(t) /\ KeysOf(Tail(t)) = KeysOf(t)
    BY <1>4, <1>5, <2>1
  <2>8. Len(t) > 1 /\ Len(t) \in Nat
    BY <2>1
  <2> QED
    BY <2>3, <2>4, <2>5, <2>6, <2>7, <2>8
<1>6. CASE t = <<pk, rk, rm>>
  <2>1. Len(t) = 3 /\ Head(t) = pk /\ Tail(t) = <<rk, rm>>
    BY <1>6
  <2>2. KeyCommand(TRUE, k) = pk
    BY DEF pk
  <2>3. KeysOf(t) = ReleasedBy(t) /\ KeysOf(t) \subseteq Keys
    BY <1>4, <1>6
  <2>4. Len(t) > 1 => Tail(t) \in ComboForms(m, k)
    BY <1>2, <2>1
  <2>5. Len(t) <= 1 => KeysOf(Tail(t)) = {}
    BY <1>4, <2>1
  <2>6. Head(t) = KeyCommand(TRUE, k)
    BY <2>1, <2>2
  <2>7. k \in KeysOf(t) /\ KeysOf(Tail(t)) = KeysOf(t)
    BY <1>4, <1>6, <2>1
  <2>8. Len(t) > 1 /\ Len(t) \in Nat
    BY <2>1
  <2> QED
    BY <2>3, <2>4, <2>5, <2>6, <2>7, <2>8
<1>7. CASE t = <<rk, rm>>
  <2>1. Len(t) = 2 /\ Head(t) = rk /\ Tail(t) = <<rm>>
    BY <1>7
  <2>2. KeyCommand(FALSE, k) = rk
    BY DEF rk
  <2>3. KeysOf(t) = ReleasedBy(t) /\ KeysOf(t) \subseteq Keys
    BY <1>4, <1>7
  <2>4. Len(t) > 1 => Tail(t) \in ComboForms(m, k)
    BY <1>2, <2>1
  <2>5. Len(t) <= 1 => KeysOf(Tail(t)) = {}
    BY <1>4, <2>1
  <2> QED
    BY <1>4, <1>7, <2>1, <2>2, <2>3, <2>4, <2>5
<1>8. CASE t = <<rm>>
  <2>1. Len(t) = 1 /\ Head(t) = rm /\ Tail(t) = <<>>
    BY <1>8
  <2>2. KeyCommand(FALSE, m) = rm
    BY DEF rm
  <2>3. KeysOf(t) = ReleasedBy(t) /\ KeysOf(t) \subseteq Keys
    BY <1>4, <1>8
  <2>4. Len(t) > 1 => Tail(t) \in ComboForms(m, k)
    BY <1>2, <2>1
  <2>5. Len(t) <= 1 => KeysOf(Tail(t)) = {}
    BY <1>4, <2>1
  <2> QED
    BY <1>4, <1>8, <2>1, <2>2, <2>3, <2>4, <2>5
<1> QED
  BY <1>2, <1>5, <1>6, <1>7, <1>8

-----------------------------------------------------------------------------
(* The steps of an event that submits several commands                     *)

LEMMA StepKeeps ==
  ASSUME IInv, NEW op \in Busy, Step(op)
  PROVE  /\ Accounts /\ KeysOK /\ cursor \in BOOLEAN /\ imeActive \in BOOLEAN
         /\ ui = op /\ ui \in Busy /\ UNCHANGED link /\ events' \in 0 .. MaxEvents
         /\ alive => KeysSettled /\ ButtonsSettled
<1>1. Accounts /\ KeysOK /\ RestOK /\ FlagsOK
  BY IInvAccounts DEF Accounts
<1>2. ui = op /\ UNCHANGED link /\ events' = events
  BY DEF Step
<1>3. events' \in 0 .. MaxEvents
  BY <1>1, <1>2 DEF RestOK
<1> QED
  BY <1>1, <1>2, <1>3, Settled DEF FlagsOK

LEMMA FirstOfTwo ==
  ASSUME NEW t, NEW a, NEW b
  PROVE  /\ t = <<a, b>> => Head(t) = a /\ Tail(t) = <<b>> /\ Len(t) = 2
         /\ t = <<a>> => Head(t) = a /\ Len(t) = 1 /\ Range(t) = {a}
<1>1. t = <<a, b>> => Head(t) = a /\ Tail(t) = <<b>> /\ Len(t) = 2
  OBVIOUS
<1>2. t = <<a>> => Head(t) = a /\ Len(t) = 1
  OBVIOUS
<1>3. Range(<<a>>) = {a}
  BY DEF Range
<1> QED
  BY <1>1, <1>2, <1>3

(* A committed character: its release is kept if it is refused.            *)
LEMMA ImeStepKeeps ==
  ASSUME IInv, NextCommand, ui = "ime"
  PROVE  IInv'
<1>1. /\ Step("ime") /\ SubmitSilently(Head(todo))
      /\ \/ /\ Accepted(Head(todo)) /\ Len(todo) > 1
            /\ todo' = Tail(todo) /\ UNCHANGED <<ui, pressedRaw>>
         \/ /\ ~(Accepted(Head(todo)) /\ Len(todo) > 1)
            /\ ui' = "ready" /\ todo' = <<>>
            /\ pressedRaw' = IF ~Accepted(Head(todo)) /\ Head(todo).kind = "release"
                             THEN pressedRaw \cup {Head(todo).key} ELSE pressedRaw
      /\ UNCHANGED <<pressedKeys, suppressed, buttonMask, cursor, imeActive>>
  BY DEF NextCommand, Step
<1>2. "ime" \in Busy
  BY DEF Busy, UiStates
<1>3. /\ Accounts /\ KeysOK /\ cursor \in BOOLEAN /\ imeActive \in BOOLEAN /\ UNCHANGED link
      /\ ui \in Busy /\ events' \in 0 .. MaxEvents /\ (alive => KeysSettled /\ ButtonsSettled)
  BY <1>1, <1>2, StepKeeps
<1>4. PICK k \in Keys :
        todo \in {<<KeyCommand(TRUE, k), KeyCommand(FALSE, k)>>, <<KeyCommand(FALSE, k)>>}
  BY DEF IInv, TodoInv
<1>5. "ready" \in Busy
  BY DEF Busy, UiStates
<1>6. CASE todo = <<KeyCommand(TRUE, k), KeyCommand(FALSE, k)>>
  <2> DEFINE c == KeyCommand(TRUE, k)
             d == KeyCommand(FALSE, k)
  <2> todo = <<c, d>>
    BY <1>6
  <2> HIDE DEF c, d
  <2>1. Head(todo) = c /\ Tail(todo) = <<d>> /\ Len(todo) = 2
    BY FirstOfTwo
  <2>10. Accepted(c) => todo' = <<d>> /\ ui' = "ime"
    BY <1>1, <2>1
  <2> USE DEF c, d
  <2>2. c.kind = "press"
    BY PressCommand
  <2>3. /\ Quiet /\ Down' \subseteq Down \cup {k} /\ Excused \subseteq Excused'
        /\ ~Accepted(c) => Down' \subseteq Down
        /\ Up \/ "pointer" \in Excused => Up' \/ "pointer" \in Excused'
    BY <1>1, <1>3, <2>1, Presses DEF SubmitSilently
  <2> HIDE DEF c
  <2>4. pressedRaw' = pressedRaw
    BY <1>1, <2>1, <2>2
  <2>5. KeysOK'
    BY <1>1, <1>3, <2>4 DEF KeysOK
  <2>6. Doing = {}
    BY <2>1 DEF Doing
  <2>7. ButtonsSettled => ButtonsSettled'
    BY <1>1, <2>3 DEF ButtonsSettled
  <2>8. CASE Accepted(c)
    <3>1. todo' = <<KeyCommand(FALSE, k)>> /\ ui' = "ime"
      BY <2>8, <2>10
    <3>2. TodoInv'
      BY <3>1 DEF TodoInv
    <3>3. Range(todo') = {KeyCommand(FALSE, k)} /\ Len(todo') = 1
      BY <3>1, FirstOfTwo
    <3>4. KeyCommand(FALSE, k).key = k
      BY ReleaseCommand
    <3>5. Doing' = {k}
      <4> DEFINE D == KeyCommand(FALSE, k)
      <4>1. Range(todo') = {D} /\ Len(todo') = 1 /\ D.key = k /\ ui' = "ime"
        BY <3>1, <3>3, <3>4
      <4> HIDE DEF D
      <4> QED
        BY <4>1 DEF Doing
    <3>6. alive => KeysSettled' /\ ButtonsSettled'
      BY <1>1, <1>3, <2>3, <2>4, <2>6, <2>7, <3>5 DEF KeysSettled, Recorded
    <3> QED
      BY <1>1, <1>2, <1>3, <2>3, <2>5, <3>1, <3>2, <3>6, UiKeeps
  <2>9. CASE ~Accepted(c)
    <3>1. todo' = <<>> /\ ui' = "ready"
      BY <1>1, <2>1, <2>9
    <3>2. TodoInv' /\ Doing' = {}
      BY <3>1 DEF TodoInv, Doing
    <3>3. alive => KeysSettled' /\ ButtonsSettled'
      BY <1>1, <1>3, <2>3, <2>4, <2>6, <2>7, <2>9, <3>2 DEF KeysSettled, Recorded
    <3> QED
      BY <1>1, <1>3, <1>5, <2>3, <2>5, <3>1, <3>2, <3>3, UiKeeps
  <2> QED
    BY <2>8, <2>9
<1>7. CASE todo = <<KeyCommand(FALSE, k)>>
  <2> DEFINE c == KeyCommand(FALSE, k)
  <2>1. Head(todo) = c /\ Len(todo) = 1 /\ Range(todo) = {c}
    BY <1>7, FirstOfTwo
  <2>2. c.kind = "release" /\ c.key = k
    BY ReleaseCommand
  <2>3. /\ Quiet
        /\ Accepted(c) => Down' \subseteq Down \ {k} /\ Excused \subseteq Excused' \cup {k}
        /\ ~Accepted(c) => Down' \subseteq Down /\ Excused \subseteq Excused'
        /\ Up \/ "pointer" \in Excused => Up' \/ "pointer" \in Excused'
    BY <1>1, <1>3, <2>1, Lifts DEF SubmitSilently
  <2> HIDE DEF c
  <2>4. /\ ui' = "ready" /\ todo' = <<>>
        /\ pressedRaw' = IF ~Accepted(c) THEN pressedRaw \cup {k} ELSE pressedRaw
    BY <1>1, <2>1, <2>2
  <2>5. KeysOK'
    BY <1>1, <1>3, <2>4 DEF KeysOK
  <2>6. Doing = {k}
    BY <2>1, <2>2 DEF Doing
  <2>7. TodoInv' /\ Doing' = {}
    BY <2>4 DEF TodoInv, Doing
  <2>8. ButtonsSettled => ButtonsSettled'
    BY <1>1, <2>3 DEF ButtonsSettled
  <2>9. KeysSettled => KeysSettled'
    <3>1. CASE Accepted(c)
      BY <1>1, <2>3, <2>4, <2>6, <2>7, <3>1 DEF KeysSettled, Recorded
    <3>2. CASE ~Accepted(c)
      BY <1>1, <2>3, <2>4, <2>6, <2>7, <3>2 DEF KeysSettled, Recorded
    <3> QED
      BY <3>1, <3>2
  <2> QED
    BY <1>1, <1>3, <1>5, <2>3, <2>4, <2>5, <2>7, <2>8, <2>9, UiKeeps
<1> QED
  BY <1>4, <1>6, <1>7

(* A combination: the keys that a refused command leaves behind are told.  *)
LEMMA ComboStepKeeps ==
  ASSUME IInv, NextCommand, ui = "combo"
  PROVE  IInv'
<1>1. /\ Step("combo") /\ SubmitOwing(Head(todo), ReleasedBy(todo))
      /\ \/ /\ Accepted(Head(todo)) /\ Len(todo) > 1
            /\ todo' = Tail(todo) /\ UNCHANGED ui
         \/ /\ ~(Accepted(Head(todo)) /\ Len(todo) > 1)
            /\ ui' = "ready" /\ todo' = <<>>
      /\ UNCHANGED <<pressedKeys, pressedRaw, suppressed, buttonMask, cursor, imeActive>>
  BY DEF NextCommand, Step, ReleasedBy
<1>2. "combo" \in Busy /\ "ready" \in Busy
  BY DEF Busy, UiStates
<1>3. /\ Accounts /\ KeysOK /\ cursor \in BOOLEAN /\ imeActive \in BOOLEAN /\ UNCHANGED link
      /\ ui \in Busy /\ events' \in 0 .. MaxEvents /\ (alive => KeysSettled /\ ButtonsSettled)
  BY <1>1, <1>2, StepKeeps
<1>4. PICK m \in Keys, k \in Keys : todo \in ComboForms(m, k)
  BY DEF IInv, TodoInv, ComboForms
<1>5. /\ KeysOf(todo) = ReleasedBy(todo) /\ KeysOf(todo) \subseteq Keys
      /\ Len(todo) \in Nat /\ (Len(todo) > 1 => Tail(todo) \in ComboForms(m, k))
      /\ Len(todo) <= 1 => KeysOf(Tail(todo)) = {}
  BY <1>4, ComboStep
<1>6. PICK i \in Keys :
        \/ Head(todo) = KeyCommand(TRUE, i) /\ i \in KeysOf(todo) /\ Len(todo) > 1
           /\ KeysOf(Tail(todo)) = KeysOf(todo)
        \/ Head(todo) = KeyCommand(FALSE, i) /\ KeysOf(todo) \subseteq KeysOf(Tail(todo)) \cup {i}
  BY <1>4, ComboStep
<1>7. Doing = KeysOf(todo)
  BY DEF Doing, KeysOf
<1>8. /\ Quiet
      /\ ~Accepted(Head(todo)) => Down' \subseteq Down /\ KeysOf(todo) \subseteq Excused'
                                  /\ Excused \subseteq Excused'
      /\ Accepted(Head(todo)) => \/ Down' \subseteq Down \cup KeysOf(todo) /\ Excused \subseteq Excused'
                                    /\ KeysOf(Tail(todo)) = KeysOf(todo) /\ Len(todo) > 1
                                 \/ Down' \subseteq Down \ {i} /\ Excused \subseteq Excused' \cup {i}
                                    /\ KeysOf(todo) \subseteq KeysOf(Tail(todo)) \cup {i}
      /\ Up \/ "pointer" \in Excused => Up' \/ "pointer" \in Excused'
  <2>1. ReleasedBy(todo) \subseteq Keys \cup {"pointer"}
    BY <1>5
  <2>2. CASE Head(todo) = KeyCommand(TRUE, i) /\ i \in KeysOf(todo) /\ Len(todo) > 1
             /\ KeysOf(Tail(todo)) = KeysOf(todo)
    <3>1. SubmitOwing(KeyCommand(TRUE, i), ReleasedBy(todo))
      BY <1>1, <2>2
    <3>2. /\ Quiet /\ Down' \subseteq Down \cup {i}
          /\ ~Accepted(KeyCommand(TRUE, i)) =>
               Down' \subseteq Down /\ ReleasedBy(todo) \subseteq Excused'
          /\ Excused \subseteq Excused'
          /\ Up \/ "pointer" \in Excused => Up' \/ "pointer" \in Excused'
      BY <1>3, <2>1, <3>1, Presses
    <3> QED
      BY <1>5, <2>2, <3>2
  <2>3. CASE Head(todo) = KeyCommand(FALSE, i) /\ KeysOf(todo) \subseteq KeysOf(Tail(todo)) \cup {i}
    <3>1. SubmitOwing(KeyCommand(FALSE, i), ReleasedBy(todo))
      BY <1>1, <2>3
    <3>2. /\ Quiet
          /\ Accepted(KeyCommand(FALSE, i)) =>
               Down' \subseteq Down \ {i} /\ Excused \subseteq Excused' \cup {i}
          /\ ~Accepted(KeyCommand(FALSE, i)) =>
               Down' \subseteq Down /\ Excused \cup ReleasedBy(todo) \subseteq Excused'
          /\ Up \/ "pointer" \in Excused => Up' \/ "pointer" \in Excused'
      BY <1>3, <2>1, <3>1, Lifts
    <3> QED
      BY <1>5, <2>3, <3>2
  <2> QED
    BY <1>6, <2>2, <2>3
<1>9. ButtonsSettled => ButtonsSettled'
  BY <1>1, <1>8 DEF ButtonsSettled
<1>10. KeysOK'
  BY <1>1, <1>3 DEF KeysOK
<1>11. CASE Accepted(Head(todo)) /\ Len(todo) > 1
  <2>1. todo' = Tail(todo) /\ ui' = "combo"
    BY <1>1, <1>11
  <2>2. TodoInv'
    BY <1>5, <1>11, <2>1 DEF TodoInv, ComboForms
  <2>3. Doing' = KeysOf(Tail(todo))
    BY <2>1 DEF Doing, KeysOf
  <2>4. KeysSettled => KeysSettled'
    BY <1>1, <1>7, <1>8, <1>11, <2>3 DEF KeysSettled, Recorded
  <2> QED
    BY <1>1, <1>2, <1>3, <1>8, <1>9, <1>10, <2>1, <2>2, <2>4, UiKeeps
<1>12. CASE ~(Accepted(Head(todo)) /\ Len(todo) > 1)
  <2>1. ui' = "ready" /\ todo' = <<>>
    BY <1>1, <1>12
  <2>2. TodoInv' /\ Doing' = {}
    BY <2>1 DEF TodoInv, Doing
  <2>3. KeysSettled => KeysSettled'
    <3>1. CASE Accepted(Head(todo))
      <4>1. ~(Len(todo) > 1) /\ KeysOf(Tail(todo)) = {}
        BY <1>5, <1>12, <3>1
      <4> QED
        BY <1>1, <1>7, <1>8, <2>2, <3>1, <4>1 DEF KeysSettled, Recorded
    <3>2. CASE ~Accepted(Head(todo))
      BY <1>1, <1>7, <1>8, <2>2, <3>2 DEF KeysSettled, Recorded
    <3> QED
      BY <3>1, <3>2
  <2> QED
    BY <1>1, <1>2, <1>3, <1>8, <1>9, <1>10, <2>1, <2>2, <2>3, UiKeeps
<1> QED
  BY <1>11, <1>12

(* A local shortcut lets go of the modifiers one after the other.          *)
LEMMA ModifierKeeps == IInv /\ ReleaseModifier => IInv'
<1> SUFFICES ASSUME IInv, ReleaseModifier PROVE IInv'
  OBVIOUS
<1>1. Step("shortcut") /\ UNCHANGED <<pressedRaw, buttonMask, cursor, imeActive>>
  BY DEF ReleaseModifier
<1>2. "shortcut" \in Busy /\ "ready" \in Busy
  BY DEF Busy, UiStates
<1>3. /\ Accounts /\ KeysOK /\ cursor \in BOOLEAN /\ imeActive \in BOOLEAN /\ UNCHANGED link
      /\ ui = "shortcut" /\ ui \in Busy /\ events' \in 0 .. MaxEvents
      /\ alive => KeysSettled /\ ButtonsSettled
  BY <1>1, <1>2, StepKeeps
<1>4. todo \in Seq(Keys) /\ Doing = {}
  BY <1>3 DEF IInv, TodoInv, Doing
<1>5. CASE todo = <<>>
  <2>1. ui' = "ready" /\ NoSubmit /\ UNCHANGED <<pressedKeys, suppressed>>
    BY <1>5 DEF ReleaseModifier
  <2>2. Quiet /\ Down' = Down /\ (Up' <=> Up) /\ Excused' = Excused
    BY <1>3, <2>1, NoSubmits DEF Accounts
  <2>3. KeysOK' /\ TodoInv' /\ Doing' = {}
    BY <1>1, <1>3, <2>1 DEF KeysOK, TodoInv, Doing
  <2>4. alive => KeysSettled' /\ ButtonsSettled'
    BY <1>1, <1>3, <1>4, <2>1, <2>2, <2>3 DEF KeysSettled, ButtonsSettled, Recorded
  <2> QED
    BY <1>1, <1>2, <1>3, <2>1, <2>2, <2>3, <2>4, UiKeeps
<1>6. CASE todo # <<>>
  <2> DEFINE k == Head(todo)
  <2>1. k \in Keys /\ Tail(todo) \in Seq(Keys)
    BY <1>4, <1>6
  <2>2. /\ suppressed' = suppressed \cup {<<"shortcut", k>>}
        /\ pressedKeys' = pressedKeys \ {k}
        /\ Submit(KeyCommand(FALSE, k))
        /\ \/ todo' = Tail(todo) /\ UNCHANGED ui
           \/ todo' = <<>> /\ ui' = "ready"
    BY <1>6 DEF ReleaseModifier
  <2> HIDE DEF k
  <2>3. Releases(KeyCommand(FALSE, k)) = {k}
    BY <2>1, ReleaseCommand, ReleaseKinds
  <2>4. SubmitOwing(KeyCommand(FALSE, k), {k})
    BY <2>2, <2>3 DEF Submit
  <2>5. /\ Quiet
        /\ \/ Down' \subseteq Down \ {k} /\ Excused \subseteq Excused' \cup {k}
           \/ Down' \subseteq Down /\ Excused \cup {k} \subseteq Excused'
        /\ Up \/ "pointer" \in Excused => Up' \/ "pointer" \in Excused'
    BY <1>3, <2>1, <2>4, Lifts
  <2>6. ButtonsSettled => ButtonsSettled'
    BY <1>1, <2>5 DEF ButtonsSettled
  <2>7. KeysOK'
    BY <1>1, <1>3, <2>1, <2>2 DEF KeysOK
  <2>8. (ui' = "shortcut" \/ ui' = "ready") /\ TodoInv' /\ Doing' = {}
    BY <1>3, <2>1, <2>2 DEF TodoInv, Doing
  <2>9. KeysSettled => KeysSettled'
    BY <1>1, <1>4, <2>2, <2>5, <2>8 DEF KeysSettled, Recorded
  <2> QED
    BY <1>1, <1>2, <1>3, <2>5, <2>6, <2>7, <2>8, <2>9, UiKeeps
<1> QED
  BY <1>5, <1>6

(* release_all: a key stays recorded unless its release is queued.         *)
LEMMA ReleasingSteps ==
  ASSUME IInv, Step("release") \/ Step("clear")
  PROVE  /\ Accounts /\ KeysOK /\ cursor \in BOOLEAN /\ imeActive \in BOOLEAN
         /\ ui \in {"release", "clear"} /\ ui \in Busy /\ UNCHANGED link
         /\ events' \in 0 .. MaxEvents /\ Doing = {}
         /\ alive => KeysSettled /\ ButtonsSettled
         /\ ui = "clear" => ~alive
<1>1. "release" \in Busy /\ "clear" \in Busy
  BY DEF Busy, UiStates
<1>2. /\ Accounts /\ KeysOK /\ cursor \in BOOLEAN /\ imeActive \in BOOLEAN
      /\ ui \in {"release", "clear"} /\ ui \in Busy /\ UNCHANGED link /\ events' \in 0 .. MaxEvents
      /\ alive => KeysSettled /\ ButtonsSettled
  BY <1>1, StepKeeps
<1> QED
  BY <1>2 DEF Doing, IInv, SessionInv

LEMMA ReleaseKeyKeeps == IInv /\ ReleaseKey => IInv'
<1> SUFFICES ASSUME IInv, ReleaseKey PROVE IInv'
  OBVIOUS
<1>1. /\ Step("release") \/ Step("clear")
      /\ UNCHANGED <<ui, suppressed, buttonMask, cursor, imeActive>>
  BY DEF ReleaseKey
<1>2. PICK k \in Keys :
        /\ SubmitSilently(KeyCommand(FALSE, k))
        /\ pressedKeys' \subseteq pressedKeys /\ pressedRaw' \subseteq pressedRaw
        /\ Recorded \ {k} \subseteq Recorded'
        /\ ~Accepted(KeyCommand(FALSE, k)) => Recorded' = Recorded
  BY DEF ReleaseKey, Recorded
<1>3. /\ Accounts /\ KeysOK /\ cursor \in BOOLEAN /\ imeActive \in BOOLEAN
      /\ ui \in {"release", "clear"} /\ ui \in Busy /\ UNCHANGED link
      /\ events' \in 0 .. MaxEvents /\ Doing = {}
      /\ alive => KeysSettled /\ ButtonsSettled
      /\ ui = "clear" => ~alive
  BY <1>1, ReleasingSteps
<1>4. SubmitOwing(KeyCommand(FALSE, k), {})
  BY <1>2 DEF SubmitSilently
<1>5. /\ Quiet
      /\ Accepted(KeyCommand(FALSE, k)) =>
           Down' \subseteq Down \ {k} /\ Excused \subseteq Excused' \cup {k}
      /\ ~Accepted(KeyCommand(FALSE, k)) => Down' \subseteq Down /\ Excused \subseteq Excused'
      /\ Up \/ "pointer" \in Excused => Up' \/ "pointer" \in Excused'
  BY <1>3, <1>4, Lifts
<1>6. ButtonsSettled => ButtonsSettled'
  BY <1>1, <1>5 DEF ButtonsSettled
<1>7. KeysOK'
  BY <1>1, <1>2, <1>3 DEF KeysOK
<1>8. TodoInv' /\ Doing' = {}
  BY <1>1, <1>3 DEF TodoInv, Doing
<1>9. KeysSettled => KeysSettled'
  BY <1>2, <1>3, <1>5, <1>8 DEF KeysSettled
<1> QED
  BY <1>1, <1>3, <1>5, <1>6, <1>7, <1>8, <1>9, UiKeeps

LEMMA ReleaseButtonsKeeps == IInv /\ ReleaseButtons => IInv'
<1> SUFFICES ASSUME IInv, ReleaseButtons PROVE IInv'
  OBVIOUS
<1> DEFINE c == PointerCommand("pointer", {})
<1>1. /\ Step("release") \/ Step("clear")
      /\ UNCHANGED <<pressedKeys, pressedRaw, suppressed, cursor, imeActive>>
      /\ ui' = IF ui = "clear" THEN "swap" ELSE "ready"
      /\ \/ buttonMask # {} /\ SubmitSilently(c)
            /\ buttonMask' = IF Accepted(c) THEN {} ELSE buttonMask
         \/ NoSubmit /\ UNCHANGED buttonMask
  BY DEF ReleaseButtons
<1>2. c \in Command /\ c.kind = "pointer" /\ c.mask = {}
  BY MouseCommand DEF Pointing
<1> HIDE DEF c
<1>3. /\ Accounts /\ KeysOK /\ cursor \in BOOLEAN /\ imeActive \in BOOLEAN
      /\ ui \in {"release", "clear"} /\ ui \in Busy /\ UNCHANGED link
      /\ events' \in 0 .. MaxEvents /\ Doing = {}
      /\ alive => KeysSettled /\ ButtonsSettled
      /\ ui = "clear" => ~alive
  BY <1>1, ReleasingSteps
<1>4. Quiet /\ Down' \subseteq Down /\ Excused \cap Keys \subseteq Excused'
      /\ (ButtonsSettled => ButtonsSettled')
  <2>1. CASE NoSubmit /\ UNCHANGED buttonMask
    BY <1>3, <2>1, NoSubmits DEF Accounts, ButtonsSettled
  <2>2. CASE buttonMask # {} /\ SubmitSilently(c)
             /\ buttonMask' = IF Accepted(c) THEN {} ELSE buttonMask
    <3>1. SubmitOwing(c, {})
      BY <2>2 DEF SubmitSilently
    <3>2. /\ Quiet /\ Down' \subseteq Down /\ Excused \cap Keys \subseteq Excused'
          /\ c.kind \in {"pointer", "batch"} /\ c.mask = {} /\ Accepted(c)
             => Up' \/ "pointer" \in Excused'
      BY <1>2, <1>3, <3>1, Points
    <3>3. buttonMask' = {} => Accepted(c)
      BY <2>2
    <3> QED
      BY <1>2, <3>2, <3>3 DEF ButtonsSettled
  <2> QED
    BY <1>1, <2>1, <2>2
<1>5. KeysOK'
  BY <1>1, <1>3 DEF KeysOK
<1>6. /\ ui' \in {"swap", "ready"} /\ (ui' = "swap" => ui = "clear")
      /\ TodoInv' /\ Doing' = {}
  BY <1>1, <1>3 DEF TodoInv, Doing
<1>7. KeysSettled => KeysSettled'
  BY <1>1, <1>3, <1>4, <1>6, DownAreKeys DEF KeysSettled, Recorded
<1>8. ui' \in Busy \cup {"swap"}
  BY <1>6 DEF Busy, UiStates
<1>9. ui' \in {"swap", "clear"} => ~alive
  BY <1>3, <1>6
<1> QED
  BY <1>1, <1>3, <1>4, <1>5, <1>6, <1>7, <1>8, <1>9, UiKeeps

-----------------------------------------------------------------------------
(* Sessions come and go                                                    *)

LEMMA SessionDiesKeeps == IInv /\ SessionDies => IInv'
<1> SUFFICES ASSUME IInv, SessionDies PROVE IInv'
  OBVIOUS
<1>1. /\ alive' = FALSE
      /\ UNCHANGED <<commands, stopped, thread, hand, target, current, error, pressedKeys, pressedRaw,
                     suppressed, buttonMask, cursor, imeActive, ui, todo, events, session, remote,
                     excused>>
  BY DEF SessionDies, queue, worker, cells, local, calling
<1>2. QueueOK /\ FlagsOK /\ KeysOK /\ RestOK
  BY Types DEF IInv
<1>3. alive' \in BOOLEAN
  BY <1>1
<1>4. QueueOK' /\ FlagsOK' /\ KeysOK' /\ RestOK'
  BY <1>1, <1>2, <1>3 DEF QueueOK, FlagsOK, KeysOK, RestOK
<1>5. TodoInv' /\ NoTrail' /\ ParkedOnlyWhenIdle'
  BY <1>1 DEF IInv, TodoInv, NoTrail, ParkedOnlyWhenIdle
<1>6. SessionInv' /\ KeysInv' /\ ButtonsInv'
  BY <1>1 DEF IInv, SessionInv, KeysInv, ButtonsInv, Live
<1> QED
  BY <1>4, <1>5, <1>6, TypesNext DEF IInv

LEMMA ClearInputKeeps == IInv /\ ClearInput => IInv'
<1> SUFFICES ASSUME IInv, ClearInput PROVE IInv'
  OBVIOUS
<1>1. /\ ui = "ready" /\ ui' = "clear" /\ ~alive
      /\ UNCHANGED <<commands, stopped, thread, hand, target, current, error, pressedKeys, pressedRaw,
                     suppressed, buttonMask, cursor, imeActive, todo, events, session, alive, remote,
                     excused>>
  BY DEF ClearInput, queue, worker, cells, local, link
<1>2. QueueOK /\ FlagsOK /\ KeysOK /\ RestOK
  BY Types DEF IInv
<1>3. QueueOK' /\ FlagsOK' /\ KeysOK'
  BY <1>1, <1>2 DEF QueueOK, FlagsOK, KeysOK
<1>4. RestOK'
  BY <1>1, <1>2 DEF RestOK, UiStates
<1>5. TodoInv' /\ NoTrail' /\ ParkedOnlyWhenIdle'
  BY <1>1 DEF IInv, TodoInv, NoTrail, ParkedOnlyWhenIdle
<1>6. SessionInv' /\ KeysInv' /\ ButtonsInv'
  BY <1>1 DEF IInv, SessionInv, KeysInv, ButtonsInv, Live
<1> QED
  BY <1>3, <1>4, <1>5, <1>6, TypesNext DEF IInv

LEMMA ConnectKeeps == IInv /\ Connect => IInv'
<1> SUFFICES ASSUME IInv, Connect PROVE IInv'
  OBVIOUS
<1>1. /\ ui = "ready" /\ ui' = "swap" /\ session < MaxSessions
      /\ session' = session + 1 /\ alive' = TRUE /\ remote' = NothingHeld
      /\ UNCHANGED <<commands, stopped, thread, hand, target, current, error, pressedKeys, pressedRaw,
                     suppressed, buttonMask, cursor, imeActive, todo, events, excused>>
  BY DEF Connect, queue, worker, cells, local
<1>2. QueueOK /\ FlagsOK /\ KeysOK /\ RestOK
  BY Types DEF IInv
<1>3. alive' \in BOOLEAN
  BY <1>1
<1>4. QueueOK' /\ FlagsOK' /\ KeysOK'
  BY <1>1, <1>2, <1>3 DEF QueueOK, FlagsOK, KeysOK
<1>5. RestOK'
  <2>1. session' \in 0 .. MaxSessions
    BY <1>1, <1>2, DispatchAssumption DEF RestOK
  <2>2. remote' \in [down : SUBSET Keys, mask : SUBSET Buttons]
    BY <1>1 DEF NothingHeld
  <2> QED
    BY <1>1, <1>2, <2>1, <2>2 DEF RestOK, UiStates
<1>6. TodoInv' /\ NoTrail' /\ ParkedOnlyWhenIdle'
  BY <1>1 DEF IInv, TodoInv, NoTrail, ParkedOnlyWhenIdle
<1>7. SessionInv'
  BY <1>1, <1>2 DEF IInv, SessionInv, Replacing, RestOK
<1>8. KeysInv' /\ ButtonsInv'
  BY <1>1 DEF KeysInv, ButtonsInv, Live
<1> QED
  BY <1>4, <1>5, <1>6, <1>7, <1>8, TypesNext DEF IInv

(* What set_input finds in the thread's hand is all that can reach the new *)
(* session from before it.                                                 *)
LEMMA ClearQueueKeeps == IInv /\ ClearQueue => IInv'
<1> SUFFICES ASSUME IInv, ClearQueue PROVE IInv'
  OBVIOUS
<1>1. /\ ui = "swap" /\ ui' = "swapped" /\ commands' = <<>> /\ excused' = {"crossed"} \X Crossing
      /\ UNCHANGED <<stopped, thread, hand, target, current, error, pressedKeys, pressedRaw,
                     suppressed, buttonMask, cursor, imeActive, todo, events, session, alive, remote>>
  BY DEF ClearQueue, worker, cells, local, link
<1>2. QueueOK /\ FlagsOK /\ KeysOK /\ RestOK
  BY Types DEF IInv
<1>3. hand.kind = "press" => hand.key \in Keys
  <2>1. NoCommand.kind = "none"
    BY DEF NoCommand, Plain
  <2> QED
    BY <1>2, <2>1, CommandKind DEF RestOK
<1>4. Crossing \subseteq Keys \cup {"pointer"}
  BY <1>3 DEF Crossing
<1>5. Excused' = Crossing
  <2>1. ASSUME NEW k \in Crossing PROVE k \in Excused'
    <3>1. <<"crossed", k>> \in excused' /\ <<"crossed", k>>[2] = k
      BY <1>1
    <3> QED
      BY <3>1 DEF Excused
  <2>2. ASSUME NEW e \in excused' PROVE e[2] \in Crossing
    BY <1>1
  <2> QED
    BY <2>1, <2>2 DEF Excused
<1>6. QueueOK'
  BY <1>1, <1>2, <1>4, DispatchAssumption DEF QueueOK
<1>7. FlagsOK' /\ KeysOK'
  BY <1>1, <1>2 DEF FlagsOK, KeysOK
<1>8. RestOK'
  BY <1>1, <1>2 DEF RestOK, UiStates
<1>9. TodoInv' /\ NoTrail' /\ ParkedOnlyWhenIdle'
  BY <1>1 DEF IInv, TodoInv, NoTrail, ParkedOnlyWhenIdle
<1>10. SessionInv'
  BY <1>1 DEF IInv, SessionInv, Replacing
<1>11. ASSUME alive
       PROVE  /\ Down' \subseteq Excused'
              /\ Up' \/ "pointer" \in Excused'
  <2>1. target # session /\ remote = NothingHeld
    BY <1>1, <1>2, <1>11 DEF IInv, SessionInv, Replacing, RestOK
  <2>2. Now' = IF thread = "hand" THEN Effect(NothingHeld, hand) ELSE NothingHeld
    BY <1>1, <2>1 DEF Now
  <2>3. NothingHeld.down = {} /\ NothingHeld.mask = {}
    BY DEF NothingHeld
  <2>4. (Now').down \subseteq Crossing
    <3>1. CASE thread = "hand"
      <4>1. Effect(NothingHeld, hand).down \subseteq IF hand.kind = "press" THEN {hand.key} ELSE {}
        BY <2>3 DEF Effect
      <4> QED
        BY <2>2, <3>1, <4>1 DEF Crossing
    <3>2. CASE thread # "hand"
      BY <2>2, <2>3, <3>2
    <3> QED
      BY <3>1, <3>2
  <2>5. (Now').mask = {} \/ "pointer" \in Crossing
    <3>1. CASE thread = "hand"
      <4>1. Effect(NothingHeld, hand).mask = IF hand.kind \in Pointing THEN hand.mask ELSE {}
        BY <2>3 DEF Effect
      <4>2. hand.kind \in Pointing => hand.kind # "press"
        BY DEF Pointing
      <4> QED
        BY <2>2, <3>1, <4>1, <4>2 DEF Crossing
    <3>2. CASE thread # "hand"
      BY <2>2, <2>3, <3>2
    <3> QED
      BY <3>1, <3>2
  <2>6. Down' \subseteq (Now').down /\ ((Now').mask = {} => Up')
    BY <1>1, NothingQueued DEF Down, Up
  <2> QED
    BY <1>5, <2>4, <2>5, <2>6
<1>12. KeysInv' /\ ButtonsInv'
  BY <1>1, <1>11 DEF KeysInv, ButtonsInv, Live
<1> QED
  BY <1>6, <1>7, <1>8, <1>9, <1>10, <1>12, TypesNext DEF IInv

LEMMA ReplaceInputKeeps == IInv /\ ReplaceInput => IInv'
<1> SUFFICES ASSUME IInv, ReplaceInput PROVE IInv'
  OBVIOUS
<1>1. /\ ui = "swapped" /\ ui' = "forget" /\ current' = IF alive THEN session ELSE 0
      /\ UNCHANGED <<commands, stopped, thread, hand, target, error, pressedKeys, pressedRaw,
                     suppressed, buttonMask, cursor, imeActive, todo, events, session, alive, remote,
                     excused>>
  BY DEF ReplaceInput, queue, worker, local, link
<1>2. QueueOK /\ FlagsOK /\ KeysOK /\ RestOK
  BY Types DEF IInv
<1>3. QueueOK' /\ FlagsOK' /\ KeysOK'
  BY <1>1, <1>2 DEF QueueOK, FlagsOK, KeysOK
<1>4. current' \in 0 .. MaxSessions
  BY <1>1, <1>2, DispatchAssumption DEF RestOK
<1>5. RestOK'
  BY <1>1, <1>2, <1>4 DEF RestOK, UiStates
<1>6. TodoInv' /\ NoTrail' /\ ParkedOnlyWhenIdle'
  BY <1>1 DEF IInv, TodoInv, NoTrail, ParkedOnlyWhenIdle
<1>7. SessionInv'
  BY <1>1, <1>2 DEF IInv, SessionInv, Replacing, RestOK
<1>8. Down' = Down /\ (Up' <=> Up) /\ Excused' = Excused /\ Doing = {} /\ Doing' = {}
  BY <1>1 DEF Down, Up, Now, Excused, Doing
<1>9. KeysInv' /\ ButtonsInv'
  BY <1>1, <1>8 DEF IInv, KeysInv, ButtonsInv, Live
<1> QED
  BY <1>3, <1>5, <1>6, <1>7, <1>9, TypesNext DEF IInv

LEMMA ForgetErrorKeeps == IInv /\ ForgetError => IInv'
<1> SUFFICES ASSUME IInv, ForgetError PROVE IInv'
  OBVIOUS
<1>1. /\ ui = "forget" /\ ui' = "ready" /\ error' = FALSE
      /\ UNCHANGED <<commands, stopped, thread, hand, target, current, pressedKeys, pressedRaw,
                     suppressed, buttonMask, cursor, imeActive, todo, events, session, alive, remote,
                     excused>>
  BY DEF ForgetError, queue, worker, local, link
<1>2. QueueOK /\ FlagsOK /\ KeysOK /\ RestOK
  BY Types DEF IInv
<1>3. error' \in BOOLEAN
  BY <1>1
<1>4. QueueOK' /\ FlagsOK' /\ KeysOK'
  BY <1>1, <1>2, <1>3 DEF QueueOK, FlagsOK, KeysOK
<1>5. RestOK'
  BY <1>1, <1>2 DEF RestOK, UiStates
<1>6. TodoInv' /\ NoTrail' /\ ParkedOnlyWhenIdle'
  BY <1>1 DEF IInv, TodoInv, NoTrail, ParkedOnlyWhenIdle
<1>7. SessionInv'
  BY <1>1 DEF IInv, SessionInv, Replacing
<1>8. Down' = Down /\ (Up' <=> Up) /\ Excused' = Excused /\ Doing = {} /\ Doing' = {}
  BY <1>1 DEF Down, Up, Now, Excused, Doing
<1>9. KeysInv' /\ ButtonsInv'
  BY <1>1, <1>8 DEF IInv, KeysInv, ButtonsInv, Live
<1> QED
  BY <1>4, <1>5, <1>6, <1>7, <1>9, TypesNext DEF IInv

LEMMA StopKeeps == IInv /\ Stop => IInv'
<1> SUFFICES ASSUME IInv, Stop PROVE IInv'
  OBVIOUS
<1>1. /\ ui = "ready" /\ ui' = "gone" /\ stopped' = TRUE /\ commands' = <<>> /\ WakeThread
      /\ UNCHANGED <<hand, target, current, error, pressedKeys, pressedRaw, suppressed, buttonMask,
                     cursor, imeActive, todo, events, session, alive, remote, excused>>
  BY DEF Stop, cells, local, link
<1>2. QueueOK /\ FlagsOK /\ KeysOK /\ RestOK
  BY Types DEF IInv
<1>3. stopped' \in BOOLEAN
  BY <1>1
<1>4. thread' \in Threads /\ thread' # "wait"
  BY <1>1, <1>2 DEF WakeThread, QueueOK, Threads
<1>5. QueueOK'
  BY <1>1, <1>2, <1>4, DispatchAssumption DEF QueueOK
<1>6. FlagsOK' /\ KeysOK'
  BY <1>1, <1>2, <1>3 DEF FlagsOK, KeysOK
<1>7. RestOK'
  BY <1>1, <1>2 DEF RestOK, UiStates
<1>8. TodoInv' /\ NoTrail' /\ ParkedOnlyWhenIdle'
  BY <1>1, <1>4 DEF TodoInv, NoTrail, ParkedOnlyWhenIdle
<1>9. SessionInv'
  BY <1>1 DEF IInv, SessionInv, Replacing
<1>10. KeysInv' /\ ButtonsInv'
  BY <1>1 DEF KeysInv, ButtonsInv, Live
<1> QED
  BY <1>5, <1>6, <1>7, <1>8, <1>9, <1>10, TypesNext DEF IInv

-----------------------------------------------------------------------------
(* The dispatch thread                                                     *)

(* A step of the thread keeps the invariant if nothing goes down by it, or *)
(* stays down for longer.                                                  *)
LEMMA ThreadKeeps ==
  ASSUME IInv, UNCHANGED <<local, calling, events, session, alive, stopped, current, excused>>,
         commands' \in Seq(Command), Len(commands') <= MaxCommands, thread' \in Threads,
         hand' \in Command \cup {NoCommand}, target' \in 0 .. MaxSessions, error' \in BOOLEAN,
         remote' \in [down : SUBSET Keys, mask : SUBSET Buttons],
         NoTrail', ParkedOnlyWhenIdle', target' \in {0, target, current},
         alive /\ Replacing => remote' = remote,
         Live => Down' \subseteq Down /\ (Up => Up')
  PROVE  IInv'
<1>1. UNCHANGED <<pressedKeys, pressedRaw, suppressed, buttonMask, cursor, imeActive, ui, todo, events,
                  session, alive, stopped, current, excused>>
  BY DEF local, calling
<1>2. QueueOK /\ FlagsOK /\ KeysOK /\ RestOK
  BY Types DEF IInv
<1>3. QueueOK' /\ KeysOK'
  BY <1>1, <1>2 DEF QueueOK, KeysOK
<1>4. FlagsOK'
  BY <1>1, <1>2 DEF FlagsOK
<1>5. RestOK'
  BY <1>1, <1>2 DEF RestOK
<1>6. TodoInv'
  BY <1>1 DEF IInv, TodoInv
<1>7. SessionInv'
  <2>1. /\ current <= session /\ target <= session
        /\ alive /\ Replacing => current < session /\ target < session /\ remote = NothingHeld
        /\ alive /\ ~Replacing => current = session
        /\ ui = "clear" => ~alive
    BY DEF IInv, SessionInv
  <2>2. current \in Nat /\ session \in Nat /\ target \in Nat
    BY <1>2, DispatchAssumption DEF RestOK
  <2>3. Replacing' = Replacing
    BY <1>1 DEF Replacing
  <2>4. target' <= session /\ (alive /\ Replacing => target' < session)
    BY <2>1, <2>2
  <2> QED
    BY <1>1, <2>1, <2>3, <2>4 DEF SessionInv
<1>8. Excused' = Excused /\ Doing' = Doing /\ (Live' <=> Live)
  BY <1>1 DEF Excused, Doing, Live
<1>9. KeysInv' /\ ButtonsInv'
  BY <1>1, <1>8 DEF IInv, KeysInv, ButtonsInv
<1> QED
  BY <1>3, <1>4, <1>5, <1>6, <1>7, <1>9, TypesNext DEF IInv

LEMMA ReceiveKeeps == IInv /\ Receive => IInv'
<1> SUFFICES ASSUME IInv, Receive PROVE IInv'
  OBVIOUS
<1>1. /\ thread = "receive"
      /\ UNCHANGED <<local, calling, events, session, alive, stopped, current, excused, error, target,
                     remote>>
      /\ \/ /\ commands # <<>> /\ hand' = Head(commands) /\ commands' = Tail(commands)
            /\ thread' = "hand"
         \/ /\ commands = <<>> /\ thread' = (IF stopped THEN "exit" ELSE "wait")
            /\ UNCHANGED <<hand, commands>>
  BY DEF Receive, cells, link
<1>2. QueueOK /\ FlagsOK /\ KeysOK /\ RestOK
  BY Types DEF IInv
<1>3. Now = remote
  BY <1>1 DEF Now
<1>4. CASE commands # <<>> /\ thread' = "hand" /\ hand' = Head(commands) /\ commands' = Tail(commands)
  <2>1. /\ Len(commands) \in Nat \ {0} /\ Head(commands) \in Command
        /\ commands' \in Seq(Command) /\ Len(commands') = Len(commands) - 1
        /\ \A i \in 1 .. Len(commands') : commands'[i] = commands[i + 1]
    BY <1>2, <1>4, EmptySeq DEF QueueOK
  <2>2. Len(commands') <= MaxCommands
    BY <1>2, <2>1, DispatchAssumption DEF QueueOK
  <2>3. TrailFree(commands')
    BY <2>1, TrailFreeQueue DEF IInv, TrailFree
  <2>4. NoTrail'
    BY <2>3, TrailFreeNext
  <2>5. ParkedOnlyWhenIdle' /\ thread' \in Threads
    BY <1>4 DEF ParkedOnlyWhenIdle, Threads
  <2>6. Now' = Effect(remote, Head(commands))
    BY <1>1, <1>4 DEF Now
  <2>7. Down' \subseteq Down
    BY <1>2, <1>3, <1>4, <2>6, TakenKeys DEF Down, QueueOK
  <2>8. Up => Up'
    BY <1>2, <1>3, <1>4, <2>6, TakenMouse DEF Up, QueueOK
  <2> QED
    BY <1>1, <1>2, <1>4, <2>1, <2>2, <2>4, <2>5, <2>7, <2>8, ThreadKeeps DEF RestOK, FlagsOK
<1>5. CASE commands = <<>> /\ thread' = (IF stopped THEN "exit" ELSE "wait")
           /\ UNCHANGED <<hand, commands>>
  <2>1. thread' \in Threads /\ thread' # "hand" /\ thread' # "send"
    BY <1>5 DEF Threads
  <2>2. NoTrail' /\ ParkedOnlyWhenIdle'
    BY <1>1, <1>5 DEF NoTrail, ParkedOnlyWhenIdle
  <2>3. Now' = remote
    BY <1>1, <2>1 DEF Now
  <2>4. Down' = Down /\ (Up' <=> Up)
    BY <1>3, <1>5, <2>3 DEF Down, Up
  <2>5. commands' \in Seq(Command) /\ Len(commands') <= MaxCommands
    BY <1>2, <1>5 DEF QueueOK
  <2> QED
    BY <1>1, <1>2, <1>5, <2>1, <2>2, <2>4, <2>5, ThreadKeeps DEF RestOK, FlagsOK
<1> QED
  BY <1>1, <1>4, <1>5

(* Less held now is no more held later.                                    *)
LEMMA LessHeld ==
  ASSUME NEW q \in Seq(Command), NEW held, NEW less, less.down \subseteq held.down,
         held.mask = {} => less.mask = {}
  PROVE  /\ WillBeDown(less, q) \subseteq WillBeDown(held, q)
         /\ UpSince(held, q) => UpSince(less, q)
<1>1. WillBeDown(less, q) \subseteq WillBeDown(held, q)
  <2> SUFFICES ASSUME NEW k \in WillBeDown(less, q) PROVE k \in WillBeDown(held, q)
    OBVIOUS
  <2>1. PICK i \in 0 .. Len(q) :
          /\ IF i = 0 THEN k \in less.down ELSE q[i].kind = "press" /\ q[i].key = k
          /\ \A j \in i + 1 .. Len(q) : ~(q[j].kind = "release" /\ q[j].key = k)
    BY DEF WillBeDown
  <2>2. IF i = 0 THEN k \in held.down ELSE q[i].kind = "press" /\ q[i].key = k
    BY <2>1
  <2> QED
    BY <2>1, <2>2 DEF WillBeDown
<1>2. ASSUME UpSince(held, q) PROVE UpSince(less, q)
  <2>1. PICK i \in 0 .. Len(q) :
          /\ IF i = 0 THEN held.mask = {} ELSE q[i].kind \in {"pointer", "batch"} /\ q[i].mask = {}
          /\ \A j \in i + 1 .. Len(q) : q[j].kind \in Pointing => q[j].mask = {}
    BY <1>2 DEF UpSince
  <2>2. IF i = 0 THEN less.mask = {} ELSE q[i].kind \in {"pointer", "batch"} /\ q[i].mask = {}
    BY <2>1
  <2> QED
    BY <2>1, <2>2 DEF UpSince
<1> QED
  BY <1>1, <1>2

(* The steps of the thread that leave the queue alone.                     *)
LEMMA HandKeeps ==
  ASSUME IInv, UNCHANGED <<local, calling, events, session, alive, stopped, current, excused, commands>>,
         thread' \in Threads \ {"wait"},
         hand' \in Command \cup {NoCommand}, target' \in {0, target, current}, error' \in BOOLEAN,
         remote' \in [down : SUBSET Keys, mask : SUBSET Buttons],
         alive /\ Replacing => remote' = remote,
         Live => (Now').down \subseteq Now.down /\ (Now.mask = {} => (Now').mask = {})
  PROVE  IInv'
<1>1. QueueOK /\ FlagsOK /\ KeysOK /\ RestOK
  BY Types DEF IInv
<1>2. target' \in 0 .. MaxSessions
  BY <1>1, DispatchAssumption DEF RestOK
<1>3. NoTrail' /\ ParkedOnlyWhenIdle'
  BY DEF IInv, NoTrail, ParkedOnlyWhenIdle
<1>4. commands' \in Seq(Command) /\ Len(commands') <= MaxCommands
  BY <1>1 DEF QueueOK
<1>5. Live => Down' \subseteq Down /\ (Up => Up')
  BY <1>1, LessHeld DEF Down, Up, QueueOK
<1> QED
  BY <1>1, <1>2, <1>3, <1>4, <1>5, ThreadKeeps

LEMMA TakeInputKeeps == IInv /\ TakeInput => IInv'
<1> SUFFICES ASSUME IInv, TakeInput PROVE IInv'
  OBVIOUS
<1>1. /\ thread = "hand" /\ thread' = "send" /\ target' = current
      /\ UNCHANGED <<local, calling, events, session, alive, stopped, current, excused, commands,
                     hand, error, remote>>
  BY DEF TakeInput, queue, cells, link
<1>2. QueueOK /\ FlagsOK /\ KeysOK /\ RestOK
  BY Types DEF IInv
<1>3. Now = Effect(remote, hand)
  BY <1>1 DEF Now
<1>4. Live => (Now').down \subseteq Now.down /\ (Now.mask = {} => (Now').mask = {})
  <2>1. CASE current = session
    <3>1. Now' = Effect(remote, hand)
      BY <1>1, <2>1 DEF Now
    <3> QED
      BY <1>3, <3>1
  <2>2. CASE Live /\ current # session
    <3>1. remote = NothingHeld
      BY <1>1, <2>2 DEF IInv, SessionInv, Live, Replacing
    <3>2. Now' = remote
      BY <1>1, <2>2 DEF Now
    <3> QED
      BY <3>1, <3>2 DEF NothingHeld
  <2> QED
    BY <2>1, <2>2
<1>5. thread' \in Threads \ {"wait"}
  BY <1>1 DEF Threads
<1> QED
  BY <1>1, <1>2, <1>4, <1>5, HandKeeps DEF RestOK, FlagsOK

LEMMA EffectIsHeld ==
  ASSUME remote \in [down : SUBSET Keys, mask : SUBSET Buttons], hand \in Command \cup {NoCommand}
  PROVE  Effect(remote, hand) \in [down : SUBSET Keys, mask : SUBSET Buttons]
<1>1. NoCommand.kind = "none"
  BY DEF NoCommand, Plain
<1>2. /\ hand.kind = "press" => hand.key \in Keys
      /\ hand.kind \in Pointing => hand.mask \in SUBSET Buttons
  BY <1>1, CommandKind DEF Pointing
<1> QED
  BY <1>2 DEF Effect

LEMMA SendKeeps == IInv /\ Send => IInv'
<1> SUFFICES ASSUME IInv, Send PROVE IInv'
  OBVIOUS
<1>1. /\ thread = "send" /\ thread' = "receive" /\ hand' = NoCommand /\ target' = 0
      /\ remote' = IF target = session /\ alive THEN Effect(remote, hand) ELSE remote
      /\ UNCHANGED <<local, calling, events, session, alive, stopped, current, excused, commands, error>>
  BY DEF Send, queue, cells
<1>2. QueueOK /\ FlagsOK /\ KeysOK /\ RestOK
  BY Types DEF IInv
<1>3. remote' \in [down : SUBSET Keys, mask : SUBSET Buttons]
  BY <1>1, <1>2, EffectIsHeld DEF RestOK
<1>4. alive /\ Replacing => remote' = remote
  BY <1>1, <1>2 DEF IInv, SessionInv, RestOK
<1>5. Live => Now' = Now
  BY <1>1 DEF Now, Live
<1>6. thread' \in Threads \ {"wait"}
  BY <1>1 DEF Threads
<1> QED
  BY <1>1, <1>2, <1>3, <1>4, <1>5, <1>6, HandKeeps DEF FlagsOK

LEMMA SendFailsKeeps == IInv /\ SendFails => IInv'
<1> SUFFICES ASSUME IInv, SendFails PROVE IInv'
  OBVIOUS
<1>1. /\ thread = "send" /\ thread' = "failed" /\ hand' = NoCommand /\ target' = 0
      /\ target # session \/ ~alive \/ hand.kind = "clipboard"
      /\ UNCHANGED <<local, calling, events, session, alive, stopped, current, excused, commands, error,
                     remote>>
  BY DEF SendFails, queue, cells, link
<1>2. QueueOK /\ FlagsOK /\ KeysOK /\ RestOK
  BY Types DEF IInv
<1>3. Live => (Now').down = Now.down /\ (Now').mask = Now.mask
  <2>1. Now' = remote
    BY <1>1 DEF Now
  <2>2. Live /\ target = session => hand.kind = "clipboard"
    BY <1>1 DEF Live
  <2>3. hand.kind = "clipboard" => Effect(remote, hand).down = remote.down
                                   /\ Effect(remote, hand).mask = remote.mask
    BY DEF Effect, Pointing
  <2> QED
    BY <1>1, <2>1, <2>2, <2>3 DEF Now
<1>4. thread' \in Threads \ {"wait"}
  BY <1>1 DEF Threads
<1> QED
  BY <1>1, <1>2, <1>3, <1>4, HandKeeps DEF RestOK, FlagsOK

LEMMA RecordErrorKeeps == IInv /\ RecordError => IInv'
<1> SUFFICES ASSUME IInv, RecordError PROVE IInv'
  OBVIOUS
<1>1. /\ thread = "failed" /\ thread' = "receive" /\ error' = TRUE
      /\ UNCHANGED <<local, calling, events, session, alive, stopped, current, excused, commands,
                     hand, target, remote>>
  BY DEF RecordError, queue, link
<1>2. QueueOK /\ FlagsOK /\ KeysOK /\ RestOK
  BY Types DEF IInv
<1>3. Now' = Now
  BY <1>1 DEF Now
<1>4. thread' \in Threads \ {"wait"}
  BY <1>1 DEF Threads
<1>5. error' \in BOOLEAN
  BY <1>1
<1> QED
  BY <1>1, <1>2, <1>3, <1>4, <1>5, HandKeeps DEF RestOK

-----------------------------------------------------------------------------
(* The invariant, and what it says                                         *)

LEMMA InitIInv == Init => IInv
<1> SUFFICES ASSUME Init PROVE IInv
  OBVIOUS
<1>1. QueueOK
  BY DispatchAssumption DEF Init, QueueOK, Threads
<1>2. stopped \in BOOLEAN /\ error \in BOOLEAN /\ alive \in BOOLEAN /\ cursor \in BOOLEAN
      /\ imeActive \in BOOLEAN
  <2>1. stopped = FALSE /\ error = FALSE /\ alive = FALSE /\ cursor = FALSE /\ imeActive = FALSE
    BY DEF Init
  <2> QED
    BY <2>1
<1>3. KeysOK
  BY DEF Init, KeysOK
<1>4. RestOK
  BY DispatchAssumption DEF Init, RestOK, UiStates, NothingHeld
<1>5. TypeOK
  BY <1>1, <1>2, <1>3, <1>4, Types DEF FlagsOK
<1>6. TodoInv /\ NoTrail /\ ParkedOnlyWhenIdle
  BY DEF Init, TodoInv, NoTrail, ParkedOnlyWhenIdle
<1>7. ~alive /\ current = 0 /\ target = 0 /\ session = 0 /\ ui = "ready"
  BY DEF Init
<1>8. SessionInv /\ KeysInv /\ ButtonsInv
  BY <1>7 DEF SessionInv, KeysInv, ButtonsInv, Live
<1> QED
  BY <1>5, <1>6, <1>8 DEF IInv

LEMMA UserEventKeeps == IInv /\ UserEvent => IInv'
<1> SUFFICES ASSUME IInv, UserEvent PROVE IInv'
  OBVIOUS
<1>1. CASE \E inside \in BOOLEAN : CursorMoved(inside)
  BY <1>1, CursorKeeps
<1>2. CASE \E b \in Buttons, down \in BOOLEAN : Button(b, down)
  BY <1>2, ButtonKeeps
<1>3. CASE Wheel
  BY <1>3, WheelKeeps
<1>4. CASE \E k \in Keys : KeyPressed(k) \/ KeyReleased(k)
  BY <1>4, KeyKeeps
<1>5. CASE \E k \in Keys : PasteShortcut(k)
  BY <1>5, PasteKeeps
<1>6. CASE \E k \in Keys : Shortcut(k)
  BY <1>6, ShortcutKeeps
<1>7. CASE \E k \in Keys, down \in BOOLEAN : RawKey(k, down)
  BY <1>7, RawKeeps
<1>8. CASE SendClipboard
  BY <1>8, ClipboardKeeps
<1>9. CASE ImeToggles
  BY <1>9, ImeTogglesKeep
<1>10. CASE \E k \in Keys : ImeCommit(k)
  BY <1>10, ImeCommitKeeps
<1>11. CASE \E m, k \in Keys : KeyCombo(m, k)
  BY <1>11, KeyComboKeeps
<1>12. CASE FocusLost
  BY <1>12, FocusKeeps
<1> QED
  BY <1>1, <1>2, <1>3, <1>4, <1>5, <1>6, <1>7, <1>8, <1>9, <1>10, <1>11, <1>12 DEF UserEvent

LEMMA ContinueKeeps == IInv /\ Continue => IInv'
<1> SUFFICES ASSUME IInv, Continue PROVE IInv'
  OBVIOUS
<1>1. NextCommand => ui = "ime" \/ ui = "combo"
  BY DEF NextCommand, Step
<1> QED
  BY <1>1, ImeStepKeeps, ComboStepKeeps, ModifierKeeps, ReleaseKeyKeeps, ReleaseButtonsKeeps,
     ClearQueueKeeps, ReplaceInputKeeps, ForgetErrorKeeps DEF Continue

LEMMA DispatcherKeeps == IInv /\ Dispatcher => IInv'
BY ReceiveKeeps, TakeInputKeeps, SendKeeps, SendFailsKeeps, RecordErrorKeeps DEF Dispatcher

LEMMA StutterKeeps == IInv /\ UNCHANGED vars => IInv'
<1> SUFFICES ASSUME IInv, UNCHANGED vars PROVE IInv'
  OBVIOUS
<1>1. UNCHANGED <<commands, stopped, thread, hand, target, current, error, pressedKeys, pressedRaw,
                  suppressed, buttonMask, cursor, imeActive, ui, todo, events, session, alive, remote,
                  excused>>
  BY DEF vars, queue, worker, cells, local, calling, link
<1>2. TypeOK'
  <2>1. QueueOK /\ FlagsOK /\ KeysOK /\ RestOK
    BY Types DEF IInv
  <2>2. FlagsOK'
    BY <1>1, <2>1 DEF FlagsOK
  <2>3. QueueOK' /\ KeysOK' /\ RestOK'
    BY <1>1, <2>1 DEF QueueOK, KeysOK, RestOK
  <2> QED
    BY <2>2, <2>3, TypesNext
<1>5. TodoInv' /\ SessionInv'
  BY <1>1 DEF IInv, TodoInv, SessionInv, Replacing
<1>3. NoTrail' /\ ParkedOnlyWhenIdle'
  BY <1>1 DEF IInv, NoTrail, ParkedOnlyWhenIdle
<1>4. KeysInv' /\ ButtonsInv'
  BY <1>1 DEF IInv, KeysInv, ButtonsInv, Live, Down, Up, Now, Excused, Doing
<1> QED
  BY <1>2, <1>3, <1>4, <1>5 DEF IInv

LEMMA NextIInv == IInv /\ [Next]_vars => IInv'
BY UserEventKeeps, ContinueKeeps, SessionDiesKeeps, ClearInputKeeps, ConnectKeeps, StopKeeps,
   DispatcherKeeps, StutterKeeps DEF Next

LEMMA Invariant == Spec => []IInv
BY InitIInv, NextIInv, PTL DEF Spec

(* The types of InputState, of the queue and of the dispatch thread, the   *)
(* bound MAX_INPUT_COMMANDS of the queue among them.                       *)
THEOREM TypesHold == Spec => []TypeOK
<1>1. IInv => TypeOK
  BY DEF IInv
<1> QED
  BY <1>1, Invariant, PTL

(* No key and no button stays down on the remote host behind the user's    *)
(* back, whatever is coalesced, evicted, refused or interrupted.           *)
THEOREM NothingIsForgotten == Spec => []NothingForgotten
<1>1. ASSUME IInv PROVE NothingForgotten
  <2> SUFFICES ASSUME alive, ui = "ready"
               PROVE  /\ WillBeDown(Now, commands) \subseteq pressedKeys \cup pressedRaw \cup Excused
                      /\ buttonMask = {} => WillBeUp(Now, commands) \/ "pointer" \in Excused
    BY DEF NothingForgotten
  <2>1. Live /\ Doing = {}
    BY DEF Live, Doing
  <2>2. /\ Down \subseteq pressedKeys \cup pressedRaw \cup Excused
        /\ buttonMask = {} => Up \/ "pointer" \in Excused
    BY <1>1, <2>1 DEF IInv, KeysInv, ButtonsInv
  <2>3. commands \in Seq(Command)
    BY <1>1 DEF IInv, TypeOK
  <2>4. Up => WillBeUp(Now, commands)
    BY <2>3, UpSinceIsUp DEF Up
  <2> QED
    BY <2>2, <2>4 DEF Down
<1> QED
  BY <1>1, Invariant, PTL

(* Two pointer positions are never queued one after the other.             *)
THEOREM NoTrailForms == Spec => []NoTrail
<1>1. IInv => NoTrail
  BY DEF IInv
<1> QED
  BY <1>1, Invariant, PTL

(* The dispatch thread never sleeps through a command or through stop.     *)
THEOREM WakeUpsArrive == Spec => []ParkedOnlyWhenIdle
<1>1. IInv => ParkedOnlyWhenIdle
  BY DEF IInv
<1> QED
  BY <1>1, Invariant, PTL
=============================================================================
