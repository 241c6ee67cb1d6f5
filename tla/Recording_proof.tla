--------------------------- MODULE Recording_proof ---------------------------
(***************************************************************************)
(* Proofs about Recording, for any layouts, any size of the staging pools, *)
(* and any number of takes, pictures, sessions and faults: its types, that *)
(* no buffer is written before it was read, that movies show the pictures  *)
(* of one take in order, that finished movies stay, that a take reported   *)
(* as saved left whole files, and that a static screen is recorded; and    *)
(* about RawStreamSink, for any streams and any number of takes: its       *)
(* types, that the end of a take closes every file the take opened, and    *)
(* what can replace a finished dump.                                       *)
(***************************************************************************)
EXTENDS Recording, TLAPS, SequenceTheorems, WellFoundedInduction

(* The raw stream sink, whose takes have numbers of their own.             *)
CONSTANTS Kinds, Described
VARIABLES dumpTakes, dumpTake, origin, slot, failure, dumps, late
Dump == INSTANCE RawStreamSink WITH takes <- dumpTakes, take <- dumpTake, whole <- dumps

Running == thread.state \in {"receiving", "pushing", "finishing"}

(* Who is in charge of a take: the Recorder, the published take and the    *)
(* thread are about the same one, a published take without a Recorder was  *)
(* asked to stop, and a take nobody started yet is new.                    *)
TakesAgree ==
  /\ \A t \in TakeIds : ui.started < t => takes[t] = NewTake
  /\ control <= ui.started /\ tap.take <= ui.started /\ thread.take <= ui.started
  /\ ui.recorder # NoTake => control = ui.recorder /\ thread.take = ui.recorder
  /\ ui.recorder = NoTake /\ control # NoTake => takes[control].stopping
  /\ ui.stopAsked => ui.recorder # NoTake /\ takes[ui.recorder].stopping
  /\ Running => thread.take = ui.recorder /\ ui.recorder # NoTake
  /\ Running => ~takes[thread.take].finished
  /\ thread.state = "none" => thread.take = NoTake /\ movie = NoMovie
  /\ thread.state # "none" => thread.take # NoTake

(* The thread's hands: a capture while it pushes, and only its own take's  *)
(* captures in its channel, which is empty when nobody listens.            *)
ThreadHolds ==
  /\ Len(thread.inHand) = (IF thread.state = "pushing" THEN 1 ELSE 0)
  /\ ~Running => channel = <<>>
  /\ \A i \in DOMAIN thread.inHand : thread.inHand[i].frame.take = thread.take
  /\ \A i \in DOMAIN channel : channel[i].frame.take = thread.take

(* What the tap has done for a take that still records: nothing before it  *)
(* noticed the take, and since then it captured or dropped what is shown.  *)
TapFollows ==
  control # NoTake /\ ~takes[control].stopping =>
    IF tap.take = control
    THEN /\ ~presented /\ ~tap.awaiting
         /\ takes[control].latest <= screen.picture
         /\ takes[control].dropped > 0 \/ takes[control].latest = screen.picture
    ELSE takes[control].latest = 0

(* A picture on screen has a layout. *)
ScreenInv == screen.layout = "none" => screen.picture = 0

(* A capture on its way: its buffer exists, holds it and is not free.      *)
Staged(c) ==
  /\ c.pool \in DOMAIN pools /\ c.buffer \in DOMAIN pools[c.pool].held
  /\ pools[c.pool].held[c.buffer] = c.frame
  /\ c.buffer \notin ToSet(pools[c.pool].free)
  /\ c.frame.picture <= takes[c.frame.take].latest

Apart(c, d) ==
  /\ c.pool # d.pool \/ c.buffer # d.buffer
  /\ c.frame.take = d.frame.take => c.frame.picture < d.frame.picture

FlightsInv ==
  /\ \A i \in DOMAIN InFlight : Staged(InFlight[i])
  /\ \A i, j \in DOMAIN InFlight : i < j => Apart(InFlight[i], InFlight[j])

PoolsInv ==
  \A p \in DOMAIN pools :
    /\ \A i \in DOMAIN pools[p].free : pools[p].free[i] \in DOMAIN pools[p].held
    /\ \A i, j \in DOMAIN pools[p].free : pools[p].free[i] = pools[p].free[j] => i = j

(* The files: their indexes are those of takes, without a second segment   *)
(* there is no first, and what they show is in order.                      *)
FilesInv(fs) ==
  /\ \A p \in DOMAIN fs : <<p[1], 1>> \in DOMAIN fs
  /\ \A p, q \in DOMAIN fs :
       \A i \in DOMAIN fs[p].frames, j \in DOMAIN fs[q].frames :
         p[1] = q[1] /\ (p[2] < q[2] \/ (p = q /\ i < j))
           => Before(fs[p].frames[i], fs[q].frames[j])
  /\ \A p \in DOMAIN fs : \A i, j \in DOMAIN fs[p].frames :
       fs[p].frames[i].layout = fs[p].frames[j].layout

(* The movie being written: the segments before this one are whole files,  *)
(* this one is open, and what the encoder holds comes after all of it.     *)
SegmentsInv(fs, m) ==
  /\ \A p \in DOMAIN fs : p[1] = m.index => p[2] <= m.number
  /\ \A p \in DOMAIN fs : p[1] = m.index /\ p[2] < m.number => fs[p].final
  /\ \A k \in 1 .. m.number - 1 : <<m.index, k>> \in DOMAIN fs
  /\ ToSet(m.segments) = 1 .. m.number - 1

OpenInv(fs, m, t) ==
  /\ Path(m) \in DOMAIN fs /\ ~fs[Path(m)].final
  /\ Len(m.held) = 1 /\ m.held[1].layout = m.layout /\ m.held[1].take = t
  /\ \A i \in DOMAIN fs[Path(m)].frames : fs[Path(m)].frames[i].layout = m.layout
  /\ \A p \in DOMAIN fs : \A i \in DOMAIN fs[p].frames :
       p[1] = m.index => Before(fs[p].frames[i], m.held[1])

NoFileYet(fs, m) ==
  m.held = <<>> /\ m.number = 1 /\ \A p \in DOMAIN fs : p[1] # m.index

WritingInv(fs, m, t) ==
  /\ SegmentsInv(fs, m)
  /\ IF m.layout = "none" THEN NoFileYet(fs, m) ELSE OpenInv(fs, m, t)

MovieInv == Running => WritingInv(files, movie, thread.take)

(* What is on its way to the encoder comes after what it has been given.   *)
AheadInv ==
  Running /\ movie.layout # "none" =>
    /\ movie.held[1].picture <= takes[thread.take].latest
    /\ \A i \in DOMAIN InFlight :
         InFlight[i].frame.take = thread.take => Before(movie.held[1], InFlight[i].frame)

IndexInv ==
  /\ movie.index <= ui.started /\ (Running => movie.index # 0)
  /\ \A p \in DOMAIN files : p[1] <= ui.started

IInv ==
  /\ TypeOK /\ TakesAgree /\ ThreadHolds /\ TapFollows /\ ScreenInv /\ FlightsInv /\ PoolsInv
  /\ FilesInv(files) /\ MovieInv /\ AheadInv /\ IndexInv /\ SavedMeansWhole

-----------------------------------------------------------------------------
(* The files of a movie, as functions of what the thread does to them *)

Movies == [index : 0 .. MaxTakes, number : Nat \ {0}, layout : Layouts \cup {"none"},
           held : Seq(Pictures), segments : Seq(Nat \ {0})]
FileMap(fs) == DOMAIN fs \subseteq TakeIds \X (Nat \ {0}) /\ fs \in [DOMAIN fs -> Files]

(* Files that have their index are as they were. *)
Kept(fs, gs) == \A p \in DOMAIN fs : fs[p].final => p \in DOMAIN gs /\ gs[p] = fs[p]

(* All that is recorded of movie i comes before f. *)
UpTo(fs, i, f) ==
  \A p \in DOMAIN fs : \A k \in DOMAIN fs[p].frames : p[1] = i => Before(fs[p].frames[k], f)

(* A movie between two segments: all of them are whole. *)
WholeInv(fs, m) ==
  /\ \A p \in DOMAIN fs : p[1] = m.index => p[2] < m.number /\ fs[p].final
  /\ \A k \in 1 .. m.number - 1 : <<m.index, k>> \in DOMAIN fs
  /\ ToSet(m.segments) = 1 .. m.number - 1

(* What the encoder puts out goes to the end of the open file only. *)
LEMMA EncodedIs ==
  ASSUME NEW fs, FileMap(fs), NEW m \in Movies, NEW d \in BOOLEAN,
         Path(m) \in DOMAIN fs, Len(m.held) = 1
  PROVE  /\ DOMAIN Encoded(fs, m, d) = DOMAIN fs
         /\ FileMap(Encoded(fs, m, d))
         /\ \A p \in DOMAIN fs : p # Path(m) => Encoded(fs, m, d)[p] = fs[p]
         /\ Encoded(fs, m, d)[Path(m)].final = fs[Path(m)].final
         /\ \/ Encoded(fs, m, d)[Path(m)].frames = fs[Path(m)].frames
            \/ Encoded(fs, m, d)[Path(m)].frames = Append(fs[Path(m)].frames, m.held[1])
<1> DEFINE g == Encoded(fs, m, d)
<1>1. CASE d
  <2>1. g = fs
    BY <1>1 DEF Encoded
  <2> QED  BY <2>1
<1>2. CASE ~d
  <2>1. m.held # <<>> /\ m.held \in Seq(Pictures) /\ m.held[1] \in Pictures
    <3>1. m.held \in Seq(Pictures)
      BY DEF Movies
    <3>2. m.held # <<>>
      OBVIOUS
    <3>3. m.held[1] \in Pictures
      BY <3>1, ElementOfSeq
    <3> QED  BY <3>1, <3>2, <3>3
  <2>2. g = [fs EXCEPT ![Path(m)].frames = fs[Path(m)].frames \o m.held]
    BY <1>2, <2>1 DEF Encoded
  <2>3. fs[Path(m)] \in Files /\ fs[Path(m)].frames \in Seq(Pictures)
    BY DEF FileMap, Files
  <2>4. fs[Path(m)].frames \o m.held = Append(fs[Path(m)].frames, m.held[1])
    <3>1. m.held = <<m.held[1]>>
      BY <2>1
    <3> QED  BY <3>1, <2>3, <2>1, AppendIsConcat
  <2>5. fs[Path(m)].frames \o m.held \in Seq(Pictures)
    BY <2>1, <2>3, ConcatProperties
  <2>6. DOMAIN g = DOMAIN fs /\ \A p \in DOMAIN fs : p # Path(m) => g[p] = fs[p]
    BY <2>2
  <2>7. g[Path(m)] = [fs[Path(m)] EXCEPT !.frames = fs[Path(m)].frames \o m.held]
    BY <2>2
  <2>8. /\ g[Path(m)].final = fs[Path(m)].final
        /\ g[Path(m)].frames = Append(fs[Path(m)].frames, m.held[1])
        /\ g[Path(m)] \in Files
    BY <2>3, <2>4, <2>5, <2>7 DEF Files
  <2>9. FileMap(g)
    <3>1. \A p \in DOMAIN g : g[p] \in Files
      BY <2>6, <2>8 DEF FileMap
    <3>2. g = [p \in DOMAIN g |-> g[p]]
      BY <2>2
    <3> HIDE DEF g
    <3> QED  BY <3>1, <3>2, <2>6 DEF FileMap
  <2> QED  BY <2>6, <2>8, <2>9
<1> QED  BY <1>1, <1>2


(* A frame of a file the encoder wrote to was there before, or is the one  *)
(* it held back, at the end of the open file.                              *)
LEMMA EncodedFrame ==
  ASSUME NEW fs, FileMap(fs), NEW m \in Movies, NEW d \in BOOLEAN,
         Path(m) \in DOMAIN fs, Len(m.held) = 1,
         NEW p \in DOMAIN fs, NEW i \in DOMAIN Encoded(fs, m, d)[p].frames
  PROVE  \/ /\ i \in DOMAIN fs[p].frames
            /\ Encoded(fs, m, d)[p].frames[i] = fs[p].frames[i]
         \/ /\ p = Path(m) /\ i = Len(fs[p].frames) + 1
            /\ Encoded(fs, m, d)[p].frames[i] = m.held[1]
<1> DEFINE g == Encoded(fs, m, d)
<1>1. CASE g[p].frames = fs[p].frames
  BY <1>1
<1>2. CASE p = Path(m) /\ g[p].frames = Append(fs[p].frames, m.held[1])
  <2>1. fs[p].frames \in Seq(Pictures)
    BY DEF FileMap, Files
  <2>2. m.held \in Seq(Pictures)
    BY DEF Movies
  <2>3. m.held[1] \in Pictures
    BY <2>2, ElementOfSeq
  <2> HIDE DEF g
  <2> DEFINE s == fs[p].frames
  <2>4. i \in 1 .. Len(s) + 1
    <3>1. i \in DOMAIN Append(s, m.held[1])
      BY <1>2 DEF g
    <3> HIDE DEF s
    <3> QED  BY <2>1, <2>3, <3>1, AppendProperties DEF s
  <2>5. \A k \in 1 .. Len(s) : Append(s, m.held[1])[k] = s[k]
    BY <2>1, <2>3, AppendProperties
  <2>6. Append(s, m.held[1])[Len(s) + 1] = m.held[1]
    BY <2>1, <2>3, AppendProperties
  <2>7. DOMAIN s = 1 .. Len(s) /\ Len(s) \in Nat
    BY <2>1
  <2> HIDE DEF s
  <2>8. CASE i \in 1 .. Len(s)
    BY <2>5, <2>7, <2>8, <1>2 DEF s, g
  <2>9. CASE i = Len(s) + 1
    BY <2>6, <2>9, <1>2 DEF s, g
  <2> QED  BY <2>4, <2>7, <2>8, <2>9
<1> QED  BY <1>1, <1>2, EncodedIs

(* The encoder's output keeps the order of the files, comes before what    *)
(* comes after the frame it held back, and leaves finished files alone.    *)
LEMMA EncodedMovie ==
  ASSUME NEW fs, FileMap(fs), NEW m \in Movies, NEW t, NEW d \in BOOLEAN,
         FilesInv(fs), SegmentsInv(fs, m), OpenInv(fs, m, t)
  PROVE  /\ FilesInv(Encoded(fs, m, d))
         /\ SegmentsInv(Encoded(fs, m, d), m)
         /\ Kept(fs, Encoded(fs, m, d))
         /\ \A i \in DOMAIN Encoded(fs, m, d)[Path(m)].frames :
              Encoded(fs, m, d)[Path(m)].frames[i].layout = m.layout
         /\ \A f \in Pictures : Before(m.held[1], f) => UpTo(Encoded(fs, m, d), m.index, f)
<1> DEFINE g == Encoded(fs, m, d)
<1>1. /\ DOMAIN g = DOMAIN fs
      /\ \A p \in DOMAIN fs : p # Path(m) => g[p] = fs[p]
      /\ \A p \in DOMAIN fs : g[p].final = fs[p].final
      /\ Path(m) \in DOMAIN fs /\ Len(m.held) = 1 /\ ~fs[Path(m)].final
  BY EncodedIs DEF OpenInv
<1>2. \A p \in DOMAIN fs : \A i \in DOMAIN g[p].frames :
        \/ i \in DOMAIN fs[p].frames /\ g[p].frames[i] = fs[p].frames[i]
        \/ p = Path(m) /\ i = Len(fs[p].frames) + 1 /\ g[p].frames[i] = m.held[1]
  BY <1>1, EncodedFrame
<1>3. Path(m)[1] = m.index /\ Path(m)[2] = m.number
  BY DEF Path
<1>4. \A p \in DOMAIN fs : p[2] \in Nat /\ DOMAIN fs[p].frames = 1 .. Len(fs[p].frames)
                           /\ Len(fs[p].frames) \in Nat
  <2>1. \A p \in DOMAIN fs : fs[p].frames \in Seq(Pictures) /\ p[2] \in Nat
    BY DEF FileMap, Files
  <2> QED  BY <2>1
<1>5. m.number \in Nat /\ m.held \in Seq(Pictures) /\ m.held[1] \in Pictures
  <2>1. m.number \in Nat /\ m.held \in Seq(Pictures)
    BY DEF Movies
  <2> QED  BY <2>1, <1>1, ElementOfSeq
<1> HIDE DEF g
<1>6. SegmentsInv(g, m)
  BY <1>1 DEF SegmentsInv
<1>7. Kept(fs, g)
  BY <1>1 DEF Kept
<1>8. ASSUME NEW p \in DOMAIN g, NEW q \in DOMAIN g,
             NEW i \in DOMAIN g[p].frames, NEW j \in DOMAIN g[q].frames,
             p[1] = q[1], p[2] < q[2] \/ (p = q /\ i < j)
      PROVE  Before(g[p].frames[i], g[q].frames[j])
  <2>1. CASE /\ i \in DOMAIN fs[p].frames /\ g[p].frames[i] = fs[p].frames[i]
             /\ j \in DOMAIN fs[q].frames /\ g[q].frames[j] = fs[q].frames[j]
    BY <2>1, <1>1, <1>8 DEF FilesInv
  <2>2. CASE /\ i \in DOMAIN fs[p].frames /\ g[p].frames[i] = fs[p].frames[i]
             /\ q = Path(m) /\ g[q].frames[j] = m.held[1]
    BY <2>2, <1>1, <1>3, <1>8 DEF OpenInv
  <2>3. CASE p = Path(m) /\ i = Len(fs[p].frames) + 1
    <3>1. ~(p[2] < q[2])
      <4>1. q[1] = m.index /\ q \in DOMAIN fs
        BY <1>1, <1>3, <1>8, <2>3
      <4>2. q[2] <= m.number
        BY <4>1 DEF SegmentsInv
      <4> QED  BY <1>1, <1>3, <1>4, <1>5, <2>3, <4>1, <4>2
    <3>2. p = q /\ i < j
      BY <3>1, <1>8
    <3>3. j \in 1 .. Len(fs[p].frames) + 1
      BY <3>2, <1>1, <1>2, <1>4
    <3> QED  BY <2>3, <3>2, <3>3, <1>1, <1>4
  <2> QED  BY <2>1, <2>2, <2>3, <1>1, <1>2
<1>9. ASSUME NEW i \in DOMAIN g[Path(m)].frames
      PROVE  g[Path(m)].frames[i].layout = m.layout
  BY <1>1, <1>2 DEF OpenInv
<1>10. ASSUME NEW p \in DOMAIN g, NEW i \in DOMAIN g[p].frames, NEW j \in DOMAIN g[p].frames
       PROVE  g[p].frames[i].layout = g[p].frames[j].layout
  <2>1. CASE p = Path(m)
    BY <2>1, <1>9
  <2>2. CASE p # Path(m)
    BY <2>2, <1>1 DEF FilesInv
  <2> QED  BY <2>1, <2>2
<1>11. FilesInv(g)
  <2>1. \A p \in DOMAIN g : <<p[1], 1>> \in DOMAIN g
    BY <1>1 DEF FilesInv
  <2> QED  BY <2>1, <1>8, <1>10 DEF FilesInv
<1>12. ASSUME NEW f \in Pictures, Before(m.held[1], f) PROVE UpTo(g, m.index, f)
  <2> SUFFICES ASSUME NEW p \in DOMAIN g, NEW i \in DOMAIN g[p].frames, p[1] = m.index
               PROVE  Before(g[p].frames[i], f)
    BY DEF UpTo
  <2>1. CASE g[p].frames[i] = m.held[1]
    BY <2>1, <1>12
  <2>2. CASE i \in DOMAIN fs[p].frames /\ g[p].frames[i] = fs[p].frames[i]
    <3>1. Before(g[p].frames[i], m.held[1])
      BY <2>2, <1>1 DEF OpenInv
    <3>2. g[p].frames[i] \in Pictures
      <4>1. fs[p].frames \in Seq(Pictures)
        BY <1>1 DEF FileMap, Files
      <4> QED  BY <2>2, <4>1, ElementOfSeq
    <3> QED  BY <3>1, <3>2, <1>12, <1>5 DEF Before, Pictures
  <2> QED  BY <2>1, <2>2, <1>1, <1>2
<1> QED  BY <1>6, <1>7, <1>9, <1>11, <1>12 DEF g


(* Only the frames of the files count for their order. *)
LEMMA SameFrames ==
  ASSUME NEW fs, NEW gs, FilesInv(fs), DOMAIN gs = DOMAIN fs,
         \A p \in DOMAIN fs : gs[p].frames = fs[p].frames
  PROVE  /\ FilesInv(gs)
         /\ \A i, f : UpTo(fs, i, f) => UpTo(gs, i, f)
BY DEF FilesInv, UpTo

(* Giving one file fewer, with the first segment of its index the last to  *)
(* go, keeps the order too.                                                *)
LEMMA FewerFiles ==
  ASSUME NEW fs, FileMap(fs), NEW gs, NEW path, FilesInv(fs),
         gs = [p \in DOMAIN fs \ {path} |-> fs[p]],
         \A p \in DOMAIN fs : p # path => <<p[1], 1>> # path
  PROVE  /\ FilesInv(gs) /\ FileMap(gs)
         /\ \A i, f : UpTo(fs, i, f) => UpTo(gs, i, f)
<1>1. DOMAIN gs = DOMAIN fs \ {path} /\ \A p \in DOMAIN gs : gs[p] = fs[p]
  OBVIOUS
<1>2. FileMap(gs)
  <2>1. gs \in [DOMAIN gs -> Files]
    BY <1>1 DEF FileMap
  <2> QED  BY <1>1, <2>1 DEF FileMap
<1>3. \A p \in DOMAIN gs : <<p[1], 1>> \in DOMAIN gs
  BY <1>1 DEF FilesInv
<1>4. FilesInv(gs)
  BY <1>1, <1>3 DEF FilesInv
<1>5. \A i, f : UpTo(fs, i, f) => UpTo(gs, i, f)
  BY <1>1 DEF UpTo
<1> QED  BY <1>2, <1>4, <1>5

(* Closing a segment leaves a movie of whole files, in order. *)
LEMMA ClosedMovie ==
  ASSUME NEW fs, FileMap(fs), NEW m \in Movies, NEW t, NEW d \in BOOLEAN,
         FilesInv(fs), WritingInv(fs, m, t)
  PROVE  /\ FileMap(Closed(fs, m, d).files) /\ FilesInv(Closed(fs, m, d).files)
         /\ Closed(fs, m, d).movie \in Movies
         /\ Closed(fs, m, d).movie.index = m.index
         /\ Closed(fs, m, d).movie.layout = "none" /\ Closed(fs, m, d).movie.held = <<>>
         /\ WholeInv(Closed(fs, m, d).files, Closed(fs, m, d).movie)
         /\ Kept(fs, Closed(fs, m, d).files)
         /\ DOMAIN Closed(fs, m, d).files \subseteq DOMAIN fs
         /\ \A f \in Pictures : (m.layout # "none" => Before(m.held[1], f))
                                  => UpTo(Closed(fs, m, d).files, m.index, f)
<1> DEFINE c == Closed(fs, m, d)
           full == Encoded(fs, m, d)
           shut == [m EXCEPT !.layout = "none", !.held = <<>>]
<1>0. \A p \in DOMAIN fs : p = <<p[1], p[2]>> /\ p[2] \in Nat \ {0}
  BY DEF FileMap
<1>1. CASE m.layout = "none"
  <2>1. c = [files |-> fs, movie |-> m]
    BY <1>1 DEF Closed
  <2>2. c.files = fs /\ c.movie = m
    BY <2>1
  <2>3. NoFileYet(fs, m) /\ SegmentsInv(fs, m)
    BY <1>1 DEF WritingInv
  <2>4. WholeInv(fs, m) /\ Kept(fs, fs) /\ \A f : UpTo(fs, m.index, f)
    BY <2>3 DEF WholeInv, NoFileYet, SegmentsInv, Kept, UpTo
  <2>5. m.held = <<>>
    BY <2>3 DEF NoFileYet
  <2> HIDE DEF c
  <2> QED  BY <1>1, <2>2, <2>4, <2>5 DEF c
<1>2. CASE m.layout # "none"
  <2>1. SegmentsInv(fs, m) /\ OpenInv(fs, m, t)
    BY <1>2 DEF WritingInv
  <2>2. Path(m) \in DOMAIN fs /\ Len(m.held) = 1 /\ Path(m) = <<m.index, m.number>>
        /\ ~fs[Path(m)].final
    BY <2>1 DEF OpenInv, Path
  <2>3. /\ FilesInv(full) /\ SegmentsInv(full, m) /\ Kept(fs, full)
        /\ \A f \in Pictures : Before(m.held[1], f) => UpTo(full, m.index, f)
    BY <2>1, EncodedMovie
  <2>4. FileMap(full) /\ DOMAIN full = DOMAIN fs
        /\ \A p \in DOMAIN fs : p # Path(m) => full[p] = fs[p]
    BY <2>2, EncodedIs
  <2>5. m.number \in Nat \ {0} /\ m.segments \in Seq(Nat \ {0}) /\ m \in Movies
    BY DEF Movies
  <2>6. shut \in Movies /\ shut.index = m.index /\ shut.layout = "none" /\ shut.held = <<>>
        /\ shut.number = m.number /\ shut.segments = m.segments
    <3>1. <<>> \in Seq(Pictures)
      BY EmptySeq
    <3> QED  BY <3>1 DEF Movies
  <2> HIDE DEF full, shut
  <2>7. CASE full[Path(m)].frames = <<>>
    <3>1. c = [files |-> [p \in DOMAIN fs \ {Path(m)} |-> fs[p]], movie |-> shut]
      BY <1>2, <2>7 DEF Closed, full, shut
    <3> DEFINE gs == [p \in DOMAIN fs \ {Path(m)} |-> fs[p]]
    <3>2. c.files = gs /\ c.movie = shut
      BY <3>1
    <3>3. ASSUME NEW p \in DOMAIN fs, p # Path(m) PROVE <<p[1], 1>> # Path(m)
      <4>1. SUFFICES ASSUME p[1] = m.index, m.number = 1 PROVE FALSE
        BY <2>2
      <4>2. p[2] <= 1
        BY <2>1, <4>1 DEF SegmentsInv
      <4>3. p[2] = 1
        BY <4>2, <1>0
      <4> QED  BY <3>3, <4>1, <4>3, <1>0, <2>2
    <3>4. FilesInv(gs) /\ FileMap(gs) /\ \A i, f : UpTo(fs, i, f) => UpTo(gs, i, f)
      <4> HIDE DEF gs
      <4>1. gs = [p \in DOMAIN fs \ {Path(m)} |-> fs[p]]
        BY DEF gs
      <4> QED  BY <3>3, <4>1, FewerFiles
    <3>5. DOMAIN gs = DOMAIN fs \ {Path(m)} /\ \A p \in DOMAIN gs : gs[p] = fs[p]
      OBVIOUS
    <3> HIDE DEF gs, c
    <3>6. WholeInv(gs, shut)
      <4>1. ASSUME NEW p \in DOMAIN gs, p[1] = shut.index PROVE p[2] < shut.number /\ gs[p].final
        <5>1. p[1] = m.index /\ p \in DOMAIN fs /\ p # Path(m)
          BY <2>6, <3>5, <4>1
        <5>2. p[2] <= m.number /\ p[2] # m.number
          BY <2>1, <2>2, <1>0, <5>1 DEF SegmentsInv
        <5>3. p[2] < m.number
          BY <5>1, <5>2, <1>0, <2>5
        <5>4. fs[p].final
          BY <2>1, <5>1, <5>3 DEF SegmentsInv
        <5> QED  BY <2>6, <3>5, <5>3, <5>4
      <4>2. ASSUME NEW k \in 1 .. shut.number - 1 PROVE <<shut.index, k>> \in DOMAIN gs
        <5>1. <<m.index, k>> \in DOMAIN fs
          BY <2>1, <2>6 DEF SegmentsInv
        <5>2. k # m.number
          BY <2>5, <2>6
        <5> QED  BY <2>2, <2>6, <3>5, <5>1, <5>2
      <4>3. ToSet(shut.segments) = 1 .. shut.number - 1
        BY <2>1, <2>6 DEF SegmentsInv
      <4> QED  BY <4>1, <4>2, <4>3 DEF WholeInv
    <3>7. Kept(fs, gs)
      BY <2>2, <3>5 DEF Kept
    <3>8. ASSUME NEW f \in Pictures, Before(m.held[1], f) PROVE UpTo(gs, m.index, f)
      <4>1. UpTo(full, m.index, f)
        BY <2>3, <3>8
      <4> QED  BY <4>1, <2>4, <3>5 DEF UpTo
    <3> QED  BY <1>2, <2>6, <3>2, <3>4, <3>5, <3>6, <3>7, <3>8 DEF c
  <2>8. CASE full[Path(m)].frames # <<>>
    <3> DEFINE gs == [full EXCEPT ![Path(m)].final = TRUE]
               next == [shut EXCEPT !.segments = Append(@, m.number), !.number = @ + 1]
    <3>1. c = [files |-> gs, movie |-> next]
      BY <1>2, <2>8 DEF Closed, full, shut
    <3>2. c.files = gs /\ c.movie = next
      BY <3>1
    <3>3. /\ DOMAIN gs = DOMAIN fs /\ \A p \in DOMAIN fs : p # Path(m) => gs[p] = fs[p]
          /\ gs[Path(m)] = [full[Path(m)] EXCEPT !.final = TRUE]
      BY <2>2, <2>4
    <3>4. full[Path(m)] \in Files
      BY <2>2, <2>4 DEF FileMap
    <3>5. gs[Path(m)] \in Files /\ gs[Path(m)].final /\ gs[Path(m)].frames = full[Path(m)].frames
      <4> DEFINE old == full[Path(m)]
      <4>1. old \in Files
        BY <3>4
      <4> HIDE DEF old
      <4>2. [old EXCEPT !.final = TRUE] \in Files /\ [old EXCEPT !.final = TRUE].final
            /\ [old EXCEPT !.final = TRUE].frames = old.frames
        BY <4>1 DEF Files
      <4>3. gs[Path(m)] = [old EXCEPT !.final = TRUE]
        BY <3>3 DEF old
      <4> HIDE DEF gs
      <4> QED  BY <4>2, <4>3 DEF old
    <3>6. FileMap(gs)
      <4>1. \A p \in DOMAIN gs : gs[p] \in Files
        BY <3>3, <3>5 DEF FileMap
      <4>2. gs = [p \in DOMAIN gs |-> gs[p]]
        OBVIOUS
      <4> HIDE DEF gs
      <4> QED  BY <4>1, <4>2, <3>3 DEF FileMap
    <3>7. next \in Movies /\ next.index = m.index /\ next.number = m.number + 1
          /\ next.layout = "none" /\ next.held = <<>>
          /\ next.segments = Append(m.segments, m.number)
      <4>1. Append(shut.segments, m.number) \in Seq(Nat \ {0}) /\ shut.number + 1 \in Nat \ {0}
        BY <2>5, <2>6
      <4>2. next \in Movies
        BY <2>6, <4>1 DEF Movies
      <4>3. next.index = shut.index /\ next.number = shut.number + 1 /\ next.layout = shut.layout
            /\ next.held = shut.held /\ next.segments = Append(shut.segments, m.number)
        BY <2>6 DEF Movies
      <4> QED  BY <2>6, <4>2, <4>3
    <3> HIDE DEF gs, next, c
    <3>8. FilesInv(gs) /\ \A i, f : UpTo(full, i, f) => UpTo(gs, i, f)
      <4>1. \A p \in DOMAIN full : gs[p].frames = full[p].frames
        BY <2>4, <3>3, <3>5
      <4>2. DOMAIN gs = DOMAIN full
        BY <2>4, <3>3
      <4> QED  BY <4>1, <4>2, <2>3, SameFrames
    <3>9. WholeInv(gs, next)
      <4>1. ASSUME NEW p \in DOMAIN gs, p[1] = next.index PROVE p[2] < next.number /\ gs[p].final
        <5>1. p[1] = m.index /\ p \in DOMAIN fs
          BY <3>3, <3>7, <4>1
        <5>2. p[2] <= m.number
          BY <2>1, <5>1 DEF SegmentsInv
        <5>3. p[2] < m.number => fs[p].final
          BY <2>1, <5>1 DEF SegmentsInv
        <5>4. CASE p = Path(m)
          BY <5>2, <5>4, <5>1, <1>0, <2>5, <3>5, <3>7
        <5>5. CASE p # Path(m)
          <6>1. p[2] # m.number
            BY <5>1, <5>5, <1>0, <2>2
          <6> QED  BY <6>1, <5>1, <5>2, <5>3, <5>5, <1>0, <2>5, <3>3, <3>7
        <5> QED  BY <5>4, <5>5
      <4>2. ASSUME NEW k \in 1 .. next.number - 1 PROVE <<next.index, k>> \in DOMAIN gs
        <5>1. k \in 1 .. m.number - 1 \/ k = m.number
          BY <2>5, <3>7
        <5>2. k \in 1 .. m.number - 1 => <<m.index, k>> \in DOMAIN fs
          BY <2>1 DEF SegmentsInv
        <5> QED  BY <5>1, <5>2, <2>2, <3>3, <3>7
      <4>3. ToSet(next.segments) = 1 .. next.number - 1
        <5>1. ToSet(m.segments) = 1 .. m.number - 1
          BY <2>1 DEF SegmentsInv
        <5>2. ToSet(Append(m.segments, m.number)) = ToSet(m.segments) \cup {m.number}
          <6> DEFINE s == m.segments
          <6>1. s \in Seq(Nat \ {0}) /\ m.number \in Nat \ {0}
            BY <2>5
          <6> HIDE DEF s
          <6>2. /\ DOMAIN s = 1 .. Len(s) /\ Len(s) \in Nat
                /\ DOMAIN Append(s, m.number) = 1 .. Len(s) + 1
                /\ \A i \in 1 .. Len(s) : Append(s, m.number)[i] = s[i]
                /\ Append(s, m.number)[Len(s) + 1] = m.number
            BY <6>1, AppendProperties
          <6> QED  BY <6>2 DEF s, ToSet
        <5>3. 1 .. m.number = 1 .. m.number - 1 \cup {m.number}
          BY <2>5
        <5>4. next.number - 1 = m.number
          BY <2>5, <3>7
        <5> QED  BY <5>1, <5>2, <5>3, <5>4, <3>7
      <4> QED  BY <4>1, <4>2, <4>3 DEF WholeInv
    <3>10. Kept(fs, gs)
      BY <2>2, <3>3 DEF Kept
    <3>11. ASSUME NEW f \in Pictures, Before(m.held[1], f) PROVE UpTo(gs, m.index, f)
      BY <2>3, <3>8, <3>11
    <3> QED  BY <1>2, <3>2, <3>3, <3>6, <3>7, <3>8, <3>9, <3>10, <3>11 DEF c
  <2> QED  BY <2>7, <2>8
<1> QED  BY <1>1, <1>2


(* The next segment of a movie is a new file, for the frame it starts with. *)
NextFiles(fs, m) == WithFile(fs, Path(m), [frames |-> <<>>, final |-> FALSE])
NextMovie(m, frame) == [[m EXCEPT !.layout = frame.layout] EXCEPT !.held = <<frame>>]

LEMMA StartedMovie ==
  ASSUME NEW fs, FileMap(fs), NEW m \in Movies, FilesInv(fs),
         m.layout = "none", m.index \in TakeIds, WholeInv(fs, m),
         NEW frame \in Pictures, UpTo(fs, m.index, frame)
  PROVE  /\ FileMap(NextFiles(fs, m)) /\ FilesInv(NextFiles(fs, m)) /\ Kept(fs, NextFiles(fs, m))
         /\ NextMovie(m, frame) \in Movies /\ NextMovie(m, frame).index = m.index
         /\ NextMovie(m, frame).held = <<frame>>
         /\ NextMovie(m, frame).layout # "none"
         /\ WritingInv(NextFiles(fs, m), NextMovie(m, frame), frame.take)
         /\ \A p \in DOMAIN NextFiles(fs, m) : p \in DOMAIN fs \/ p[1] = m.index
<1> DEFINE gs == NextFiles(fs, m)
           n == NextMovie(m, frame)
           file == [frames |-> <<>>, final |-> FALSE]
<1>1. gs = [p \in DOMAIN fs \cup {Path(m)} |-> IF p = Path(m) THEN file ELSE fs[p]]
  BY DEF WithFile, NextFiles
<1>2. n = [[m EXCEPT !.layout = frame.layout] EXCEPT !.held = <<frame>>]
  BY DEF NextMovie
<1> HIDE DEF gs, n
<1>3. frame.layout \in Layouts /\ frame.layout # "none"
  BY RecordingAssumption DEF Pictures
<1>4. n \in Movies /\ n.index = m.index /\ n.number = m.number /\ n.layout = frame.layout
      /\ n.held = <<frame>> /\ n.segments = m.segments
  <2>1. <<frame>> \in Seq(Pictures)
    OBVIOUS
  <2> QED  BY <1>2, <1>3, <2>1 DEF Movies
<1>5. Path(m) = <<m.index, m.number>> /\ Path(n) = Path(m)
      /\ Path(m)[1] = m.index /\ Path(m)[2] = m.number
  BY <1>4 DEF Path
<1>6. m.number \in Nat \ {0} /\ m.index \in TakeIds
  BY DEF Movies
<1>7. FileMap(fs) /\ FilesInv(fs) /\ WholeInv(fs, m) /\ UpTo(fs, m.index, frame)
  OBVIOUS
<1>8. \A p \in DOMAIN fs : p # Path(m) /\ p[2] \in Nat /\ fs[p] \in Files
  <2>1. ASSUME NEW p \in DOMAIN fs PROVE p # Path(m)
    <3>1. p[2] \in Nat
      BY <1>7 DEF FileMap
    <3>2. p[1] = m.index => p[2] < m.number
      BY <1>7 DEF WholeInv
    <3> QED  BY <1>5, <1>6, <3>1, <3>2
  <2> QED  BY <2>1, <1>7 DEF FileMap
<1>9. DOMAIN gs = DOMAIN fs \cup {Path(m)} /\ \A p \in DOMAIN fs : gs[p] = fs[p]
  BY <1>1, <1>8
<1>10. gs[Path(m)].frames = <<>> /\ ~gs[Path(m)].final /\ gs[Path(m)] \in Files
  <2>1. gs[Path(m)] = file
    BY <1>1
  <2>2. <<>> \in Seq(Pictures)
    BY EmptySeq
  <2>3. file \in Files /\ file.frames = <<>> /\ ~file.final
    BY <2>2 DEF Files
  <2> HIDE DEF file
  <2> QED  BY <2>1, <2>3
<1>11. FileMap(gs)
  <2>1. DOMAIN gs \subseteq TakeIds \X (Nat \ {0})
    BY <1>5, <1>6, <1>7, <1>9 DEF FileMap
  <2>2. \A p \in DOMAIN gs : gs[p] \in Files
    BY <1>8, <1>9, <1>10
  <2>3. gs = [p \in DOMAIN gs |-> gs[p]]
    BY <1>1
  <2> QED  BY <2>1, <2>2, <2>3 DEF FileMap
<1>12. Kept(fs, gs)
  BY <1>9 DEF Kept
<1>13. \A p \in DOMAIN gs : \A i \in DOMAIN gs[p].frames :
         p \in DOMAIN fs /\ i \in DOMAIN fs[p].frames /\ gs[p] = fs[p]
  <2>1. DOMAIN gs[Path(m)].frames = {}
    <3>1. DOMAIN <<>> = {}
      OBVIOUS
    <3> QED  BY <3>1, <1>10
  <2> QED  BY <2>1, <1>9
<1>14. FilesInv(gs)
  <2>1. ASSUME NEW p \in DOMAIN gs PROVE <<p[1], 1>> \in DOMAIN gs
    <3>1. CASE p \in DOMAIN fs
      BY <3>1, <1>7, <1>9 DEF FilesInv
    <3>2. CASE p = Path(m)
      <4>1. CASE m.number = 1
        BY <3>2, <4>1, <1>5, <1>9
      <4>2. CASE m.number # 1
        <5>1. 1 \in 1 .. m.number - 1
          BY <4>2, <1>6
        <5>2. <<m.index, 1>> \in DOMAIN fs
          BY <5>1, <1>7 DEF WholeInv
        <5> QED  BY <3>2, <5>2, <1>5, <1>9
      <4> QED  BY <4>1, <4>2
    <3> QED  BY <3>1, <3>2, <1>9
  <2>2. ASSUME NEW p \in DOMAIN gs, NEW q \in DOMAIN gs,
               NEW i \in DOMAIN gs[p].frames, NEW j \in DOMAIN gs[q].frames,
               p[1] = q[1], p[2] < q[2] \/ (p = q /\ i < j)
        PROVE  Before(gs[p].frames[i], gs[q].frames[j])
    <3>1. p \in DOMAIN fs /\ i \in DOMAIN fs[p].frames /\ gs[p] = fs[p]
      BY <1>13
    <3>2. q \in DOMAIN fs /\ j \in DOMAIN fs[q].frames /\ gs[q] = fs[q]
      BY <1>13
    <3> QED  BY <2>2, <3>1, <3>2, <1>7 DEF FilesInv
  <2>3. ASSUME NEW p \in DOMAIN gs, NEW i \in DOMAIN gs[p].frames, NEW j \in DOMAIN gs[p].frames
        PROVE  gs[p].frames[i].layout = gs[p].frames[j].layout
    <3>1. p \in DOMAIN fs /\ gs[p] = fs[p]
      BY <1>13
    <3> QED  BY <3>1, <1>7 DEF FilesInv
  <2> QED  BY <2>1, <2>2, <2>3 DEF FilesInv
<1>15. SegmentsInv(gs, n)
  <2>1. ASSUME NEW p \in DOMAIN gs, p[1] = n.index PROVE p[2] <= n.number
    <3>1. CASE p \in DOMAIN fs
      <4>1. p[2] < m.number /\ p[2] \in Nat
        BY <2>1, <3>1, <1>4, <1>7, <1>8 DEF WholeInv
      <4> QED  BY <4>1, <1>4, <1>6
    <3>2. CASE p = Path(m)
      BY <3>2, <1>4, <1>5, <1>6
    <3> QED  BY <3>1, <3>2, <1>9
  <2>2. ASSUME NEW p \in DOMAIN gs, p[1] = n.index, p[2] < n.number PROVE gs[p].final
    <3>1. p # Path(m)
      BY <2>2, <1>4, <1>5, <1>6
    <3> QED  BY <2>2, <3>1, <1>4, <1>7, <1>9 DEF WholeInv
  <2>3. ASSUME NEW k \in 1 .. n.number - 1 PROVE <<n.index, k>> \in DOMAIN gs
    BY <1>4, <1>7, <1>9 DEF WholeInv
  <2>4. ToSet(n.segments) = 1 .. n.number - 1
    BY <1>4, <1>7 DEF WholeInv
  <2> QED  BY <2>1, <2>2, <2>3, <2>4 DEF SegmentsInv
<1>16. OpenInv(gs, n, frame.take)
  <2>1. Path(n) \in DOMAIN gs /\ ~gs[Path(n)].final
    BY <1>5, <1>9, <1>10
  <2>2. Len(n.held) = 1 /\ n.held[1].layout = n.layout /\ n.held[1].take = frame.take
    BY <1>4
  <2>3. \A i \in DOMAIN gs[Path(n)].frames : gs[Path(n)].frames[i].layout = n.layout
    BY <1>5, <1>8, <1>9, <1>13
  <2>4. ASSUME NEW p \in DOMAIN gs, NEW i \in DOMAIN gs[p].frames, p[1] = n.index
        PROVE  Before(gs[p].frames[i], n.held[1])
    <3>1. p \in DOMAIN fs /\ i \in DOMAIN fs[p].frames /\ gs[p] = fs[p]
      BY <1>13
    <3>2. n.held[1] = frame
      BY <1>4
    <3> QED  BY <2>4, <3>1, <3>2, <1>4, <1>7 DEF UpTo
  <2> QED  BY <2>1, <2>2, <2>3, <2>4 DEF OpenInv
<1>17. WritingInv(gs, n, frame.take)
  BY <1>3, <1>4, <1>15, <1>16 DEF WritingInv
<1> QED  BY <1>3, <1>4, <1>5, <1>9, <1>11, <1>12, <1>14, <1>17 DEF gs, n

(* The movie after a frame was pushed is one that is being written, with   *)
(* this frame as the one the encoder holds back.                           *)
PushedState(fs, m, frame, d) ==
  IF m.layout # frame.layout THEN Started(Closed(fs, m, d), frame.layout)
  ELSE [files |-> Encoded(fs, m, d), movie |-> m]

PushedFiles(fs, m, frame, d) == PushedState(fs, m, frame, d).files
PushedTo(fs, m, frame, d) == [PushedState(fs, m, frame, d).movie EXCEPT !.held = <<frame>>]

(* Movie n with files gs is what a push makes of movie m with files fs. *)
Follows(gs, n, fs, m, frame) ==
  /\ FileMap(gs) /\ FilesInv(gs) /\ Kept(fs, gs)
  /\ n \in Movies /\ n.index = m.index /\ n.held = <<frame>>
  /\ n.layout # "none"
  /\ WritingInv(gs, n, frame.take)
  /\ \A p \in DOMAIN gs : p \in DOMAIN fs \/ p[1] = n.index

LEMMA PushedMovie ==
  ASSUME NEW fs, FileMap(fs), NEW m \in Movies, NEW d \in BOOLEAN,
         m.index \in TakeIds, FilesInv(fs),
         NEW frame \in Pictures, WritingInv(fs, m, frame.take),
         m.layout # "none" => Before(m.held[1], frame)
  PROVE  Follows(PushedFiles(fs, m, frame, d), PushedTo(fs, m, frame, d), fs, m, frame)
<1> DEFINE gs == PushedFiles(fs, m, frame, d)
           n == PushedTo(fs, m, frame, d)
<1>0. /\ gs = PushedState(fs, m, frame, d).files
      /\ n = [PushedState(fs, m, frame, d).movie EXCEPT !.held = <<frame>>]
  BY DEF PushedFiles, PushedTo
<1> HIDE DEF gs, n
<1>1. CASE m.layout # frame.layout
  <2> DEFINE c == Closed(fs, m, d)
  <2>1. gs = WithFile(c.files, Path(c.movie), [frames |-> <<>>, final |-> FALSE])
        /\ n = [[c.movie EXCEPT !.layout = frame.layout] EXCEPT !.held = <<frame>>]
    BY <1>0, <1>1 DEF PushedState, Started
  <2>2. /\ FileMap(c.files) /\ FilesInv(c.files) /\ c.movie \in Movies
        /\ c.movie.index = m.index /\ c.movie.layout = "none"
        /\ WholeInv(c.files, c.movie) /\ Kept(fs, c.files)
        /\ DOMAIN c.files \subseteq DOMAIN fs
        /\ UpTo(c.files, m.index, frame)
    BY ClosedMovie
  <2> HIDE DEF c
  <2>3. /\ FileMap(gs) /\ FilesInv(gs) /\ Kept(c.files, gs)
        /\ n \in Movies /\ n.index = c.movie.index /\ n.held = <<frame>>
        /\ n.layout # "none"
        /\ WritingInv(gs, n, frame.take)
        /\ \A p \in DOMAIN gs : p \in DOMAIN c.files \/ p[1] = n.index
    <3> DEFINE hs == c.files
               k == c.movie
    <3>1. k.index \in TakeIds /\ UpTo(hs, k.index, frame)
      BY <2>2
    <3>2. FileMap(hs) /\ k \in Movies /\ FilesInv(hs) /\ k.layout = "none" /\ WholeInv(hs, k)
      BY <2>2
    <3>3. gs = NextFiles(hs, k) /\ n = NextMovie(k, frame)
      BY <2>1 DEF NextFiles, NextMovie
    <3> HIDE DEF hs, k
    <3>4. /\ FileMap(NextFiles(hs, k)) /\ FilesInv(NextFiles(hs, k)) /\ Kept(hs, NextFiles(hs, k))
          /\ NextMovie(k, frame) \in Movies /\ NextMovie(k, frame).index = k.index
          /\ NextMovie(k, frame).held = <<frame>>
          /\ NextMovie(k, frame).layout # "none"
          /\ WritingInv(NextFiles(hs, k), NextMovie(k, frame), frame.take)
          /\ \A p \in DOMAIN NextFiles(hs, k) : p \in DOMAIN hs \/ p[1] = k.index
      BY <3>1, <3>2, StartedMovie
    <3> QED  BY <3>3, <3>4 DEF hs, k
  <2>4. Kept(fs, gs)
    BY <2>2, <2>3 DEF Kept
  <2> QED  BY <2>2, <2>3, <2>4 DEF Follows, gs, n
<1>2. CASE m.layout = frame.layout
  <2> DEFINE g == Encoded(fs, m, d)
  <2>1. gs = g /\ n = [m EXCEPT !.held = <<frame>>]
    BY <1>0, <1>2 DEF PushedState
  <2>2. frame.layout # "none"
    BY RecordingAssumption DEF Pictures
  <2>3. SegmentsInv(fs, m) /\ OpenInv(fs, m, frame.take)
    BY <1>2, <2>2 DEF WritingInv
  <2>4. Path(m) \in DOMAIN fs /\ Len(m.held) = 1 /\ ~fs[Path(m)].final
    BY <2>3 DEF OpenInv
  <2>5. DOMAIN g = DOMAIN fs /\ FileMap(g) /\ ~g[Path(m)].final
    BY <2>4, EncodedIs
  <2>6. /\ FilesInv(g) /\ SegmentsInv(g, m) /\ Kept(fs, g) /\ UpTo(g, m.index, frame)
        /\ \A i \in DOMAIN g[Path(m)].frames : g[Path(m)].frames[i].layout = m.layout
    BY <1>2, <2>2, <2>3, EncodedMovie
  <2> HIDE DEF g
  <2>7. n \in Movies /\ n.index = m.index /\ n.number = m.number /\ n.layout = m.layout
        /\ n.held = <<frame>> /\ n.segments = m.segments
    <3>1. <<frame>> \in Seq(Pictures)
      OBVIOUS
    <3> QED  BY <2>1, <3>1 DEF Movies
  <2>8. SegmentsInv(gs, n)
    BY <2>1, <2>6, <2>7 DEF SegmentsInv
  <2>9. OpenInv(gs, n, frame.take)
    <3>1. Path(n) = Path(m)
      BY <2>7 DEF Path
    <3>2. Path(n) \in DOMAIN gs /\ ~gs[Path(n)].final
      BY <2>1, <2>4, <2>5, <3>1
    <3>3. n.held[1] = frame /\ Len(n.held) = 1
      BY <2>7
    <3>4. \A i \in DOMAIN gs[Path(n)].frames : gs[Path(n)].frames[i].layout = n.layout
      BY <2>1, <2>6, <2>7, <3>1
    <3>5. \A p \in DOMAIN gs : \A i \in DOMAIN gs[p].frames :
            p[1] = n.index => Before(gs[p].frames[i], n.held[1])
      BY <2>1, <2>6, <2>7, <3>3 DEF UpTo
    <3> QED  BY <1>2, <2>7, <3>2, <3>3, <3>4, <3>5 DEF OpenInv
  <2>10. WritingInv(gs, n, frame.take)
    BY <1>2, <2>2, <2>7, <2>8, <2>9 DEF WritingInv
  <2> QED  BY <1>2, <2>1, <2>2, <2>5, <2>6, <2>7, <2>10 DEF Follows, gs, n
<1> QED  BY <1>1, <1>2 DEF gs, n


-----------------------------------------------------------------------------
(* Captures on their way *)

(* The four places a capture passes through, laid end to end. *)
LEMMA EndToEnd ==
  ASSUME NEW S, NEW a \in Seq(S), NEW b \in Seq(S), NEW c \in Seq(S), NEW d \in Seq(S)
  PROVE  /\ a \o b \o c \o d \in Seq(S)
         /\ Len(a \o b \o c \o d) = Len(a) + Len(b) + Len(c) + Len(d)
         /\ DOMAIN (a \o b \o c \o d) = 1 .. Len(a) + Len(b) + Len(c) + Len(d)
         /\ \A i \in 1 .. Len(a) + Len(b) + Len(c) + Len(d) :
              (a \o b \o c \o d)[i] =
                IF i <= Len(a) THEN a[i]
                ELSE IF i <= Len(a) + Len(b) THEN b[i - Len(a)]
                ELSE IF i <= Len(a) + Len(b) + Len(c) THEN c[i - Len(a) - Len(b)]
                ELSE d[i - Len(a) - Len(b) - Len(c)]
<1> DEFINE ab == a \o b
           abc == ab \o c
           all == abc \o d
<1>0. Len(a) \in Nat /\ Len(b) \in Nat /\ Len(c) \in Nat /\ Len(d) \in Nat
  BY LenProperties
<1>1. ab \in Seq(S) /\ Len(ab) = Len(a) + Len(b)
      /\ \A i \in 1 .. Len(a) + Len(b) : ab[i] = IF i <= Len(a) THEN a[i] ELSE b[i - Len(a)]
  BY ConcatProperties
<1> HIDE DEF ab
<1>2. abc \in Seq(S) /\ Len(abc) = Len(ab) + Len(c)
      /\ \A i \in 1 .. Len(ab) + Len(c) : abc[i] = IF i <= Len(ab) THEN ab[i] ELSE c[i - Len(ab)]
  <2>1. ab \in Seq(S)
    BY <1>1
  <2> QED  BY <2>1, ConcatProperties
<1> HIDE DEF abc
<1>3. all \in Seq(S) /\ Len(all) = Len(abc) + Len(d)
      /\ \A i \in 1 .. Len(abc) + Len(d) : all[i] = IF i <= Len(abc) THEN abc[i] ELSE d[i - Len(abc)]
  <2>1. abc \in Seq(S)
    BY <1>2
  <2> QED  BY <2>1, ConcatProperties
<1>4. DOMAIN all = 1 .. Len(all)
  BY <1>3
<1> HIDE DEF all
<1>5. ASSUME NEW i \in 1 .. Len(a) + Len(b) + Len(c) + Len(d)
      PROVE  all[i] =
                IF i <= Len(a) THEN a[i]
                ELSE IF i <= Len(a) + Len(b) THEN b[i - Len(a)]
                ELSE IF i <= Len(a) + Len(b) + Len(c) THEN c[i - Len(a) - Len(b)]
                ELSE d[i - Len(a) - Len(b) - Len(c)]
  <2>1. i <= Len(abc) => i \in 1 .. Len(ab) + Len(c)
    BY <1>0, <1>1, <1>2
  <2>2. i <= Len(ab) => i \in 1 .. Len(a) + Len(b)
    BY <1>0, <1>1
  <2>3. i - Len(abc) = i - Len(a) - Len(b) - Len(c) /\ i - Len(ab) = i - Len(a) - Len(b)
        /\ Len(ab) = Len(a) + Len(b) /\ Len(abc) = Len(a) + Len(b) + Len(c)
    BY <1>0, <1>1, <1>2
  <2>4. all[i] = IF i <= Len(abc) THEN abc[i] ELSE d[i - Len(abc)]
    BY <1>0, <1>1, <1>2, <1>3
  <2>5. i <= Len(abc) => abc[i] = IF i <= Len(ab) THEN ab[i] ELSE c[i - Len(ab)]
    BY <2>1, <1>2
  <2>6. i <= Len(ab) => ab[i] = IF i <= Len(a) THEN a[i] ELSE b[i - Len(a)]
    BY <2>2, <1>1
  <2>7. i \in Nat
    BY <1>0
  <2> QED  BY <1>0, <2>3, <2>4, <2>5, <2>6, <2>7
<1> QED  BY <1>0, <1>1, <1>2, <1>3, <1>4, <1>5 DEF ab, abc, all

(* s is what is left of t when something leaves it that was at n (n = 0:   *)
(* no place in particular), in the same order.                             *)
LeftOf(s, t, n) ==
  \E f \in [DOMAIN s -> DOMAIN t] :
    /\ \A i, j \in DOMAIN s : i < j => f[i] < f[j]
    /\ \A i \in DOMAIN s : s[i] = t[f[i]] /\ f[i] # n

LEMMA WithoutOldest ==
  ASSUME NEW S, NEW a \in Seq(S), NEW b \in Seq(S), NEW c \in Seq(S), NEW d \in Seq(S),
         c # <<>>
  PROVE  LeftOf(a \o b \o Tail(c) \o d, a \o b \o c \o d, Len(a) + Len(b) + 1)
<1> DEFINE n == Len(a) + Len(b) + 1
           t == a \o b \o c \o d
           s == a \o b \o Tail(c) \o d
           f == [i \in DOMAIN s |-> IF i < n THEN i ELSE i + 1]
<1>0. Len(a) \in Nat /\ Len(b) \in Nat /\ Len(c) \in Nat /\ Len(d) \in Nat
  BY LenProperties
<1>1. Tail(c) \in Seq(S) /\ Len(Tail(c)) = Len(c) - 1 /\ Len(c) >= 1
      /\ \A i \in 1 .. Len(c) - 1 : Tail(c)[i] = c[i + 1]
  <2>1. Tail(c) \in Seq(S) /\ Len(Tail(c)) = Len(c) - 1
        /\ \A i \in 1 .. Len(Tail(c)) : Tail(c)[i] = c[i + 1]
    BY HeadTailProperties
  <2>2. Len(c) >= 1
    BY <1>0, EmptySeq
  <2> QED  BY <2>1, <2>2
<1> DEFINE k == Tail(c)
<1> HIDE DEF k
<1>2. k \in Seq(S) /\ Len(k) = Len(c) - 1 /\ \A i \in 1 .. Len(c) - 1 : k[i] = c[i + 1]
  BY <1>1 DEF k
<1>3. /\ DOMAIN s = 1 .. Len(a) + Len(b) + Len(k) + Len(d)
      /\ \A i \in 1 .. Len(a) + Len(b) + Len(k) + Len(d) :
              s[i] =
                IF i <= Len(a) THEN a[i]
                ELSE IF i <= Len(a) + Len(b) THEN b[i - Len(a)]
                ELSE IF i <= Len(a) + Len(b) + Len(k) THEN k[i - Len(a) - Len(b)]
                ELSE d[i - Len(a) - Len(b) - Len(k)]
  BY <1>2, EndToEnd, SMTT(40) DEF k
<1>4. /\ DOMAIN t = 1 .. Len(a) + Len(b) + Len(c) + Len(d)
      /\ \A i \in 1 .. Len(a) + Len(b) + Len(c) + Len(d) :
              t[i] =
                IF i <= Len(a) THEN a[i]
                ELSE IF i <= Len(a) + Len(b) THEN b[i - Len(a)]
                ELSE IF i <= Len(a) + Len(b) + Len(c) THEN c[i - Len(a) - Len(b)]
                ELSE d[i - Len(a) - Len(b) - Len(c)]
  BY EndToEnd, SMTT(40)
<1> HIDE DEF s, t
<1>5. f \in [DOMAIN s -> DOMAIN t]
  BY <1>0, <1>1, <1>2, <1>3, <1>4
<1>6. \A i, j \in DOMAIN s : i < j => f[i] < f[j]
  BY <1>0, <1>2, <1>3
<1>7. ASSUME NEW i \in DOMAIN s PROVE s[i] = t[f[i]] /\ f[i] # n
  <2>1. i \in Nat /\ i >= 1 /\ i <= Len(a) + Len(b) + Len(c) - 1 + Len(d)
    BY <1>0, <1>1, <1>2, <1>3
  <2>2. CASE i < n
    <3>1. f[i] = i /\ i <= Len(a) + Len(b)
      BY <1>0, <2>1, <2>2
    <3>2. s[i] = IF i <= Len(a) THEN a[i] ELSE b[i - Len(a)]
      BY <1>0, <1>2, <1>3, <2>1, <3>1
    <3>3. t[i] = IF i <= Len(a) THEN a[i] ELSE b[i - Len(a)]
      BY <1>0, <1>4, <2>1, <3>1
    <3> QED  BY <2>2, <3>1, <3>2, <3>3, <1>0, <2>1
  <2>3. CASE ~(i < n)
    <3>1. f[i] = i + 1 /\ i >= n
      BY <1>0, <2>1, <2>3
    <3>2. CASE i <= Len(a) + Len(b) + Len(k)
      <4>0. /\ ~(i <= Len(a)) /\ ~(i <= Len(a) + Len(b))
            /\ ~(i + 1 <= Len(a)) /\ ~(i + 1 <= Len(a) + Len(b))
            /\ i + 1 <= Len(a) + Len(b) + Len(c)
            /\ i + 1 \in 1 .. Len(a) + Len(b) + Len(c) + Len(d)
        BY <1>0, <1>2, <2>1, <3>1, <3>2
      <4>1. s[i] = k[i - Len(a) - Len(b)]
        BY <1>3, <3>2, <4>0
      <4>2. t[i + 1] = c[(i + 1) - Len(a) - Len(b)]
        <5> DEFINE j == i + 1
        <5>1. /\ ~(j <= Len(a)) /\ ~(j <= Len(a) + Len(b)) /\ j <= Len(a) + Len(b) + Len(c)
              /\ j \in 1 .. Len(a) + Len(b) + Len(c) + Len(d)
          BY <4>0
        <5> HIDE DEF j
        <5>2. t[j] = c[j - Len(a) - Len(b)]
          BY <1>4, <5>1
        <5> QED  BY <5>2 DEF j
      <4>3. i - Len(a) - Len(b) \in 1 .. Len(c) - 1
            /\ i - Len(a) - Len(b) + 1 = (i + 1) - Len(a) - Len(b) /\ i + 1 # n
        BY <1>0, <1>2, <2>1, <3>1, <3>2, SMTT(40)
      <4>4. k[i - Len(a) - Len(b)] = c[i - Len(a) - Len(b) + 1]
        BY <1>2, <4>3
      <4> QED  BY <4>1, <4>2, <4>3, <4>4, <3>1
    <3>3. CASE ~(i <= Len(a) + Len(b) + Len(k))
      <4>0. /\ ~(i <= Len(a)) /\ ~(i <= Len(a) + Len(b))
            /\ ~(i + 1 <= Len(a)) /\ ~(i + 1 <= Len(a) + Len(b))
            /\ ~(i + 1 <= Len(a) + Len(b) + Len(c))
            /\ i + 1 \in 1 .. Len(a) + Len(b) + Len(c) + Len(d)
        BY <1>0, <1>2, <2>1, <3>1, <3>3
      <4>1. s[i] = d[i - Len(a) - Len(b) - Len(k)]
        BY <1>3, <3>3, <4>0
      <4>2. t[i + 1] = d[(i + 1) - Len(a) - Len(b) - Len(c)]
        <5> DEFINE j == i + 1
        <5>1. /\ ~(j <= Len(a)) /\ ~(j <= Len(a) + Len(b)) /\ ~(j <= Len(a) + Len(b) + Len(c))
              /\ j \in 1 .. Len(a) + Len(b) + Len(c) + Len(d)
          BY <4>0
        <5> HIDE DEF j
        <5>2. t[j] = d[j - Len(a) - Len(b) - Len(c)]
          BY <1>4, <5>1
        <5> QED  BY <5>2 DEF j
      <4>3. i - Len(a) - Len(b) - Len(k) = (i + 1) - Len(a) - Len(b) - Len(c)
        BY <1>0, <1>2, <2>1
      <4> QED  BY <4>1, <4>2, <4>3, <1>0, <2>1, <3>1, SMTT(40)
    <3> QED  BY <3>2, <3>3
  <2> QED  BY <2>2, <2>3
<1> HIDE DEF f
<1> QED  BY <1>5, <1>6, <1>7 DEF LeftOf, s, t, k

(* Without what came first of all. *)
LEMMA WithoutFront ==
  ASSUME NEW S, NEW a \in Seq(S), NEW b \in Seq(S), NEW c \in Seq(S), NEW d \in Seq(S),
         NEW n \in 0 .. Len(a)
  PROVE  /\ LeftOf(<<>> \o <<>> \o c \o d, a \o b \o c \o d, n)
         /\ LeftOf(<<>> \o b \o c \o d, a \o b \o c \o d, n)
<1>0. /\ Len(a) \in Nat /\ Len(b) \in Nat /\ Len(c) \in Nat /\ Len(d) \in Nat
      /\ n \in Nat /\ n <= Len(a)
  <2>1. Len(a) \in Nat /\ Len(b) \in Nat /\ Len(c) \in Nat /\ Len(d) \in Nat
    BY LenProperties
  <2> QED  BY <2>1
<1> DEFINE t == a \o b \o c \o d
           e == <<>>
<1>1. e \in Seq(S) /\ Len(e) = 0
  BY EmptySeq
<1>2. /\ DOMAIN t = 1 .. Len(a) + Len(b) + Len(c) + Len(d)
      /\ \A i \in 1 .. Len(a) + Len(b) + Len(c) + Len(d) :
              t[i] =
                IF i <= Len(a) THEN a[i]
                ELSE IF i <= Len(a) + Len(b) THEN b[i - Len(a)]
                ELSE IF i <= Len(a) + Len(b) + Len(c) THEN c[i - Len(a) - Len(b)]
                ELSE d[i - Len(a) - Len(b) - Len(c)]
  BY EndToEnd, SMTT(40)
<1> HIDE DEF t, e
<1>3. LeftOf(e \o e \o c \o d, t, n)
  <2> DEFINE s == e \o e \o c \o d
             f == [i \in DOMAIN s |-> i + Len(a) + Len(b)]
  <2>1. /\ DOMAIN s = 1 .. Len(e) + Len(e) + Len(c) + Len(d)
        /\ \A i \in 1 .. Len(e) + Len(e) + Len(c) + Len(d) :
              s[i] =
                IF i <= Len(e) THEN e[i]
                ELSE IF i <= Len(e) + Len(e) THEN e[i - Len(e)]
                ELSE IF i <= Len(e) + Len(e) + Len(c) THEN c[i - Len(e) - Len(e)]
                ELSE d[i - Len(e) - Len(e) - Len(c)]
    BY <1>1, EndToEnd
  <2> HIDE DEF s
  <2>2. f \in [DOMAIN s -> DOMAIN t] /\ \A i, j \in DOMAIN s : i < j => f[i] < f[j]
    BY <1>0, <1>1, <1>2, <2>1, SMTT(40)
  <2>3. ASSUME NEW i \in DOMAIN s PROVE s[i] = t[f[i]] /\ f[i] # n
    <3>1. i \in Nat /\ i >= 1 /\ i <= Len(c) + Len(d) /\ i \in 1 .. Len(c) + Len(d)
      BY <1>0, <1>1, <2>1
    <3>2. s[i] = IF i <= Len(c) THEN c[i] ELSE d[i - Len(c)]
      BY <1>0, <1>1, <2>1, <3>1
    <3> DEFINE j == i + Len(a) + Len(b)
    <3>3. j \in 1 .. Len(a) + Len(b) + Len(c) + Len(d) /\ ~(j <= Len(a) + Len(b)) /\ ~(j <= Len(a))
          /\ j - Len(a) - Len(b) = i /\ j - Len(a) - Len(b) - Len(c) = i - Len(c)
          /\ (j <= Len(a) + Len(b) + Len(c) <=> i <= Len(c)) /\ j # n
      <4>1. j > Len(a) /\ j > Len(a) + Len(b) /\ j <= Len(a) + Len(b) + Len(c) + Len(d)
        BY <1>0, <3>1
      <4>2. j - Len(a) - Len(b) = i /\ j - Len(a) - Len(b) - Len(c) = i - Len(c)
        BY <1>0, <3>1
      <4>3. j <= Len(a) + Len(b) + Len(c) <=> i <= Len(c)
        BY <1>0, <3>1
      <4>4. j \in Nat
        BY <1>0, <3>1
      <4> HIDE DEF j
      <4> QED  BY <4>1, <4>2, <4>3, <4>4, <1>0
    <3>4. f[i] = j
      OBVIOUS
    <3> HIDE DEF j, f
    <3>5. t[j] = IF i <= Len(c) THEN c[i] ELSE d[i - Len(c)]
      BY <1>2, <3>3
    <3> QED  BY <3>2, <3>3, <3>4, <3>5
  <2> HIDE DEF f
  <2> QED  BY <2>2, <2>3 DEF LeftOf, s
<1>4. LeftOf(e \o b \o c \o d, t, n)
  <2> DEFINE s == e \o b \o c \o d
             f == [i \in DOMAIN s |-> i + Len(a)]
  <2>1. /\ DOMAIN s = 1 .. Len(e) + Len(b) + Len(c) + Len(d)
        /\ \A i \in 1 .. Len(e) + Len(b) + Len(c) + Len(d) :
              s[i] =
                IF i <= Len(e) THEN e[i]
                ELSE IF i <= Len(e) + Len(b) THEN b[i - Len(e)]
                ELSE IF i <= Len(e) + Len(b) + Len(c) THEN c[i - Len(e) - Len(b)]
                ELSE d[i - Len(e) - Len(b) - Len(c)]
    BY <1>1, EndToEnd
  <2> HIDE DEF s
  <2>2. f \in [DOMAIN s -> DOMAIN t] /\ \A i, j \in DOMAIN s : i < j => f[i] < f[j]
    BY <1>0, <1>1, <1>2, <2>1
  <2>3. ASSUME NEW i \in DOMAIN s PROVE s[i] = t[f[i]] /\ f[i] # n
    <3>1. i \in Nat /\ i >= 1 /\ i <= Len(b) + Len(c) + Len(d) /\ i \in 1 .. Len(b) + Len(c) + Len(d)
      BY <1>0, <1>1, <2>1
    <3>2. s[i] = IF i <= Len(b) THEN b[i] ELSE IF i <= Len(b) + Len(c) THEN c[i - Len(b)]
                 ELSE d[i - Len(b) - Len(c)]
      BY <1>0, <1>1, <2>1, <3>1
    <3> DEFINE j == i + Len(a)
    <3>3. j \in 1 .. Len(a) + Len(b) + Len(c) + Len(d) /\ ~(j <= Len(a))
          /\ j - Len(a) = i /\ j - Len(a) - Len(b) = i - Len(b)
          /\ j - Len(a) - Len(b) - Len(c) = i - Len(b) - Len(c)
          /\ (j <= Len(a) + Len(b) <=> i <= Len(b))
          /\ (j <= Len(a) + Len(b) + Len(c) <=> i <= Len(b) + Len(c)) /\ j # n
      BY <1>0, <3>1, SMTT(40)
    <3>4. f[i] = j
      OBVIOUS
    <3> HIDE DEF j, f
    <3>5. t[j] = IF i <= Len(b) THEN b[i] ELSE IF i <= Len(b) + Len(c) THEN c[i - Len(b)]
                 ELSE d[i - Len(b) - Len(c)]
      BY <1>2, <3>3
    <3> QED  BY <3>2, <3>3, <3>4, <3>5
  <2> HIDE DEF f
  <2> QED  BY <2>2, <2>3 DEF LeftOf, s
<1> QED  BY <1>3, <1>4 DEF t, e


-----------------------------------------------------------------------------
(* Staging pools *)

StagingPools == [free : Seq(1 .. PoolLimit), held : Seq(Pictures)]

(* One pool in order: what is free exists, once. *)
PoolInv(pool) ==
  /\ Len(pool.held) <= PoolLimit
  /\ \A i \in DOMAIN pool.free : pool.free[i] \in DOMAIN pool.held
  /\ \A i, j \in DOMAIN pool.free : pool.free[i] = pool.free[j] => i = j

LEMMA PoolTypes ==
  ASSUME TypeOK, PoolsInv
  PROVE  /\ pools \in Seq(StagingPools) /\ Len(pools) \in Nat /\ DOMAIN pools = 1 .. Len(pools)
         /\ \A p \in DOMAIN pools : pools[p] \in StagingPools /\ PoolInv(pools[p])
<1>1. pools \in Seq(StagingPools)
  BY DEF TypeOK, StagingPools
<1>2. Len(pools) \in Nat /\ DOMAIN pools = 1 .. Len(pools)
  BY <1>1
<1>3. \A p \in DOMAIN pools : pools[p] \in StagingPools
  BY <1>1, ElementOfSeq, <1>2
<1>4. \A p \in DOMAIN pools : PoolInv(pools[p])
  BY DEF TypeOK, PoolsInv, PoolInv
<1> QED  BY <1>1, <1>2, <1>3, <1>4

(* The pool of a layout exists once it is asked for, and is new or one of  *)
(* those there were.                                                       *)
LEMMA MadePools ==
  ASSUME TypeOK, PoolsInv, NEW p \in 1 .. Len(pools) + 1
  PROVE  /\ WithPool(p) \in Seq(StagingPools) /\ p \in DOMAIN WithPool(p)
         /\ Len(WithPool(p)) \in Nat /\ Len(WithPool(p)) >= Len(pools)
         /\ DOMAIN pools \subseteq DOMAIN WithPool(p)
         /\ \A x \in DOMAIN pools : WithPool(p)[x] = pools[x]
         /\ \A x \in DOMAIN WithPool(p) :
              WithPool(p)[x] \in StagingPools /\ PoolInv(WithPool(p)[x])
<1>1. /\ pools \in Seq(StagingPools) /\ Len(pools) \in Nat /\ DOMAIN pools = 1 .. Len(pools)
      /\ \A x \in DOMAIN pools : pools[x] \in StagingPools /\ PoolInv(pools[x])
  BY PoolTypes
<1>2. CASE p > Len(pools)
  <2> DEFINE new == [free |-> <<>>, held |-> <<>>]
             made == Append(pools, new)
  <2>1. WithPool(p) = made
    BY <1>2 DEF WithPool
  <2>2. new \in StagingPools /\ PoolInv(new)
    <3>1. new.free = <<>> /\ new.held = <<>> /\ DOMAIN new.free = {} /\ Len(new.held) = 0
      OBVIOUS
    <3>2. <<>> \in Seq(1 .. PoolLimit) /\ <<>> \in Seq(Pictures)
      BY EmptySeq
    <3>3. 0 <= PoolLimit
      BY RecordingAssumption
    <3>4. new \in StagingPools
      BY <3>2 DEF StagingPools
    <3> HIDE DEF new
    <3> QED  BY <3>1, <3>3, <3>4 DEF PoolInv
  <2> HIDE DEF new
  <2>3. made \in Seq(StagingPools) /\ Len(made) = Len(pools) + 1
        /\ DOMAIN made = 1 .. Len(pools) + 1
        /\ (\A x \in 1 .. Len(pools) : made[x] = pools[x]) /\ made[Len(pools) + 1] = new
    BY <1>1, <2>2, AppendProperties
  <2> HIDE DEF made
  <2> QED  BY <1>1, <1>2, <2>1, <2>2, <2>3
<1>3. CASE ~(p > Len(pools))
  <2>1. WithPool(p) = pools
    BY <1>3 DEF WithPool
  <2>2. p \in DOMAIN pools
    BY <1>1, <1>3
  <2> QED  BY <1>1, <2>1, <2>2
<1> QED  BY <1>2, <1>3

(* A buffer that is acquired was free or is new, and the copy into it      *)
(* changes no other buffer.                                                *)
LEMMA FilledPool ==
  ASSUME NEW pool \in StagingPools, PoolInv(pool), NEW frame \in Pictures,
         NEW b, b = Acquired(pool), b # 0
  PROVE  /\ b \in 1 .. PoolLimit
         /\ Filled(pool, b, frame) \in StagingPools /\ PoolInv(Filled(pool, b, frame))
         /\ b \in DOMAIN Filled(pool, b, frame).held
         /\ Filled(pool, b, frame).held[b] = frame
         /\ \A x \in DOMAIN pool.held :
              /\ x \in DOMAIN Filled(pool, b, frame).held
              /\ x # b => Filled(pool, b, frame).held[x] = pool.held[x]
         /\ ToSet(Filled(pool, b, frame).free) \subseteq ToSet(pool.free) \ {b}
         /\ b \in DOMAIN pool.held => b \in ToSet(pool.free)
<1> DEFINE free == pool.free
           held == pool.held
<1>1. free \in Seq(1 .. PoolLimit) /\ held \in Seq(Pictures)
  BY DEF StagingPools
<1>2. /\ DOMAIN free = 1 .. Len(free) /\ Len(free) \in Nat
      /\ DOMAIN held = 1 .. Len(held) /\ Len(held) \in Nat
  BY <1>1
<1>3. /\ Len(held) <= PoolLimit /\ PoolLimit \in Nat \ {0}
      /\ \A i \in DOMAIN free : free[i] \in DOMAIN held
      /\ \A i, j \in DOMAIN free : free[i] = free[j] => i = j
  BY RecordingAssumption DEF PoolInv
<1>0. \A i \in DOMAIN free : free[i] \in 1 .. PoolLimit
  <2> HIDE DEF free
  <2> QED  BY <1>1, ElementOfSeq, <1>2
<1>4. CASE free # <<>>
  <2> DEFINE front == SubSeq(free, 1, Len(free) - 1)
             new == [held EXCEPT ![b] = frame]
             full == [free |-> front, held |-> new]
  <2>1. Len(free) >= 1
    BY <1>1, <1>2, <1>4, EmptySeq
  <2>2. b = free[Len(free)] /\ Len(free) \in DOMAIN free
    BY <1>2, <1>4, <2>1 DEF Acquired, Last
  <2>3. b \in DOMAIN held /\ b \in ToSet(free)
    BY <1>3, <2>2 DEF ToSet
  <2>4. Filled(pool, b, frame) = full
    BY <2>3 DEF Filled, Front
  <2>5. front \in Seq(1 .. PoolLimit) /\ Len(front) = Len(free) - 1
        /\ DOMAIN front = 1 .. Len(free) - 1
        /\ \A i \in 1 .. Len(free) - 1 : front[i] = free[i]
    <3>1. 1 \in 1 .. Len(free) + 1 /\ Len(free) - 1 \in 0 .. Len(free)
      BY <1>2, <2>1
    <3>2. front \in Seq(1 .. PoolLimit)
      <4> HIDE DEF free
      <4>1. \A i \in 1 .. Len(free) - 1 : free[i] \in 1 .. PoolLimit
        BY <1>2, <1>0
      <4>2. 1 \in Int /\ Len(free) - 1 \in Int
        BY <1>2
      <4> QED  BY <4>1, <4>2, SubSeqProperties
    <3>3. Len(front) = Len(free) - 1
      BY <1>1, <1>2, <2>1
    <3>4. \A i \in 1 .. Len(free) - 1 : front[i] = free[i]
      BY <1>1, <1>2, <2>1
    <3>5. DOMAIN front = 1 .. Len(front)
      BY <3>2
    <3> HIDE DEF front
    <3> QED  BY <3>2, <3>3, <3>4, <3>5
  <2>6. new \in Seq(Pictures) /\ Len(new) = Len(held) /\ DOMAIN new = DOMAIN held
        /\ new[b] = frame /\ \A x \in DOMAIN held : x # b => new[x] = held[x]
    BY <1>1, <1>2, <2>3
  <2> HIDE DEF front, new
  <2>7. full \in StagingPools /\ full.free = front /\ full.held = new
    BY <2>5, <2>6 DEF StagingPools
  <2> HIDE DEF full
  <2>8. PoolInv(full)
    <3>1. \A i \in DOMAIN front : i \in DOMAIN free /\ front[i] = free[i]
      BY <1>2, <2>5
    <3> QED  BY <1>3, <2>6, <2>7, <3>1 DEF PoolInv
  <2>9. ToSet(full.free) \subseteq ToSet(free) \ {b}
    <3>1. ASSUME NEW i \in DOMAIN front PROVE front[i] \in ToSet(free) /\ front[i] # b
      <4>1. i \in DOMAIN free /\ front[i] = free[i] /\ i # Len(free)
        BY <1>2, <2>5
      <4> QED  BY <4>1, <1>3, <2>2 DEF ToSet
    <3> QED  BY <3>1, <2>7 DEF ToSet
  <2>10. b \in 1 .. PoolLimit
    BY <1>0, <2>2
  <2> QED  BY <2>3, <2>4, <2>6, <2>7, <2>8, <2>9, <2>10
<1>5. CASE free = <<>>
  <2> DEFINE new == Append(held, frame)
             full == [pool EXCEPT !.held = Append(@, frame)]
  <2>1. b = Len(held) + 1 /\ Len(held) < PoolLimit
    BY <1>2, <1>3, <1>5 DEF Acquired
  <2>2. b \notin DOMAIN held
    BY <1>2, <2>1
  <2>3. Filled(pool, b, frame) = full
    BY <2>2 DEF Filled
  <2>4. new \in Seq(Pictures) /\ Len(new) = Len(held) + 1 /\ DOMAIN new = 1 .. Len(held) + 1
        /\ (\A i \in 1 .. Len(held) : new[i] = held[i]) /\ new[Len(held) + 1] = frame
    BY <1>1, AppendProperties
  <2>5. full \in StagingPools /\ full.free = free /\ full.held = new
    BY <2>4 DEF StagingPools
  <2> HIDE DEF full, new
  <2>6. PoolInv(full)
    <3>1. Len(new) <= PoolLimit
      BY <1>2, <1>3, <2>1, <2>4
    <3>2. DOMAIN free = {}
      BY <1>5
    <3> QED  BY <2>5, <3>1, <3>2 DEF PoolInv
  <2>7. ToSet(full.free) = {}
    <3>1. DOMAIN free = {}
      BY <1>5
    <3> QED  BY <2>5, <3>1 DEF ToSet
  <2>8. b \in 1 .. PoolLimit /\ b \in DOMAIN new /\ new[b] = frame
    BY <1>2, <1>3, <2>1, <2>4
  <2>9. \A x \in DOMAIN held : x \in DOMAIN new /\ new[x] = held[x]
    BY <1>2, <2>4
  <2> QED  BY <2>2, <2>3, <2>5, <2>6, <2>7, <2>8, <2>9
<1> QED  BY <1>4, <1>5

(* A buffer that goes back to its pool changes nothing else. *)
LEMMA ReleasedPools ==
  ASSUME TypeOK, PoolsInv, NEW e \in Captures, e.pool \in DOMAIN pools
  PROVE  /\ Released(e) \in Seq(StagingPools) /\ DOMAIN Released(e) = DOMAIN pools
         /\ Len(Released(e)) = Len(pools)
         /\ \A p \in DOMAIN pools : Released(e)[p].held = pools[p].held
         /\ \A p \in DOMAIN pools : p # e.pool => Released(e)[p] = pools[p]
         /\ Released(e)[e.pool].free = Append(pools[e.pool].free, e.buffer)
         /\ ToSet(Released(e)[e.pool].free) = ToSet(pools[e.pool].free) \cup {e.buffer}
<1>1. /\ pools \in Seq(StagingPools) /\ Len(pools) \in Nat /\ DOMAIN pools = 1 .. Len(pools)
      /\ \A x \in DOMAIN pools : pools[x] \in StagingPools /\ PoolInv(pools[x])
  BY PoolTypes
<1> DEFINE pool == pools[e.pool]
           free == Append(pool.free, e.buffer)
           back == [pool EXCEPT !.free = Append(@, e.buffer)]
<1>2. pool \in StagingPools /\ pool.free \in Seq(1 .. PoolLimit) /\ e.buffer \in 1 .. PoolLimit
  BY <1>1 DEF StagingPools, Captures
<1>3. free \in Seq(1 .. PoolLimit)
  BY <1>2, AppendProperties
<1>4. back \in StagingPools /\ back.free = free /\ back.held = pool.held
  <2> HIDE DEF pool
  <2> QED  BY <1>2, <1>3 DEF StagingPools
<1>5. Released(e) = [pools EXCEPT ![e.pool] = back]
  BY DEF Released
<1> HIDE DEF back
<1>6. Released(e) \in Seq(StagingPools) /\ DOMAIN Released(e) = DOMAIN pools
      /\ Len(Released(e)) = Len(pools)
      /\ Released(e)[e.pool] = back /\ \A p \in DOMAIN pools : p # e.pool => Released(e)[p] = pools[p]
  BY <1>1, <1>4, <1>5
<1>7. ToSet(free) = ToSet(pool.free) \cup {e.buffer}
  <2> DEFINE s == pool.free
  <2>1. s \in Seq(1 .. PoolLimit)
    BY <1>2
  <2> HIDE DEF s
  <2>2. /\ DOMAIN s = 1 .. Len(s) /\ Len(s) \in Nat
        /\ DOMAIN Append(s, e.buffer) = 1 .. Len(s) + 1
        /\ \A i \in 1 .. Len(s) : Append(s, e.buffer)[i] = s[i]
        /\ Append(s, e.buffer)[Len(s) + 1] = e.buffer
    BY <1>2, <2>1, AppendProperties
  <2>3. ToSet(Append(s, e.buffer)) = ToSet(s) \cup {e.buffer}
    BY <2>2 DEF ToSet
  <2> QED  BY <2>3 DEF s
<1> QED  BY <1>4, <1>6, <1>7


-----------------------------------------------------------------------------
(* The application's steps *)

UiRecords ==
  [phase : {"running", "quitting", "gone"}, recorder : TakeIds \cup {NoTake},
   stopAsked : BOOLEAN, session : BOOLEAN, sessions : 0 .. MaxSessions, started : 0 .. MaxTakes]
TakeRecords ==
  [stopping : BOOLEAN, finished : BOOLEAN, failed : BOOLEAN,
   latest : 0 .. MaxPictures, dropped : Nat]
TapRecords(n) ==
  [take : TakeIds \cup {NoTake}, layout : Layouts \cup {"none"}, pool : 0 .. n,
   awaiting : BOOLEAN, pending : Seq(Captures)]
ThreadRecords ==
  [take : TakeIds \cup {NoTake}, quiet : {"no", "before", "since"},
   state : {"none", "receiving", "pushing", "finishing", "done"}, inHand : Seq(Captures)]
ScreenRecords == [picture : 0 .. MaxPictures, layout : Layouts \cup {"none"}]

(* The type invariant, variable by variable. *)
Typed ==
  /\ ui \in UiRecords /\ screen \in ScreenRecords /\ presented \in BOOLEAN
  /\ control \in TakeIds \cup {NoTake}
  /\ takes \in [TakeIds -> TakeRecords]
  /\ tap \in TapRecords(Len(pools))
  /\ pools \in Seq(StagingPools)
  /\ \A p \in DOMAIN pools : Len(pools[p].held) <= PoolLimit
  /\ mapping \in Seq(Captures) /\ channel \in Seq(Captures)
  /\ thread \in ThreadRecords /\ movie \in Movies /\ FileMap(files)
  /\ faults \in 0 .. MaxFaults

LEMMA Types == (TypeOK => Typed) /\ (Typed' => TypeOK')
BY DEF Typed, TypeOK, UiRecords, TakeRecords, TapRecords, ThreadRecords, ScreenRecords,
       StagingPools, Movies, FileMap

(* A request to stop changes nothing but that the published take stops. *)
LEMMA StopOnlyStops ==
  ASSUME TypeOK
  PROVE  /\ RequestStop \in [TakeIds -> TakeRecords]
         /\ \A t \in TakeIds :
              /\ RequestStop[t].latest = takes[t].latest /\ RequestStop[t].dropped = takes[t].dropped
              /\ RequestStop[t].finished = takes[t].finished /\ RequestStop[t].failed = takes[t].failed
              /\ RequestStop[t].stopping = (takes[t].stopping \/ t = control)
              /\ t # control => RequestStop[t] = takes[t]
<1>1. takes \in [TakeIds -> TakeRecords] /\ control \in TakeIds \cup {NoTake} /\ NoTake \notin TakeIds
  BY Types DEF Typed, NoTake, TakeIds
<1>2. CASE control = NoTake
  <2>1. RequestStop = takes
    BY <1>2 DEF RequestStop
  <2>2. \A t \in TakeIds : t # control /\ takes[t].stopping \in BOOLEAN
    BY <1>1, <1>2 DEF TakeRecords
  <2> QED  BY <2>1, <2>2, <1>1
<1>3. CASE control # NoTake
  <2>1. control \in TakeIds
    BY <1>1, <1>3
  <2> DEFINE stopped == [takes[control] EXCEPT !.stopping = TRUE]
  <2>2. RequestStop = [takes EXCEPT ![control] = stopped]
    BY <1>3 DEF RequestStop
  <2>3. takes[control] \in TakeRecords
    BY <1>1, <2>1
  <2>4. stopped \in TakeRecords /\ stopped.stopping = TRUE
        /\ stopped.latest = takes[control].latest /\ stopped.dropped = takes[control].dropped
        /\ stopped.finished = takes[control].finished /\ stopped.failed = takes[control].failed
    BY <2>3 DEF TakeRecords
  <2> HIDE DEF stopped
  <2>5. RequestStop \in [TakeIds -> TakeRecords]
    BY <1>1, <2>2, <2>4
  <2>6. \A t \in TakeIds : t # control => RequestStop[t] = takes[t]
    BY <1>1, <2>2
  <2>7. RequestStop[control] = stopped
    BY <1>1, <2>1, <2>2
  <2>8. \A t \in TakeIds : takes[t].stopping \in BOOLEAN
    BY <1>1 DEF TakeRecords
  <2> QED  BY <2>4, <2>5, <2>6, <2>7, <2>8
<1> QED  BY <1>2, <1>3

(* What the application does besides starting a take and leaving: the      *)
(* published take may be asked to stop, and nothing else of a take, a      *)
(* buffer, the thread or a file is touched.                                *)
UiStep ==
  StartRefused \/ StopRecording \/ Poll \/ OpenSession \/ CloseSession \/ Quit

LEMMA UiSteps ==
  ASSUME TypeOK, UiStep
  PROVE  /\ UNCHANGED <<tap, pools, mapping, channel, thread, movie, files>>
         /\ takes' = takes \/ takes' = RequestStop
         /\ takes' \in [TakeIds -> TakeRecords]
         /\ \A t \in TakeIds :
              /\ takes'[t].latest = takes[t].latest /\ takes'[t].dropped = takes[t].dropped
              /\ takes'[t].finished = takes[t].finished /\ takes'[t].failed = takes[t].failed
              /\ takes[t].stopping => takes'[t].stopping
              /\ t # control => takes'[t] = takes[t]
         /\ control' = control \/ (control' = NoTake /\ ui.recorder = NoTake)
         /\ ui'.started \in {ui.started, ui.started + 1}
<1>1. UNCHANGED <<tap, pools, mapping, channel, thread, movie, files>>
  BY DEF UiStep, StartRefused, StopRecording, Poll, OpenSession, CloseSession, Quit, threadVars,
         rendererVars, gpuVars
<1>2. takes' = takes \/ takes' = RequestStop
  BY DEF UiStep, StartRefused, StopRecording, Poll, OpenSession, CloseSession, Quit, Disconnect
<1>3. /\ takes \in [TakeIds -> TakeRecords]
      /\ \A t \in TakeIds : takes[t].stopping \in BOOLEAN
  BY Types DEF Typed, TakeRecords
<1>4. /\ takes' \in [TakeIds -> TakeRecords]
      /\ \A t \in TakeIds :
              /\ takes'[t].latest = takes[t].latest /\ takes'[t].dropped = takes[t].dropped
              /\ takes'[t].finished = takes[t].finished /\ takes'[t].failed = takes[t].failed
              /\ takes[t].stopping => takes'[t].stopping
              /\ t # control => takes'[t] = takes[t]
  <2>1. CASE takes' = takes
    BY <2>1, <1>3
  <2>2. CASE takes' = RequestStop
    BY <2>2, <1>3, StopOnlyStops
  <2> QED  BY <1>2, <2>1, <2>2
<1>5. control' = control \/ (control' = NoTake /\ ui.recorder = NoTake)
  BY DEF UiStep, StartRefused, StopRecording, Poll, OpenSession, CloseSession, Quit
<1>6. ui \in UiRecords
  BY Types DEF Typed
<1>7. ui'.started \in {ui.started, ui.started + 1}
  <2>1. CASE StartRefused
    BY <2>1, <1>6 DEF StartRefused, UiRecords
  <2>2. CASE StopRecording \/ Poll
    BY <2>2, <1>6 DEF StopRecording, Poll, UiRecords
  <2>3. CASE OpenSession \/ CloseSession \/ Quit
    BY <2>3, <1>6 DEF OpenSession, CloseSession, Quit, Disconnect, UiRecords
  <2> QED  BY <2>1, <2>2, <2>3 DEF UiStep
<1> QED  BY <1>1, <1>2, <1>4, <1>5, <1>7

(* The types of what such a step changes. *)
LEMMA UiTypes ==
  ASSUME TypeOK, UiStep
  PROVE  TypeOK'
<1>1. /\ ui \in UiRecords /\ screen \in ScreenRecords /\ presented \in BOOLEAN
      /\ control \in TakeIds \cup {NoTake} /\ faults \in 0 .. MaxFaults
  BY Types DEF Typed
<1>2. MaxTakes \in Nat /\ MaxFaults \in Nat /\ MaxSessions \in Nat /\ MaxPictures \in Nat
  BY RecordingAssumption
<1>3. Nothing \in ScreenRecords
  BY <1>2 DEF Nothing, ScreenRecords
<1>4. /\ ui' \in UiRecords /\ screen' \in ScreenRecords /\ presented' \in BOOLEAN
      /\ control' \in TakeIds \cup {NoTake} /\ faults' \in 0 .. MaxFaults
  <2>1. CASE StartRefused
    <3>1. ui' = [ui EXCEPT !.started = @ + 1] /\ ui.started < MaxTakes /\ faults < MaxFaults
          /\ faults' = faults + 1 /\ control' = NoTake /\ screen' = screen /\ presented' = presented
      BY <2>1 DEF StartRefused, rendererVars
    <3>2. ui' \in UiRecords
      BY <1>1, <1>2, <3>1 DEF UiRecords
    <3>3. faults' \in 0 .. MaxFaults
      BY <1>1, <1>2, <3>1
    <3> QED  BY <1>1, <3>1, <3>2, <3>3
  <2>2. CASE StopRecording \/ Poll
    <3>1. ui' \in UiRecords
      BY <2>2, <1>1 DEF StopRecording, Poll, UiRecords, NoTake
    <3> QED  BY <2>2, <3>1, <1>1 DEF StopRecording, Poll, rendererVars
  <2>3. CASE OpenSession
    <3>1. ui' = [[ui EXCEPT !.session = TRUE, !.sessions = @ + 1]
                 EXCEPT !.stopAsked = @ \/ StopAsked] /\ ui.sessions < MaxSessions
      BY <2>3 DEF OpenSession, Disconnect
    <3> DEFINE mid == [ui EXCEPT !.session = TRUE, !.sessions = @ + 1]
    <3>2. mid \in UiRecords
      <4>1. ui.sessions \in 0 .. MaxSessions
        BY <1>1 DEF UiRecords
      <4>2. ui.sessions + 1 \in 0 .. MaxSessions
        BY <1>2, <3>1, <4>1
      <4> QED  BY <1>1, <4>2 DEF UiRecords
    <3>3. ui' = [mid EXCEPT !.stopAsked = @ \/ StopAsked]
      BY <3>1
    <3> HIDE DEF mid
    <3>4. ui' \in UiRecords
      BY <3>2, <3>3 DEF UiRecords, StopAsked
    <3> QED  BY <2>3, <3>4, <1>1, <1>3 DEF OpenSession
  <2>4. CASE CloseSession
    <3>1. ui' = [[ui EXCEPT !.session = FALSE] EXCEPT !.stopAsked = @ \/ StopAsked]
      BY <2>4 DEF CloseSession, Disconnect
    <3>2. ui' \in UiRecords
      BY <1>1, <3>1 DEF UiRecords, StopAsked
    <3> QED  BY <2>4, <3>2, <1>1 DEF CloseSession, rendererVars
  <2>5. CASE Quit
    <3>1. ui' = [[ui EXCEPT !.phase = "quitting", !.session = FALSE]
                 EXCEPT !.stopAsked = @ \/ StopAsked]
      BY <2>5 DEF Quit, Disconnect
    <3>2. ui' \in UiRecords
      BY <1>1, <3>1 DEF UiRecords, StopAsked
    <3> QED  BY <2>5, <3>2, <1>1 DEF Quit, rendererVars
  <2> QED  BY <2>1, <2>2, <2>3, <2>4, <2>5 DEF UiStep
<1>5. /\ UNCHANGED <<tap, pools, mapping, channel, thread, movie, files>>
      /\ takes' \in [TakeIds -> TakeRecords]
  BY UiSteps
<1>6. /\ tap \in TapRecords(Len(pools)) /\ pools \in Seq(StagingPools)
      /\ \A p \in DOMAIN pools : Len(pools[p].held) <= PoolLimit
      /\ mapping \in Seq(Captures) /\ channel \in Seq(Captures)
      /\ thread \in ThreadRecords /\ movie \in Movies /\ FileMap(files)
  BY Types DEF Typed
<1> QED  BY <1>4, <1>5, <1>6, Types DEF Typed


(* A set of numbers has a first one. *)
LEMMA HasLeast ==
  ASSUME NEW S, S \subseteq Nat, S # {}
  PROVE  \E x \in S : \A y \in S : x <= y
<1> DEFINE R == OpToRel(<, Nat)
<1>1. IsWellFoundedOn(R, Nat)
  BY NatLessThanWellFounded
<1>2. \A x, y \in Nat : ~(<<y, x>> \in R) => x <= y
  BY DEF OpToRel
<1> HIDE DEF R
<1>3. PICK x \in S : \A y \in S : ~(<<y, x>> \in R)
  BY <1>1, WFMin
<1> QED  BY <1>2, <1>3

(* The index a new take gets is that of no file there is. *)
LEMMA NextIndexIsNew ==
  ASSUME TypeOK, IndexInv, FilesInv(files), ui.started < MaxTakes
  PROVE  /\ NextIndex \in TakeIds /\ NextIndex <= ui.started + 1
         /\ \A p \in DOMAIN files : p[1] # NextIndex
<1> DEFINE S == {i \in 1 .. MaxTakes + 1 : <<i, 1>> \notin DOMAIN files}
           New(i) == /\ i \in 1 .. MaxTakes + 1 /\ <<i, 1>> \notin DOMAIN files
                     /\ \A j \in 1 .. i - 1 : <<j, 1>> \in DOMAIN files
<1>1. ui.started \in Nat /\ MaxTakes \in Nat /\ ui.started + 1 \in 1 .. MaxTakes
  BY Types, RecordingAssumption DEF Typed, UiRecords
<1>2. <<ui.started + 1, 1>> \notin DOMAIN files
  BY <1>1 DEF IndexInv
<1>3. \E i : New(i)
  <2>1. ui.started + 1 \in S
    BY <1>1, <1>2
  <2>2. S \subseteq Nat /\ S # {}
    BY <2>1
  <2>3. PICK i \in S : \A y \in S : i <= y
    <3> HIDE DEF S
    <3> QED  BY <2>2, HasLeast
  <2>4. ASSUME NEW j \in 1 .. i - 1 PROVE <<j, 1>> \in DOMAIN files
    <3>1. j \in 1 .. MaxTakes + 1 /\ ~(i <= j)
      BY <1>1, <2>3
    <3> QED  BY <3>1, <2>3
  <2> QED  BY <2>3, <2>4
<1>4. New(NextIndex)
  <2>1. NextIndex = CHOOSE i \in 1 .. MaxTakes + 1 :
          /\ <<i, 1>> \notin DOMAIN files
          /\ \A j \in 1 .. i - 1 : <<j, 1>> \in DOMAIN files
    BY DEF NextIndex
  <2> QED  BY <2>1, <1>3
<1>5. NextIndex <= ui.started + 1
  <2>1. SUFFICES ASSUME NextIndex > ui.started + 1 PROVE FALSE
    BY <1>1, <1>4
  <2>2. ui.started + 1 \in 1 .. NextIndex - 1
    BY <1>1, <1>4, <2>1
  <2> QED  BY <1>2, <1>4, <2>2
<1>6. \A p \in DOMAIN files : p[1] # NextIndex
  BY <1>4 DEF FilesInv
<1>7. NextIndex \in TakeIds
  BY <1>1, <1>4, <1>5 DEF TakeIds
<1> QED  BY <1>5, <1>6, <1>7

-----------------------------------------------------------------------------
(* One draw *)

Shown(upload) ==
  IF upload = "none" THEN screen ELSE [picture |-> screen.picture + 1, layout |-> upload]
NewFrame(upload) ==
  [picture |-> Shown(upload).picture, layout |-> Shown(upload).layout, take |-> control]

(* What a draw may do to the buffers: nothing, find none, or fill one. *)
Idles == UNCHANGED <<takes, pools>> /\ tap'.pending = <<>>
Drops(p) ==
  /\ takes' = [takes EXCEPT ![control].dropped = @ + 1]
  /\ pools' = WithPool(p)
  /\ tap'.pending = <<>>
Fills(p, b, frame) ==
  /\ takes' = [takes EXCEPT ![control].latest = frame.picture]
  /\ pools' = [WithPool(p) EXCEPT ![p] = Filled(@, b, frame)]
  /\ tap'.pending = <<[pool |-> p, buffer |-> b, frame |-> frame]>>

LEMMA SyncedIs ==
  ASSUME TypeOK
  PROVE  /\ Synced \in TapRecords(Len(pools)) /\ Synced.take = control
         /\ control = tap.take => Synced = tap
         /\ control # tap.take => Synced.awaiting = (control # NoTake)
<1>1. tap \in TapRecords(Len(pools)) /\ control \in TakeIds \cup {NoTake} /\ Len(pools) \in Nat
  BY Types DEF Typed
<1>2. CASE control = tap.take
  BY <1>1, <1>2 DEF Synced
<1>3. CASE control # tap.take
  <2>1. Synced = [NoTap EXCEPT !.take = control, !.awaiting = control # NoTake]
    BY <1>3 DEF Synced
  <2>2. Synced = [take |-> control, layout |-> "none", pool |-> 0,
                  awaiting |-> (control # NoTake), pending |-> <<>>]
    BY <2>1 DEF NoTap
  <2>3. <<>> \in Seq(Captures) /\ 0 \in 0 .. Len(pools)
    BY <1>1, EmptySeq
  <2>4. Synced \in TapRecords(Len(pools))
    BY <1>1, <2>2, <2>3 DEF TapRecords
  <2> QED  BY <1>3, <2>2, <2>4
<1> QED  BY <1>2, <1>3

LEMMA ShownIs ==
  ASSUME TypeOK, ScreenInv, NEW upload \in Uploads
  PROVE  /\ Shown(upload) \in ScreenRecords
         /\ Shown(upload).layout = "none" => Shown(upload).picture = 0
         /\ upload = "none" => Shown(upload) = screen
         /\ upload # "none" => Shown(upload).picture = screen.picture + 1
<1>1. screen \in ScreenRecords /\ screen.picture \in 0 .. MaxPictures /\ MaxPictures \in Nat
  BY Types, RecordingAssumption DEF Typed, ScreenRecords
<1>2. CASE upload = "none"
  BY <1>1, <1>2 DEF Shown, ScreenInv
<1>3. CASE upload # "none"
  <2>1. upload \in Layouts /\ screen.picture < MaxPictures
    BY <1>3 DEF Uploads
  <2>2. Shown(upload) = [picture |-> screen.picture + 1, layout |-> upload]
    BY <1>3 DEF Shown
  <2>3. screen.picture + 1 \in 0 .. MaxPictures
    BY <1>1, <2>1
  <2>4. Shown(upload) \in ScreenRecords
    BY <2>1, <2>2, <2>3 DEF ScreenRecords
  <2> QED  BY <1>3, <2>2, <2>4
<1> QED  BY <1>2, <1>3

(* A draw, whole: what is shown, what becomes of the last capture, and one *)
(* of the three outcomes; while a take records it is up to date.           *)
LEMMA DrawSteps ==
  ASSUME TypeOK, PoolsInv, ScreenInv, TapFollows, NEW upload \in Uploads, Draw(upload)
  PROVE  /\ UNCHANGED <<ui, control, channel, faults, thread, movie, files>>
         /\ mapping' = mapping \o tap.pending
         /\ screen' = Shown(upload) /\ presented' \in BOOLEAN
         /\ tap' \in TapRecords(Len(pools')) /\ tap'.take = control
         /\ \/ Idles
            \/ /\ control \in TakeIds
               /\ \E p \in 1 .. Len(pools) + 1 : Drops(p)
            \/ /\ control \in TakeIds /\ NewFrame(upload) \in Pictures
               /\ takes[control].latest < NewFrame(upload).picture
               /\ \E p \in 1 .. Len(pools) + 1 : \E b \in 1 .. PoolLimit :
                    b = Acquired(WithPool(p)[p]) /\ Fills(p, b, NewFrame(upload))
         /\ control # NoTake /\ ~takes[control].stopping =>
              /\ ~presented' /\ ~tap'.awaiting
              /\ takes'[control].latest <= screen'.picture
              /\ takes'[control].dropped > 0 \/ takes'[control].latest = screen'.picture
<1> DEFINE shown == Shown(upload)
           fresh == presented \/ upload # "none"
           s == Synced
<1>1. /\ control \in TakeIds \cup {NoTake} /\ takes \in [TakeIds -> TakeRecords]
      /\ presented \in BOOLEAN /\ Len(pools) \in Nat
      /\ screen.picture \in 0 .. MaxPictures
      /\ MaxPictures \in Nat /\ "none" \notin Layouts
  BY Types, RecordingAssumption DEF Typed, ScreenRecords
<1>2. /\ s \in TapRecords(Len(pools)) /\ s.take = control
      /\ control = tap.take => s = tap
      /\ control # tap.take => s.awaiting = (control # NoTake)
  BY SyncedIs
<1>3. /\ shown \in ScreenRecords /\ (shown.layout = "none" => shown.picture = 0)
      /\ upload = "none" => shown = screen
      /\ upload # "none" => shown.picture = screen.picture + 1
  BY ShownIs
<1>4. /\ UNCHANGED <<ui, control, channel, faults, thread, movie, files>>
      /\ mapping' = mapping \o tap.pending /\ screen' = shown
      /\ ~Capturing(s) => /\ presented' = fresh
                          /\ tap' = [s EXCEPT !.pending = <<>>]
                          /\ UNCHANGED <<takes, pools>>
      /\ Capturing(s) =>
           /\ presented' = FALSE
           /\ (s.awaiting \/ fresh) /\ shown.picture # 0 => Capture(s, shown)
           /\ ~((s.awaiting \/ fresh) /\ shown.picture # 0) =>
                /\ tap' = [s EXCEPT !.awaiting = FALSE, !.pending = <<>>]
                /\ UNCHANGED <<takes, pools>>
  BY DEF Draw, Shown, threadVars
<1>5. Capturing(s) <=> control # NoTake /\ ~takes[control].stopping
  BY <1>2 DEF Capturing
<1> HIDE DEF s, shown
<1>6. <<>> \in Seq(Captures)
  BY EmptySeq
<1>7. CASE ~Capturing(s)
  <2>1. tap' \in TapRecords(Len(pools)) /\ tap'.take = control /\ tap'.pending = <<>>
    BY <1>2, <1>4, <1>6, <1>7 DEF TapRecords
  <2>2. presented' \in BOOLEAN
    BY <1>1, <1>4, <1>7
  <2> QED  BY <2>1, <2>2, <1>4, <1>5, <1>7 DEF Idles, shown
<1>8. CASE Capturing(s) /\ ~((s.awaiting \/ fresh) /\ shown.picture # 0)
  <2>1. tap' \in TapRecords(Len(pools)) /\ tap'.take = control /\ tap'.pending = <<>>
        /\ tap'.awaiting = FALSE
    BY <1>2, <1>4, <1>6, <1>8 DEF TapRecords
  <2>2. control \in TakeIds /\ takes[control].latest \in 0 .. MaxPictures
    BY <1>1, <1>5, <1>8 DEF TakeRecords
  <2>3. /\ takes[control].latest <= screen'.picture
        /\ takes[control].dropped > 0 \/ takes[control].latest = screen'.picture
    <3>1. CASE tap.take = control
      <4>1. /\ ~presented /\ ~tap.awaiting
            /\ takes[control].latest <= screen.picture
            /\ takes[control].dropped > 0 \/ takes[control].latest = screen.picture
        BY <3>1, <1>5, <1>8 DEF TapFollows
      <4>2. CASE upload = "none"
        BY <4>1, <4>2, <1>3, <1>4
      <4>3. CASE upload # "none"
        BY <4>3, <1>1, <1>3, <1>8
      <4> QED  BY <4>2, <4>3
    <3>2. CASE tap.take # control
      <4>1. takes[control].latest = 0
        BY <3>2, <1>5, <1>8 DEF TapFollows
      <4>2. s.awaiting
        BY <3>2, <1>2, <1>5, <1>8
      <4>3. shown.picture = 0
        BY <4>2, <1>8
      <4> QED  BY <4>1, <4>3, <1>4
    <3> QED  BY <3>1, <3>2
  <2> QED  BY <2>1, <2>3, <1>4, <1>8 DEF Idles, shown
<1>9. CASE Capturing(s) /\ (s.awaiting \/ fresh) /\ shown.picture # 0
  <2> DEFINE p == PoolOf(s, shown.layout)
             b == Acquired(WithPool(p)[p])
             frame == [picture |-> shown.picture, layout |-> shown.layout, take |-> s.take]
             synced == [s EXCEPT !.awaiting = FALSE, !.layout = shown.layout, !.pool = p]
  <2>1. p \in 1 .. Len(pools) + 1
    BY <1>1, <1>2 DEF PoolOf, TapRecords
  <2>2. control \in TakeIds /\ ~takes[control].stopping /\ takes[control] \in TakeRecords
        /\ takes[control].latest \in 0 .. MaxPictures /\ takes[control].dropped \in Nat
    BY <1>1, <1>5, <1>9 DEF TakeRecords
  <2>3. shown.picture \in 1 .. MaxPictures /\ shown.layout \in Layouts
    BY <1>1, <1>3, <1>9 DEF ScreenRecords
  <2>4. frame = NewFrame(upload) /\ frame \in Pictures /\ frame.picture = shown.picture
    <3>1. frame \in Pictures
      BY <2>2, <2>3, <1>2 DEF Pictures
    <3> QED  BY <3>1, <1>2 DEF NewFrame, shown
  <2>5. takes[control].latest < shown.picture
    <3>1. CASE tap.take = control
      <4>1. ~presented /\ ~tap.awaiting /\ takes[control].latest <= screen.picture
        BY <3>1, <2>2, <1>1, <1>5, <1>9 DEF TapFollows
      <4>2. upload # "none"
        BY <4>1, <3>1, <1>2, <1>9
      <4> QED  BY <4>1, <4>2, <1>1, <1>3, <2>2
    <3>2. CASE tap.take # control
      <4>1. takes[control].latest = 0
        BY <3>2, <2>2, <1>1, <1>5, <1>9 DEF TapFollows
      <4> QED  BY <4>1, <2>3
    <3> QED  BY <3>1, <3>2
  <2>6. Len(WithPool(p)) >= Len(pools) /\ p \in DOMAIN WithPool(p)
        /\ WithPool(p) \in Seq(StagingPools) /\ Len(WithPool(p)) \in Nat
        /\ WithPool(p)[p] \in StagingPools /\ PoolInv(WithPool(p)[p])
    BY <2>1, MadePools
  <2>7. p \in 0 .. Len(WithPool(p))
    BY <2>6
  <2>8. IF b = 0
        THEN /\ takes' = [takes EXCEPT ![s.take].dropped = @ + 1]
             /\ pools' = WithPool(p)
             /\ tap' = [synced EXCEPT !.pending = <<>>]
        ELSE /\ takes' = [takes EXCEPT ![s.take].latest = shown.picture]
             /\ pools' = [WithPool(p) EXCEPT ![p] = Filled(@, b, frame)]
             /\ tap' = [synced EXCEPT !.pending = <<[pool |-> p, buffer |-> b, frame |-> frame]>>]
    BY <1>4, <1>9 DEF Capture
  <2>9. presented' = FALSE
    BY <1>4, <1>9
  <2> HIDE DEF p, b
  <2>10. synced \in TapRecords(Len(WithPool(p))) /\ synced.take = control /\ ~synced.awaiting
    BY <1>2, <2>3, <2>7 DEF TapRecords
  <2> HIDE DEF synced, frame
  <2>11. CASE b = 0
    <3>1. /\ takes' = [takes EXCEPT ![control].dropped = @ + 1]
          /\ pools' = WithPool(p) /\ tap' = [synced EXCEPT !.pending = <<>>]
      BY <2>8, <2>11, <1>2
    <3>2. tap' \in TapRecords(Len(pools')) /\ tap'.take = control /\ ~tap'.awaiting
          /\ tap'.pending = <<>>
      BY <3>1, <2>10, <1>6 DEF TapRecords
    <3>3. takes'[control].dropped = takes[control].dropped + 1
          /\ takes'[control].latest = takes[control].latest
      BY <3>1, <2>2, <1>1 DEF TakeRecords
    <3>4. takes'[control].dropped > 0 /\ takes'[control].latest <= screen'.picture
      BY <3>3, <2>2, <2>3, <2>5, <1>4
    <3> QED  BY <3>1, <3>2, <3>4, <2>1, <2>2, <2>9, <1>4 DEF Drops, shown
  <2>12. CASE b # 0
    <3> DEFINE c == [pool |-> p, buffer |-> b, frame |-> frame]
    <3>1. /\ takes' = [takes EXCEPT ![control].latest = shown.picture]
          /\ pools' = [WithPool(p) EXCEPT ![p] = Filled(@, b, frame)]
          /\ tap' = [synced EXCEPT !.pending = <<c>>]
      BY <2>8, <2>12, <1>2
    <3>2. b \in 1 .. PoolLimit
      <4>1. b = Acquired(WithPool(p)[p])
        BY DEF b
      <4> QED  BY <4>1, <2>4, <2>6, <2>12, FilledPool
    <3>3. c \in Captures /\ Len(pools') = Len(WithPool(p))
      <4>1. p \in Nat \ {0}
        BY <2>1, <1>1
      <4> QED  BY <4>1, <3>1, <3>2, <2>4, <2>6 DEF Captures
    <3>4. <<c>> \in Seq(Captures)
      BY <3>3
    <3> HIDE DEF c
    <3>5. tap' \in TapRecords(Len(pools')) /\ tap'.take = control /\ ~tap'.awaiting
          /\ tap'.pending = <<c>>
      BY <3>1, <3>3, <3>4, <2>10 DEF TapRecords
    <3>6. takes'[control].latest = shown.picture
      BY <3>1, <2>2, <1>1 DEF TakeRecords
    <3>7. takes'[control].latest <= screen'.picture /\ takes'[control].latest = screen'.picture
      BY <3>6, <2>3, <1>4
    <3>8. Fills(p, b, NewFrame(upload))
      BY <3>1, <3>5, <2>4 DEF Fills, c
    <3>9. b = Acquired(WithPool(p)[p])
      BY DEF b
    <3> QED  BY <3>2, <3>5, <3>7, <3>8, <3>9, <2>1, <2>2, <2>4, <2>5, <2>9, <1>4 DEF shown
  <2> QED  BY <2>11, <2>12
<1> QED  BY <1>7, <1>8, <1>9


-----------------------------------------------------------------------------
(* The thread's steps *)

LEMMA Flying ==
  ASSUME TypeOK
  PROVE  /\ InFlight \in Seq(Captures) /\ Len(InFlight) \in Nat
         /\ DOMAIN InFlight = 1 .. Len(InFlight)
         /\ \A i \in DOMAIN InFlight : InFlight[i] \in Captures
         /\ thread.inHand # <<>> => 1 \in DOMAIN InFlight /\ InFlight[1] = thread.inHand[1]
         /\ mapping # <<>> =>
              /\ Len(thread.inHand) + Len(channel) + 1 \in DOMAIN InFlight
              /\ InFlight[Len(thread.inHand) + Len(channel) + 1] = Head(mapping)
<1> DEFINE a == thread.inHand
           b == channel
           c == mapping
           d == tap.pending
<1>1. a \in Seq(Captures) /\ b \in Seq(Captures) /\ c \in Seq(Captures) /\ d \in Seq(Captures)
  BY Types DEF Typed, ThreadRecords, TapRecords
<1>2. Len(a) \in Nat /\ Len(b) \in Nat /\ Len(c) \in Nat /\ Len(d) \in Nat
  BY <1>1, LenProperties
<1>3. InFlight = a \o b \o c \o d
  BY DEF InFlight
<1> HIDE DEF a, b, c, d
<1>4. /\ InFlight \in Seq(Captures)
      /\ Len(InFlight) = Len(a) + Len(b) + Len(c) + Len(d)
      /\ DOMAIN InFlight = 1 .. Len(a) + Len(b) + Len(c) + Len(d)
      /\ \A i \in 1 .. Len(a) + Len(b) + Len(c) + Len(d) :
              InFlight[i] =
                IF i <= Len(a) THEN a[i]
                ELSE IF i <= Len(a) + Len(b) THEN b[i - Len(a)]
                ELSE IF i <= Len(a) + Len(b) + Len(c) THEN c[i - Len(a) - Len(b)]
                ELSE d[i - Len(a) - Len(b) - Len(c)]
  BY <1>1, <1>3, EndToEnd, SMTT(40)
<1>5. \A i \in DOMAIN InFlight : InFlight[i] \in Captures
  <2>1. DOMAIN InFlight = 1 .. Len(InFlight)
    BY <1>4
  <2> QED  BY <2>1, <1>4, ElementOfSeq
<1>6. ASSUME a # <<>> PROVE 1 \in DOMAIN InFlight /\ InFlight[1] = a[1]
  <2>1. Len(a) >= 1
    BY <1>1, <1>2, <1>6, EmptySeq
  <2> QED  BY <2>1, <1>2, <1>4
<1>7. ASSUME c # <<>>
      PROVE  Len(a) + Len(b) + 1 \in DOMAIN InFlight /\ InFlight[Len(a) + Len(b) + 1] = Head(c)
  <2> DEFINE n == Len(a) + Len(b) + 1
  <2>1. Len(c) >= 1
    BY <1>1, <1>2, <1>7, EmptySeq
  <2>2. /\ n \in 1 .. Len(a) + Len(b) + Len(c) + Len(d)
        /\ ~(n <= Len(a)) /\ ~(n <= Len(a) + Len(b)) /\ n <= Len(a) + Len(b) + Len(c)
        /\ n - Len(a) - Len(b) = 1
    BY <1>2, <2>1
  <2> HIDE DEF n
  <2>3. InFlight[n] = c[1]
    BY <1>4, <2>2
  <2>4. c[1] = Head(c)
    BY <1>1
  <2> QED  BY <2>2, <2>3, <2>4, <1>4 DEF n
<1>8. Len(InFlight) \in Nat
  BY <1>2, <1>4
<1> QED  BY <1>4, <1>5, <1>6, <1>7, <1>8 DEF a, b, c, d

(* The capture in the thread's hand, and the frame its buffer still holds. *)
LEMMA InHand ==
  ASSUME TypeOK, ThreadHolds, FlightsInv, thread.state = "pushing"
  PROVE  /\ thread.inHand = <<thread.inHand[1]>> /\ thread.inHand # <<>>
         /\ thread.inHand[1] \in Captures /\ thread.inHand[1].frame \in Pictures
         /\ thread.inHand[1].frame.take = thread.take
         /\ thread.inHand[1].pool \in DOMAIN pools
         /\ pools[thread.inHand[1].pool].held[thread.inHand[1].buffer] = thread.inHand[1].frame
         /\ thread.inHand[1].frame.picture <= takes[thread.inHand[1].frame.take].latest
         /\ 1 \in DOMAIN InFlight /\ InFlight[1] = thread.inHand[1]
<1>1. thread.inHand \in Seq(Captures) /\ Len(thread.inHand) = 1
  BY Types DEF Typed, ThreadRecords, ThreadHolds
<1>2. thread.inHand = <<thread.inHand[1]>> /\ thread.inHand # <<>> /\ 1 \in DOMAIN thread.inHand
  BY <1>1
<1>3. thread.inHand[1] \in Captures
  BY <1>1, <1>2, ElementOfSeq
<1>4. 1 \in DOMAIN InFlight /\ InFlight[1] = thread.inHand[1]
  BY <1>2, Flying
<1>5. Staged(thread.inHand[1])
  BY <1>4 DEF FlightsInv
<1>6. thread.inHand[1].frame.take = thread.take
  BY <1>2 DEF ThreadHolds
<1> QED  BY <1>2, <1>3, <1>4, <1>5, <1>6 DEF Staged, Captures

(* What a step may do to the files and the movie. *)
Written ==
  /\ FileMap(files') /\ movie' \in Movies /\ FilesInv(files')
  /\ Kept(files, files') /\ movie'.index = movie.index
  /\ \A p \in DOMAIN files' : p \in DOMAIN files \/ p[1] = movie.index

LEMMA NothingWritten ==
  ASSUME TypeOK, FilesInv(files), UNCHANGED <<files, movie>>
  PROVE  Written
BY Types DEF Typed, Written, Kept

LEMMA PushWrites ==
  ASSUME TypeOK, ThreadHolds, FlightsInv, FilesInv(files), MovieInv, AheadInv, IndexInv,
         NEW d \in BOOLEAN, Push(d)
  PROVE  /\ Written /\ WritingInv(files', movie', thread.take)
         /\ movie'.layout # "none" /\ movie'.held = <<thread.inHand[1].frame>>
<1> DEFINE c == thread.inHand[1]
           frame == c.frame
<1>1. thread.state = "pushing"
  BY DEF Push
<1>2. /\ c \in Captures /\ frame \in Pictures /\ frame.take = thread.take
      /\ pools[c.pool].held[c.buffer] = frame /\ 1 \in DOMAIN InFlight /\ InFlight[1] = c
  BY <1>1, InHand
<1>3. Running
  BY <1>1 DEF Running
<1>4. FileMap(files) /\ movie \in Movies /\ movie.index \in 0 .. MaxTakes
  BY Types DEF Typed, Movies
<1>5. movie.index \in TakeIds
  BY <1>3, <1>4, RecordingAssumption DEF IndexInv, TakeIds
<1>6. WritingInv(files, movie, frame.take)
  BY <1>2, <1>3 DEF MovieInv
<1>7. movie.layout # "none" => Before(movie.held[1], frame)
  BY <1>2, <1>3 DEF AheadInv
<1>8. /\ files' = PushedFiles(files, movie, frame, d)
      /\ movie' = PushedTo(files, movie, frame, d)
  BY <1>2 DEF Push, PushedState, PushedFiles, PushedTo
<1> HIDE DEF c, frame
<1>9. Follows(files', movie', files, movie, frame)
  <2>1. Follows(PushedFiles(files, movie, frame, d), PushedTo(files, movie, frame, d),
                files, movie, frame)
    BY <1>2, <1>4, <1>5, <1>6, <1>7, PushedMovie
  <2> QED  BY <2>1, <1>8
<1>10. frame.take = thread.take
  BY <1>2
<1> QED  BY <1>9, <1>10 DEF Follows, Written, frame, c

LEMMA FinishWrites ==
  ASSUME TypeOK, FilesInv(files), MovieInv, NEW d \in BOOLEAN, Finish(d)
  PROVE  Written /\ WholeInv(files', movie')
<1>1. Running
  BY DEF Finish, Running
<1>2. FileMap(files) /\ movie \in Movies
  BY Types DEF Typed
<1>3. files' = Closed(files, movie, d).files /\ movie' = Closed(files, movie, d).movie
  BY DEF Finish
<1>4. WritingInv(files, movie, thread.take)
  BY <1>1 DEF MovieInv
<1>5. /\ FileMap(Closed(files, movie, d).files) /\ FilesInv(Closed(files, movie, d).files)
      /\ Closed(files, movie, d).movie \in Movies
      /\ Closed(files, movie, d).movie.index = movie.index
      /\ WholeInv(Closed(files, movie, d).files, Closed(files, movie, d).movie)
      /\ Kept(files, Closed(files, movie, d).files)
      /\ DOMAIN Closed(files, movie, d).files \subseteq DOMAIN files
  BY <1>2, <1>4, ClosedMovie
<1> QED  BY <1>3, <1>5 DEF Written

LEMMA FailureWrites ==
  ASSUME TypeOK, FilesInv(files), MovieInv, SegmentFails \/ FinishFails
  PROVE  Written
<1>1. Running
  BY DEF SegmentFails, FinishFails, Running
<1>2. FileMap(files) /\ movie \in Movies
  BY Types DEF Typed
<1>3. CASE files' = files /\ movie' = [movie EXCEPT !.layout = "none", !.held = <<>>]
  <2>1. movie' \in Movies /\ movie'.index = movie.index
    <3>1. <<>> \in Seq(Pictures)
      BY EmptySeq
    <3> QED  BY <3>1, <1>2, <1>3 DEF Movies
  <2> QED  BY <2>1, <1>2, <1>3 DEF Written, Kept
<1>4. CASE files' = Closed(files, movie, FALSE).files /\ movie' = Closed(files, movie, FALSE).movie
  <2>1. WritingInv(files, movie, thread.take)
    BY <1>1 DEF MovieInv
  <2>2. /\ FileMap(Closed(files, movie, FALSE).files) /\ FilesInv(Closed(files, movie, FALSE).files)
        /\ Closed(files, movie, FALSE).movie \in Movies
        /\ Closed(files, movie, FALSE).movie.index = movie.index
        /\ Kept(files, Closed(files, movie, FALSE).files)
        /\ DOMAIN Closed(files, movie, FALSE).files \subseteq DOMAIN files
    BY <1>2, <2>1, ClosedMovie
  <2> QED  BY <2>2, <1>4 DEF Written
<1> QED  BY <1>3, <1>4 DEF SegmentFails, FinishFails

(* Every step of the thread. *)
LEMMA ThreadWrites ==
  ASSUME TypeOK, ThreadHolds, FlightsInv, FilesInv(files), MovieInv, AheadInv, IndexInv, ThreadStep
  PROVE  Written
<1>1. CASE Receive \/ GraceOver \/ Expire \/ WriteFails
  <2>1. UNCHANGED <<files, movie>>
    BY <1>1 DEF Receive, GraceOver, Expire, WriteFails
  <2> QED  BY <2>1, NothingWritten
<1> QED  BY <1>1, PushWrites, FinishWrites, FailureWrites DEF ThreadStep

(* The thread's own record of its take, when it ends. *)
LEMMA EndedIs ==
  ASSUME TypeOK, NEW t \in TakeIds, NEW failed \in BOOLEAN
  PROVE  /\ Ended(t, failed) \in [TakeIds -> TakeRecords]
         /\ \A u \in TakeIds :
              /\ Ended(t, failed)[u].latest = takes[u].latest
              /\ Ended(t, failed)[u].dropped = takes[u].dropped
              /\ Ended(t, failed)[u].stopping = takes[u].stopping
              /\ u # t => Ended(t, failed)[u] = takes[u]
         /\ Ended(t, failed)[t].finished /\ Ended(t, failed)[t].failed = failed
<1>1. takes \in [TakeIds -> TakeRecords]
  BY Types DEF Typed
<1> DEFINE r == [[takes[t] EXCEPT !.finished = TRUE] EXCEPT !.failed = failed]
<1>2. Ended(t, failed) = [takes EXCEPT ![t] = r]
  BY <1>1 DEF Ended
<1>3. takes[t] \in TakeRecords
  BY <1>1
<1>4. /\ r \in TakeRecords /\ r.latest = takes[t].latest /\ r.dropped = takes[t].dropped
      /\ r.stopping = takes[t].stopping /\ r.finished /\ r.failed = failed
  BY <1>3 DEF TakeRecords
<1> HIDE DEF r
<1>5. Ended(t, failed)[t] = r /\ \A u \in TakeIds : u # t => Ended(t, failed)[u] = takes[u]
  BY <1>1, <1>2
<1> QED  BY <1>1, <1>2, <1>4, <1>5


(* A sequence is what is left of itself. *)
LEMMA AllIsLeft ==
  ASSUME NEW S, NEW s \in Seq(S)
  PROVE  LeftOf(s, s, 0)
<1> DEFINE f == [i \in DOMAIN s |-> i]
<1>1. f \in [DOMAIN s -> DOMAIN s]
  OBVIOUS
<1>2. \A i, j \in DOMAIN s : i < j => f[i] < f[j]
  OBVIOUS
<1>3. DOMAIN s = 1 .. Len(s) /\ Len(s) \in Nat
  OBVIOUS
<1>4. \A i \in DOMAIN s : s[i] = s[f[i]] /\ f[i] # 0
  BY <1>3
<1> HIDE DEF f
<1> QED  BY <1>1, <1>2, <1>4 DEF LeftOf

(* What is left of the captures is still staged and apart, whatever else   *)
(* leaves the buffers they are in alone.                                   *)
LEMMA LeftAreApart ==
  ASSUME TypeOK, FlightsInv, NEW n, LeftOf(InFlight', InFlight, n),
         \A t \in TakeIds : takes'[t].latest = takes[t].latest,
         \A p \in DOMAIN pools :
           /\ p \in DOMAIN pools' /\ pools'[p].held = pools[p].held
           /\ \A b \in ToSet(pools'[p].free) :
                b \in ToSet(pools[p].free)
                \/ (n \in DOMAIN InFlight /\ p = InFlight[n].pool /\ b = InFlight[n].buffer)
  PROVE  FlightsInv'
<1> DEFINE s == InFlight'
           t == InFlight
<1>1. PICK f \in [DOMAIN s -> DOMAIN t] :
        /\ \A i, j \in DOMAIN s : i < j => f[i] < f[j]
        /\ \A i \in DOMAIN s : s[i] = t[f[i]] /\ f[i] # n
  BY DEF LeftOf
<1>2. /\ \A i \in DOMAIN t : t[i] \in Captures
      /\ DOMAIN t = 1 .. Len(t) /\ Len(t) \in Nat
  BY Flying
<1>3. /\ \A i \in DOMAIN t : Staged(t[i])
      /\ \A i, j \in DOMAIN t : i < j => Apart(t[i], t[j])
  BY DEF FlightsInv
<1> HIDE DEF s, t
<1>4. ASSUME NEW i \in DOMAIN s PROVE Staged(InFlight[i])'
  <2> DEFINE k == f[i]
             c == t[k]
  <2>1. k \in DOMAIN t /\ s[i] = c /\ k # n
    BY <1>1
  <2> HIDE DEF k
  <2>2. c \in Captures /\ Staged(c)
    BY <2>1, <1>2, <1>3
  <2>3. c.frame.take \in TakeIds
    BY <2>2 DEF Captures, Pictures
  <2>4. c.buffer \notin ToSet(pools'[c.pool].free)
    <3>1. SUFFICES ASSUME c.buffer \in ToSet(pools'[c.pool].free) PROVE FALSE
      OBVIOUS
    <3>2. n \in DOMAIN t /\ c.pool = t[n].pool /\ c.buffer = t[n].buffer
      BY <3>1, <2>2 DEF Staged, t
    <3>3. Apart(t[k], t[n]) \/ Apart(t[n], t[k])
      <4>1. k \in 1 .. Len(t) /\ n \in 1 .. Len(t) /\ k # n
        BY <2>1, <3>2, <1>2
      <4>2. k < n \/ n < k
        BY <4>1, <1>2
      <4> QED  BY <4>2, <2>1, <3>2, <1>3
    <3> QED  BY <3>2, <3>3 DEF Apart
  <2>5. /\ c.pool \in DOMAIN pools' /\ c.buffer \in DOMAIN pools'[c.pool].held
        /\ pools'[c.pool].held[c.buffer] = c.frame
    BY <2>2 DEF Staged
  <2>6. c.frame.picture <= takes'[c.frame.take].latest
    BY <2>2, <2>3 DEF Staged
  <2> QED  BY <2>1, <2>4, <2>5, <2>6 DEF Staged, s
<1>5. ASSUME NEW i \in DOMAIN s, NEW j \in DOMAIN s, i < j PROVE Apart(InFlight[i], InFlight[j])'
  <2>1. Apart(s[i], s[j])
    BY <1>1, <1>3, <1>5
  <2> QED  BY <2>1 DEF Apart, s
<1> QED  BY <1>4, <1>5 DEF FlightsInv, s

LEMMA FlightsLeave ==
  ASSUME TypeOK, PoolsInv, FlightsInv, NEW n, LeftOf(InFlight', InFlight, n),
         \A t \in TakeIds : takes'[t].latest = takes[t].latest,
         \/ pools' = pools
         \/ n \in DOMAIN InFlight /\ pools' = Released(InFlight[n])
  PROVE  FlightsInv' /\ PoolsInv'
<1>1. CASE pools' = pools
  <2>1. FlightsInv'
    BY <1>1, LeftAreApart
  <2> QED  BY <2>1, <1>1 DEF PoolsInv
<1>2. CASE n \in DOMAIN InFlight /\ pools' = Released(InFlight[n])
  <2> DEFINE e == InFlight[n]
  <2>1. e \in Captures /\ Staged(e)
    BY <1>2, Flying DEF FlightsInv
  <2>2. e.pool \in DOMAIN pools /\ e.buffer \in DOMAIN pools[e.pool].held
        /\ e.buffer \notin ToSet(pools[e.pool].free)
    BY <2>1 DEF Staged
  <2> HIDE DEF e
  <2>3. /\ Released(e) \in Seq(StagingPools) /\ DOMAIN Released(e) = DOMAIN pools
        /\ \A p \in DOMAIN pools : Released(e)[p].held = pools[p].held
        /\ \A p \in DOMAIN pools : p # e.pool => Released(e)[p] = pools[p]
        /\ Released(e)[e.pool].free = Append(pools[e.pool].free, e.buffer)
        /\ ToSet(Released(e)[e.pool].free) = ToSet(pools[e.pool].free) \cup {e.buffer}
    BY <2>1, <2>2, ReleasedPools
  <2>4. pools' = Released(e)
    BY <1>2 DEF e
  <2>5. FlightsInv'
    <3>1. \A p \in DOMAIN pools :
            /\ p \in DOMAIN pools' /\ pools'[p].held = pools[p].held
            /\ \A b \in ToSet(pools'[p].free) :
                 b \in ToSet(pools[p].free)
                 \/ (n \in DOMAIN InFlight /\ p = InFlight[n].pool /\ b = InFlight[n].buffer)
      BY <2>3, <2>4, <1>2 DEF e
    <3> QED  BY <3>1, LeftAreApart
  <2>6. pools[e.pool].free \in Seq(1 .. PoolLimit) /\ e.buffer \in 1 .. PoolLimit
    <3>1. pools[e.pool] \in StagingPools
      BY <2>2, PoolTypes
    <3> QED  BY <3>1, <2>1 DEF StagingPools, Captures
  <2> DEFINE free == pools[e.pool].free
             back == Append(free, e.buffer)
  <2>7. /\ DOMAIN free = 1 .. Len(free) /\ Len(free) \in Nat
        /\ DOMAIN back = 1 .. Len(free) + 1
        /\ \A i \in 1 .. Len(free) : back[i] = free[i]
        /\ back[Len(free) + 1] = e.buffer
    <3> HIDE DEF free
    <3>1. free \in Seq(1 .. PoolLimit)
      BY <2>6 DEF free
    <3> QED  BY <3>1, <2>6, AppendProperties
  <2>8. \A i \in DOMAIN free : free[i] # e.buffer /\ free[i] \in DOMAIN pools[e.pool].held
    BY <2>2 DEF ToSet, PoolsInv
  <2>9. \A i, j \in DOMAIN free : free[i] = free[j] => i = j
    BY <2>2 DEF PoolsInv
  <2> HIDE DEF free
  <2>10. /\ \A i \in DOMAIN back : back[i] \in DOMAIN pools[e.pool].held
         /\ \A i, j \in DOMAIN back : back[i] = back[j] => i = j
    <3>1. \A i \in DOMAIN back : i \in DOMAIN free \/ i = Len(free) + 1
      BY <2>7
    <3> HIDE DEF back
    <3> QED  BY <3>1, <2>2, <2>7, <2>8, <2>9
  <2>11. pools'[e.pool].free = back
    BY <2>3, <2>4 DEF free
  <2> HIDE DEF back
  <2>12. PoolsInv'
    <3> SUFFICES ASSUME NEW p \in DOMAIN pools'
                 PROVE  /\ \A i \in DOMAIN pools'[p].free :
                             pools'[p].free[i] \in DOMAIN pools'[p].held
                        /\ \A i, j \in DOMAIN pools'[p].free :
                             pools'[p].free[i] = pools'[p].free[j] => i = j
      BY DEF PoolsInv
    <3>1. CASE p = e.pool
      BY <3>1, <2>3, <2>4, <2>2, <2>10, <2>11
    <3>2. CASE p # e.pool
      BY <3>2, <2>3, <2>4 DEF PoolsInv
    <3> QED  BY <3>1, <3>2
  <2> QED  BY <2>5, <2>12
<1> QED  BY <1>1, <1>2


(* A pool that is made for a frame nobody can take changes no capture. *)
LEMMA FlightsOfDrop ==
  ASSUME TypeOK, PoolsInv, FlightsInv, NEW p \in 1 .. Len(pools) + 1, pools' = WithPool(p),
         InFlight' = InFlight, \A t \in TakeIds : takes'[t].latest = takes[t].latest
  PROVE  FlightsInv' /\ PoolsInv'
<1>1. /\ DOMAIN pools \subseteq DOMAIN WithPool(p)
      /\ \A x \in DOMAIN pools : WithPool(p)[x] = pools[x]
      /\ \A x \in DOMAIN WithPool(p) : PoolInv(WithPool(p)[x])
  BY MadePools
<1>2. LeftOf(InFlight', InFlight, 0)
  BY Flying, AllIsLeft
<1>3. \A x \in DOMAIN pools :
        /\ x \in DOMAIN pools' /\ pools'[x].held = pools[x].held
        /\ \A b \in ToSet(pools'[x].free) :
             b \in ToSet(pools[x].free)
             \/ (0 \in DOMAIN InFlight /\ x = InFlight[0].pool /\ b = InFlight[0].buffer)
  BY <1>1
<1>4. FlightsInv'
  BY <1>2, <1>3, LeftAreApart
<1>5. PoolsInv'
  BY <1>1 DEF PoolsInv, PoolInv
<1> QED  BY <1>4, <1>5

(* A new capture comes after all of its take, in a buffer of its own. *)
LEMMA FlightsOfFill ==
  ASSUME TypeOK, PoolsInv, FlightsInv, NEW p \in 1 .. Len(pools) + 1,
         NEW b \in 1 .. PoolLimit, b = Acquired(WithPool(p)[p]),
         NEW frame \in Pictures, control \in TakeIds, frame.take = control,
         takes[control].latest < frame.picture,
         Fills(p, b, frame),
         InFlight' = Append(InFlight, [pool |-> p, buffer |-> b, frame |-> frame])
  PROVE  FlightsInv' /\ PoolsInv' /\ pools' \in Seq(StagingPools)
         /\ \A x \in DOMAIN pools' : Len(pools'[x].held) <= PoolLimit
<1> DEFINE c == [pool |-> p, buffer |-> b, frame |-> frame]
           made == WithPool(p)
           filled == Filled(made[p], b, frame)
<1>1. /\ made \in Seq(StagingPools) /\ p \in DOMAIN made
      /\ DOMAIN pools \subseteq DOMAIN made
      /\ \A x \in DOMAIN pools : made[x] = pools[x]
      /\ \A x \in DOMAIN made : made[x] \in StagingPools /\ PoolInv(made[x])
  BY MadePools
<1>2. pools' = [made EXCEPT ![p] = filled]
  BY DEF Fills
<1> HIDE DEF made
<1>3. /\ filled \in StagingPools /\ PoolInv(filled)
      /\ b \in DOMAIN filled.held /\ filled.held[b] = frame
      /\ \A x \in DOMAIN made[p].held :
           x \in DOMAIN filled.held /\ (x # b => filled.held[x] = made[p].held[x])
      /\ ToSet(filled.free) \subseteq ToSet(made[p].free) \ {b}
      /\ b \in DOMAIN made[p].held => b \in ToSet(made[p].free)
  <2> DEFINE pool == made[p]
  <2>1. pool \in StagingPools /\ PoolInv(pool) /\ b = Acquired(pool) /\ b # 0
    BY <1>1 DEF made
  <2> HIDE DEF pool
  <2>2. /\ Filled(pool, b, frame) \in StagingPools /\ PoolInv(Filled(pool, b, frame))
        /\ b \in DOMAIN Filled(pool, b, frame).held /\ Filled(pool, b, frame).held[b] = frame
        /\ \A x \in DOMAIN pool.held :
             /\ x \in DOMAIN Filled(pool, b, frame).held
             /\ x # b => Filled(pool, b, frame).held[x] = pool.held[x]
        /\ ToSet(Filled(pool, b, frame).free) \subseteq ToSet(pool.free) \ {b}
        /\ b \in DOMAIN pool.held => b \in ToSet(pool.free)
    BY <2>1, FilledPool
  <2> QED  BY <2>2 DEF pool
<1> HIDE DEF filled
<1>4. /\ DOMAIN pools' = DOMAIN made /\ pools'[p] = filled
      /\ \A x \in DOMAIN made : x # p => pools'[x] = made[x]
      /\ pools' \in Seq(StagingPools)
  BY <1>1, <1>2, <1>3
<1>5. PoolsInv' /\ \A x \in DOMAIN pools' : Len(pools'[x].held) <= PoolLimit
  <2>1. \A x \in DOMAIN pools' : PoolInv(pools'[x])
    BY <1>1, <1>3, <1>4
  <2> QED  BY <2>1 DEF PoolsInv, PoolInv
<1>6. /\ takes \in [TakeIds -> TakeRecords]
      /\ \A t \in TakeIds : takes[t].latest \in 0 .. MaxPictures
      /\ MaxPictures \in Nat
  BY Types, RecordingAssumption DEF Typed, TakeRecords
<1>7. /\ takes'[control].latest = frame.picture
      /\ \A t \in TakeIds : t # control => takes'[t] = takes[t]
  <2>1. takes' = [takes EXCEPT ![control].latest = frame.picture]
    BY DEF Fills
  <2> QED  BY <2>1, <1>6 DEF TakeRecords
<1>8. /\ InFlight \in Seq(Captures) /\ Len(InFlight) \in Nat
      /\ DOMAIN InFlight = 1 .. Len(InFlight)
      /\ \A i \in DOMAIN InFlight : InFlight[i] \in Captures
  BY Flying
<1>9. c \in Captures
  <2>1. p \in Nat \ {0}
    <3>1. Len(pools) \in Nat
      BY PoolTypes
    <3> QED  BY <3>1
  <2> QED  BY <2>1 DEF Captures
<1>10. c.pool = p /\ c.buffer = b /\ c.frame = frame
  OBVIOUS
<1>11. InFlight' = Append(InFlight, c)
  OBVIOUS
<1> HIDE DEF c
<1>12. /\ DOMAIN InFlight' = 1 .. Len(InFlight) + 1
       /\ \A i \in 1 .. Len(InFlight) : InFlight'[i] = InFlight[i]
       /\ InFlight'[Len(InFlight) + 1] = c
  BY <1>8, <1>9, <1>11, AppendProperties
<1>13. frame.picture \in 1 .. MaxPictures /\ takes[control].latest \in 0 .. MaxPictures
  BY <1>6 DEF Pictures
<1>14. ASSUME NEW e \in Captures, Staged(e) PROVE Staged(e)' /\ Apart(e, c)
  <2>1. /\ e.pool \in DOMAIN pools /\ e.buffer \in DOMAIN pools[e.pool].held
        /\ pools[e.pool].held[e.buffer] = e.frame
        /\ e.buffer \notin ToSet(pools[e.pool].free)
        /\ e.frame.picture <= takes[e.frame.take].latest
    BY <1>14 DEF Staged
  <2>2. made[e.pool] = pools[e.pool] /\ e.pool \in DOMAIN pools'
    BY <2>1, <1>1, <1>4
  <2>3. e.pool = p => e.buffer # b
    BY <2>1, <2>2, <1>3
  <2>4. e.buffer \in DOMAIN pools'[e.pool].held /\ pools'[e.pool].held[e.buffer] = e.frame
        /\ e.buffer \notin ToSet(pools'[e.pool].free)
    <3>1. CASE e.pool = p
      BY <3>1, <2>1, <2>2, <2>3, <1>3, <1>4
    <3>2. CASE e.pool # p
      BY <3>2, <2>1, <2>2, <1>4, <1>1
    <3> QED  BY <3>1, <3>2
  <2>5. e.frame.take \in TakeIds /\ e.frame.picture \in 1 .. MaxPictures
    BY DEF Captures, Pictures
  <2>6. e.frame.picture <= takes'[e.frame.take].latest
    <3>1. CASE e.frame.take = control
      BY <3>1, <2>1, <2>5, <1>7, <1>13, <1>6
    <3>2. CASE e.frame.take # control
      BY <3>2, <2>1, <2>5, <1>7
    <3> QED  BY <3>1, <3>2
  <2>7. e.frame.take = c.frame.take => e.frame.picture < c.frame.picture
    BY <2>1, <2>5, <1>10, <1>13, <1>6
  <2> QED  BY <2>2, <2>3, <2>4, <2>6, <2>7, <1>10 DEF Staged, Apart
<1>15. Staged(c)'
  <2>1. p \in DOMAIN pools' /\ b \in DOMAIN pools'[p].held /\ pools'[p].held[b] = frame
        /\ b \notin ToSet(pools'[p].free) /\ frame.picture <= takes'[frame.take].latest
    BY <1>1, <1>3, <1>4, <1>7, <1>13
  <2>2. c' = c
    BY DEF c
  <2> QED  BY <2>1, <2>2, <1>10 DEF Staged
<1>16. \A i \in DOMAIN InFlight' : i \in 1 .. Len(InFlight) \/ i = Len(InFlight) + 1
  BY <1>8, <1>12
<1>17. ASSUME NEW i \in DOMAIN InFlight' PROVE Staged(InFlight[i])'
  <2>1. CASE i \in 1 .. Len(InFlight)
    <3>2. InFlight[i] \in Captures /\ Staged(InFlight[i]) /\ InFlight'[i] = InFlight[i]
      BY <2>1, <1>8, <1>12 DEF FlightsInv
    <3> QED  BY <3>2, <1>14 DEF Staged
  <2>2. CASE i = Len(InFlight) + 1
    BY <2>2, <1>12, <1>15 DEF Staged, c
  <2> QED  BY <2>1, <2>2, <1>16
<1>18. ASSUME NEW i \in DOMAIN InFlight', NEW j \in DOMAIN InFlight', i < j
       PROVE  Apart(InFlight[i], InFlight[j])'
  <2>1. i \in 1 .. Len(InFlight) /\ InFlight'[i] = InFlight[i] /\ InFlight[i] \in Captures
        /\ Staged(InFlight[i])
    BY <1>8, <1>12, <1>16, <1>18 DEF FlightsInv
  <2>2. CASE j \in 1 .. Len(InFlight)
    BY <2>1, <2>2, <1>8, <1>12, <1>18 DEF FlightsInv, Apart
  <2>3. CASE j = Len(InFlight) + 1
    BY <2>1, <2>3, <1>12, <1>14 DEF Apart
  <2> QED  BY <2>2, <2>3, <1>16
<1> QED  BY <1>4, <1>5, <1>17, <1>18 DEF FlightsInv


(* How captures move from one place to the next without leaving. *)
LEMMA HeadFirst ==
  ASSUME NEW S, NEW s \in Seq(S), s # <<>>
  PROVE  /\ s = <<Head(s)>> \o Tail(s) /\ <<Head(s)>> \in Seq(S) /\ Tail(s) \in Seq(S)
         /\ Head(s) \in S
<1>1. Head(s) \in S /\ Tail(s) \in Seq(S) /\ Len(Tail(s)) = Len(s) - 1
      /\ \A i \in 1 .. Len(Tail(s)) : Tail(s)[i] = s[i + 1]
  BY HeadTailProperties
<1>2. <<Head(s)>> \in Seq(S) /\ Len(<<Head(s)>>) = 1 /\ <<Head(s)>>[1] = s[1]
  BY <1>1
<1>3. Len(s) \in Nat /\ Len(s) >= 1
  BY EmptySeq, LenProperties
<1> DEFINE h == <<Head(s)>>
           r == Tail(s)
<1>4. h \in Seq(S) /\ Len(h) = 1 /\ h[1] = s[1] /\ r \in Seq(S) /\ Len(r) = Len(s) - 1
      /\ \A i \in 1 .. Len(r) : r[i] = s[i + 1]
  BY <1>1, <1>2
<1> HIDE DEF h, r
<1>5. h \o r \in Seq(S) /\ Len(h \o r) = 1 + Len(r)
      /\ \A i \in 1 .. 1 + Len(r) : (h \o r)[i] = IF i <= 1 THEN h[i] ELSE r[i - 1]
  <2>1. /\ h \o r \in Seq(S) /\ Len(h \o r) = Len(h) + Len(r)
        /\ \A i \in 1 .. Len(h) + Len(r) :
             (h \o r)[i] = IF i <= Len(h) THEN h[i] ELSE r[i - Len(h)]
    <3>1. h \in Seq(S) /\ r \in Seq(S)
      BY <1>4
    <3> QED  BY <3>1, ConcatProperties
  <2>2. Len(h) = 1
    BY <1>4
  <2> QED  BY <2>1, <2>2
<1>6. ASSUME NEW i \in 1 .. Len(s) PROVE (h \o r)[i] = s[i]
  <2>1. CASE i = 1
    BY <2>1, <1>3, <1>4, <1>5
  <2>2. CASE i # 1
    <3>1. i - 1 \in 1 .. Len(r) /\ ~(i <= 1) /\ i \in 1 .. 1 + Len(r) /\ (i - 1) + 1 = i
      BY <2>2, <1>3, <1>4
    <3> QED  BY <3>1, <1>4, <1>5
  <2> QED  BY <2>1, <2>2
<1>7. s = h \o r
  <2> DEFINE u == h \o r
  <2>1. u \in Seq(S) /\ Len(u) = Len(s) /\ \A i \in 1 .. Len(s) : u[i] = s[i]
    BY <1>3, <1>4, <1>5, <1>6
  <2> HIDE DEF u
  <2>2. u = s
    BY <2>1
  <2> QED  BY <2>2 DEF u
<1> QED  BY <1>1, <1>2, <1>7 DEF h, r

(* Concatenation is associative. *)
Grouped(x, y, z) == (x \o y) \o z = x \o (y \o z)

LEMMA Associative ==
  ASSUME NEW S, NEW x \in Seq(S), NEW y \in Seq(S), NEW z \in Seq(S)
  PROVE  Grouped(x, y, z)
BY ConcatAssociative, SMTT(30) DEF Grouped

LEMMA Moves ==
  ASSUME NEW S, NEW a \in Seq(S), NEW b \in Seq(S), NEW c \in Seq(S), NEW d \in Seq(S)
  PROVE  /\ \A e \in Seq(S) : a \o b \o (c \o d) \o e = (a \o b \o c \o d) \o e
         /\ c # <<>> => a \o Append(b, Head(c)) \o Tail(c) \o d = a \o b \o c \o d
         /\ b # <<>> => <<Head(b)>> \o Tail(b) \o c \o d = <<>> \o b \o c \o d
<1>1. a \o b \in Seq(S)
  BY ConcatProperties
<1>2. a \o b \o (c \o d) = a \o b \o c \o d
  <2>1. Grouped(a \o b, c, d)
    BY <1>1, Associative
  <2> QED  BY <2>1 DEF Grouped
<1>3. ASSUME c # <<>> PROVE a \o Append(b, Head(c)) \o Tail(c) \o d = a \o b \o c \o d
  <2>1. PICK h \in Seq(S), r \in Seq(S) :
          c = h \o r /\ Append(b, Head(c)) = b \o h /\ Tail(c) = r
    <3>1. /\ c = <<Head(c)>> \o Tail(c) /\ <<Head(c)>> \in Seq(S) /\ Tail(c) \in Seq(S)
          /\ Head(c) \in S
      BY <1>3, HeadFirst
    <3>2. Append(b, Head(c)) = b \o <<Head(c)>>
      BY <3>1, AppendIsConcat
    <3> QED  BY <3>1, <3>2
  <2>2. a \o (b \o h) \o r = a \o b \o (h \o r)
    <3>1. Grouped(a, b, h) /\ Grouped(a \o b, h, r)
      BY <1>1, <2>1, Associative
    <3> QED  BY <3>1 DEF Grouped
  <2> QED  BY <2>1, <2>2
<1>4. ASSUME b # <<>> PROVE <<Head(b)>> \o Tail(b) \o c \o d = <<>> \o b \o c \o d
  <2>1. <<Head(b)>> \o Tail(b) = b /\ <<>> \o b = b
    BY <1>4, HeadFirst, ConcatEmptySeq
  <2> QED  BY <2>1
<1> QED  BY <1>2, <1>3, <1>4

(* What the encoder holds back comes before what is left on the way. *)
LEMMA AheadLeaves ==
  ASSUME TypeOK, AheadInv, NEW n, LeftOf(InFlight', InFlight, n),
         \A t \in TakeIds : takes'[t].latest = takes[t].latest,
         movie' = movie, Running' => Running /\ thread'.take = thread.take /\ thread.take \in TakeIds
  PROVE  AheadInv'
<1> SUFFICES ASSUME Running', movie'.layout # "none"
             PROVE  /\ movie'.held[1].picture <= takes'[thread'.take].latest
                    /\ \A i \in DOMAIN InFlight' :
                         InFlight'[i].frame.take = thread'.take
                           => Before(movie'.held[1], InFlight'[i].frame)
  BY DEF AheadInv, Before
<1>1. /\ movie.held[1].picture <= takes[thread.take].latest
      /\ \A i \in DOMAIN InFlight :
           InFlight[i].frame.take = thread.take => Before(movie.held[1], InFlight[i].frame)
  BY DEF AheadInv
<1>2. \A i \in DOMAIN InFlight' : \E j \in DOMAIN InFlight : InFlight'[i] = InFlight[j]
  BY DEF LeftOf
<1> QED  BY <1>1, <1>2

Flights == FlightsInv /\ PoolsInv /\ AheadInv

(* The application's steps, and starting a take, move no capture. *)
LEMMA StillFlights ==
  ASSUME TypeOK, Flights, InFlight' = InFlight, pools' = pools,
         \A t \in TakeIds : takes'[t].latest = takes[t].latest
  PROVE  FlightsInv' /\ PoolsInv'
         /\ (movie' = movie /\ (Running' => Running /\ thread'.take = thread.take
                                            /\ thread.take \in TakeIds) => AheadInv')
<1>1. LeftOf(InFlight', InFlight, 0)
  BY Flying, AllIsLeft
<1>2. FlightsInv' /\ PoolsInv'
  BY <1>1, FlightsLeave DEF Flights
<1> QED  BY <1>1, <1>2, AheadLeaves DEF Flights


-----------------------------------------------------------------------------
(* Every step and the captures on their way *)

LEMMA Queues ==
  ASSUME TypeOK
  PROVE  /\ thread.inHand \in Seq(Captures) /\ channel \in Seq(Captures)
         /\ mapping \in Seq(Captures) /\ tap.pending \in Seq(Captures)
BY Types DEF Typed, ThreadRecords, TapRecords

LEMMA OwnTake ==
  ASSUME TypeOK, TakesAgree, Running
  PROVE  thread.take \in TakeIds /\ thread.take = ui.recorder
BY Types DEF Typed, UiRecords, TakesAgree

(* Counting a dropped frame changes nothing else of a take. *)
LEMMA DroppedOne ==
  ASSUME NEW ts \in [TakeIds -> TakeRecords], NEW t \in TakeIds
  PROVE  LET us == [ts EXCEPT ![t].dropped = @ + 1] IN
         /\ us \in [TakeIds -> TakeRecords]
         /\ \A u \in TakeIds : /\ us[u].latest = ts[u].latest /\ us[u].stopping = ts[u].stopping
                               /\ us[u].finished = ts[u].finished
                               /\ us[u].failed = ts[u].failed
                               /\ u # t => us[u] = ts[u]
         /\ us[t].dropped = ts[t].dropped + 1
<1> DEFINE r == [ts[t] EXCEPT !.dropped = @ + 1]
           us == [ts EXCEPT ![t] = r]
<1>1. ts[t] \in TakeRecords
  OBVIOUS
<1>2. ts[t].dropped + 1 \in Nat
  BY <1>1 DEF TakeRecords
<1>3. /\ r \in TakeRecords /\ r.latest = ts[t].latest /\ r.stopping = ts[t].stopping
      /\ r.finished = ts[t].finished /\ r.failed = ts[t].failed /\ r.dropped = ts[t].dropped + 1
  BY <1>1, <1>2 DEF TakeRecords
<1>4. us = [ts EXCEPT ![t].dropped = @ + 1]
  OBVIOUS
<1> HIDE DEF r
<1>5. us \in [TakeIds -> TakeRecords] /\ us[t] = r /\ \A u \in TakeIds : u # t => us[u] = ts[u]
  BY <1>3
<1> HIDE DEF us
<1> QED  BY <1>3, <1>4, <1>5

LEMMA DrawFlights ==
  ASSUME TypeOK, TakesAgree, TapFollows, ScreenInv, Flights, MovieInv,
         NEW upload \in Uploads, Draw(upload)
  PROVE  Flights' /\ TypeOK'
<1>1. /\ UNCHANGED <<ui, control, channel, faults, thread, movie, files>>
      /\ mapping' = mapping \o tap.pending
      /\ screen' = Shown(upload) /\ presented' \in BOOLEAN
      /\ tap' \in TapRecords(Len(pools')) /\ tap'.take = control
      /\ \/ Idles
         \/ /\ control \in TakeIds
            /\ \E p \in 1 .. Len(pools) + 1 : Drops(p)
         \/ /\ control \in TakeIds /\ NewFrame(upload) \in Pictures
            /\ takes[control].latest < NewFrame(upload).picture
            /\ \E p \in 1 .. Len(pools) + 1 : \E b \in 1 .. PoolLimit :
                 b = Acquired(WithPool(p)[p]) /\ Fills(p, b, NewFrame(upload))
  BY DrawSteps DEF Flights
<1>2. InFlight' = InFlight \o tap'.pending
  <2> DEFINE e == tap'.pending
  <2>1. e \in Seq(Captures)
    BY <1>1 DEF TapRecords
  <2>2. InFlight' = thread.inHand \o channel \o (mapping \o tap.pending) \o e
    BY <1>1 DEF InFlight
  <2> HIDE DEF e
  <2>3. \A x \in Seq(Captures) :
          thread.inHand \o channel \o (mapping \o tap.pending) \o x
            = (thread.inHand \o channel \o mapping \o tap.pending) \o x
    <3> DEFINE S == Seq(Captures)
               a == thread.inHand
               b == channel
               c == mapping
               d == tap.pending
    <3>1. a \in S /\ b \in S /\ c \in S /\ d \in S
      BY Queues
    <3> DEFINE Moved(a1, b1, c1, d1, x) ==
                 a1 \o b1 \o (c1 \o d1) \o x = (a1 \o b1 \o c1 \o d1) \o x
    <3>2. \A a1, b1, c1, d1 \in S : \A x \in S : Moved(a1, b1, c1, d1, x)
      BY Moves, SMTT(40)
    <3> HIDE DEF S, a, b, c, d, Moved
    <3>3. \A x \in S : Moved(a, b, c, d, x)
      BY <3>1, <3>2
    <3> QED  BY <3>3 DEF S, a, b, c, d, Moved
  <2> QED  BY <2>1, <2>2, <2>3 DEF InFlight, e
<1>3. Running' => Running /\ thread'.take = thread.take /\ thread.take \in TakeIds
  BY <1>1, OwnTake DEF Running
<1>4. tap'.pending = <<>> => InFlight' = InFlight
  BY <1>2, Flying, ConcatEmptySeq
<1>5. /\ takes \in [TakeIds -> TakeRecords] /\ pools \in Seq(StagingPools)
      /\ \A p \in DOMAIN pools : Len(pools[p].held) <= PoolLimit
      /\ mapping \o tap.pending \in Seq(Captures)
      /\ Shown(upload) \in ScreenRecords
  BY Types, Queues, ConcatProperties, ShownIs DEF Typed
<1>6. takes' \in [TakeIds -> TakeRecords] /\ pools' \in Seq(StagingPools)
      /\ (\A p \in DOMAIN pools' : Len(pools'[p].held) <= PoolLimit) => TypeOK'
  <2>1. /\ ui \in UiRecords /\ control \in TakeIds \cup {NoTake}
        /\ channel \in Seq(Captures) /\ thread \in ThreadRecords /\ movie \in Movies
        /\ FileMap(files) /\ faults \in 0 .. MaxFaults
    BY Types DEF Typed
  <2> QED  BY <2>1, <1>1, <1>5, Types DEF Typed
<1>7. CASE Idles
  <2>1. takes' = takes /\ pools' = pools /\ tap'.pending = <<>>
    BY <1>7 DEF Idles
  <2>2. Flights'
    BY <2>1, <1>1, <1>3, <1>4, StillFlights DEF Flights
  <2> QED  BY <2>1, <2>2, <1>5, <1>6
<1>8. ASSUME control \in TakeIds, NEW p \in 1 .. Len(pools) + 1, Drops(p) PROVE Flights' /\ TypeOK'
  <2>1. takes' = [takes EXCEPT ![control].dropped = @ + 1] /\ pools' = WithPool(p)
        /\ tap'.pending = <<>>
    BY <1>8 DEF Drops
  <2>2. takes' \in [TakeIds -> TakeRecords] /\ \A t \in TakeIds : takes'[t].latest = takes[t].latest
    BY <2>1, <1>5, <1>8, DroppedOne
  <2>3. InFlight' = InFlight
    BY <2>1, <1>4
  <2>4. FlightsInv' /\ PoolsInv'
    BY <2>1, <2>2, <2>3, FlightsOfDrop DEF Flights
  <2>5. LeftOf(InFlight', InFlight, 0)
    BY <2>3, Flying, AllIsLeft
  <2>6. AheadInv'
    BY <2>2, <2>5, <1>1, <1>3, AheadLeaves DEF Flights
  <2>7. pools' \in Seq(StagingPools) /\ \A x \in DOMAIN pools' : Len(pools'[x].held) <= PoolLimit
    BY <2>1, MadePools DEF Flights, PoolInv
  <2> QED  BY <2>2, <2>4, <2>6, <2>7, <1>6 DEF Flights
<1>9. ASSUME control \in TakeIds, NewFrame(upload) \in Pictures,
             takes[control].latest < NewFrame(upload).picture,
             NEW p \in 1 .. Len(pools) + 1, NEW b \in 1 .. PoolLimit,
             b = Acquired(WithPool(p)[p]), Fills(p, b, NewFrame(upload))
      PROVE  Flights' /\ TypeOK'
  <2> DEFINE frame == NewFrame(upload)
             c == [pool |-> p, buffer |-> b, frame |-> frame]
  <2>1. /\ takes' = [takes EXCEPT ![control].latest = frame.picture]
        /\ tap'.pending = <<c>>
    BY <1>9 DEF Fills
  <2>2. frame \in Pictures /\ frame.take = control /\ frame.picture \in 0 .. MaxPictures
    BY <1>9, RecordingAssumption DEF NewFrame, Pictures
  <2>3. takes[control].latest < frame.picture /\ Fills(p, b, frame)
    BY <1>9
  <2> HIDE DEF frame
  <2>4. c \in Captures
    <3>1. p \in Nat \ {0}
      <4>1. Len(pools) \in Nat
        BY PoolTypes DEF Flights
      <4> QED  BY <4>1
    <3> QED  BY <3>1, <2>2 DEF Captures
  <2>5. InFlight' = Append(InFlight, c)
    <3> HIDE DEF c
    <3>1. InFlight' = InFlight \o <<c>>
      BY <2>1, <1>2
    <3> QED  BY <3>1, <2>4, Flying, AppendIsConcat
  <2>6. FlightsInv' /\ PoolsInv' /\ pools' \in Seq(StagingPools)
        /\ \A x \in DOMAIN pools' : Len(pools'[x].held) <= PoolLimit
    BY <2>2, <2>3, <2>5, <1>9, FlightsOfFill DEF Flights
  <2>7. takes' \in [TakeIds -> TakeRecords] /\ takes'[control].latest = frame.picture
        /\ \A t \in TakeIds : t # control => takes'[t] = takes[t]
    <3> DEFINE rec == [takes[control] EXCEPT !.latest = frame.picture]
    <3>1. control \in TakeIds /\ takes \in [TakeIds -> TakeRecords] /\ frame.picture \in 0 .. MaxPictures
      BY <2>2, <1>5, <1>9
    <3>2. rec \in TakeRecords /\ rec.latest = frame.picture
      <4>1. takes[control] \in TakeRecords
        BY <3>1
      <4> QED  BY <3>1, <4>1 DEF TakeRecords
    <3>3. takes' = [takes EXCEPT ![control] = rec]
      BY <2>1
    <3> HIDE DEF rec
    <3>4. takes'[control] = rec /\ \A t \in TakeIds : t # control => takes'[t] = takes[t]
      BY <3>1, <3>3
    <3> QED  BY <3>1, <3>2, <3>3, <3>4
  <2>8. AheadInv'
    <3> SUFFICES ASSUME Running, movie.layout # "none"
                 PROVE  /\ movie.held[1].picture <= takes'[thread.take].latest
                        /\ \A i \in DOMAIN InFlight' :
                             InFlight'[i].frame.take = thread.take
                               => Before(movie.held[1], InFlight'[i].frame)
      BY <1>1 DEF AheadInv, Running, Before
    <3>1. /\ movie.held[1].picture <= takes[thread.take].latest
          /\ \A i \in DOMAIN InFlight :
               InFlight[i].frame.take = thread.take => Before(movie.held[1], InFlight[i].frame)
      BY DEF AheadInv, Flights
    <3>2. thread.take \in TakeIds /\ takes[thread.take].latest \in Nat
      BY <1>5, OwnTake DEF TakeRecords
    <3>3. movie.held[1] \in Pictures /\ movie.held[1].take = thread.take
      <4>1. OpenInv(files, movie, thread.take)
        BY DEF MovieInv, WritingInv
      <4>2. movie.held \in Seq(Pictures) /\ Len(movie.held) = 1 /\ movie.held[1].take = thread.take
        BY <4>1, Types DEF Typed, OpenInv, Movies
      <4>3. 1 \in 1 .. Len(movie.held)
        BY <4>2
      <4> QED  BY <4>2, <4>3, ElementOfSeq
    <3>4. movie.held[1].picture \in Nat /\ frame.picture \in Nat
      BY <2>2, <3>3, RecordingAssumption DEF Pictures
    <3>5. takes[thread.take].latest <= takes'[thread.take].latest
      <4>1. CASE thread.take = control
        BY <4>1, <2>3, <2>7, <3>2, <3>4
      <4>2. CASE thread.take # control
        BY <4>2, <2>7, <3>2
      <4> QED  BY <4>1, <4>2
    <3>6. takes'[thread.take].latest \in Nat
      BY <2>7, <3>2, RecordingAssumption DEF TakeRecords
    <3>7. ASSUME NEW i \in DOMAIN InFlight', InFlight'[i].frame.take = thread.take
          PROVE  Before(movie.held[1], InFlight'[i].frame)
      <4>1. /\ DOMAIN InFlight' = 1 .. Len(InFlight) + 1 /\ Len(InFlight) \in Nat
            /\ DOMAIN InFlight = 1 .. Len(InFlight)
            /\ \A k \in 1 .. Len(InFlight) : InFlight'[k] = InFlight[k]
            /\ InFlight'[Len(InFlight) + 1] = c
        <5> HIDE DEF c
        <5> QED  BY <2>4, <2>5, Flying, AppendProperties
      <4>2. CASE i \in 1 .. Len(InFlight)
        BY <4>1, <4>2, <3>1, <3>7
      <4>3. CASE i = Len(InFlight) + 1
        <5>1. InFlight'[i].frame = frame
          BY <4>1, <4>3
        <5>2. thread.take = control
          BY <5>1, <2>2, <3>7
        <5>3. movie.held[1].picture < frame.picture
          BY <5>2, <2>3, <3>1, <3>2, <3>4
        <5> QED  BY <5>1, <5>2, <5>3, <2>2, <3>3 DEF Before
      <4> QED  BY <4>1, <4>2, <4>3
    <3> QED  BY <3>1, <3>2, <3>4, <3>5, <3>6, <3>7
  <2> QED  BY <2>6, <2>7, <2>8, <1>6 DEF Flights
<1> QED  BY <1>1, <1>7, <1>8, <1>9


LEMMA FlightMoves ==
  ASSUME TypeOK
  PROVE  /\ mapping # <<>> =>
              /\ thread.inHand \o Append(channel, Head(mapping)) \o Tail(mapping) \o tap.pending
                   = InFlight
              /\ LeftOf(thread.inHand \o channel \o Tail(mapping) \o tap.pending, InFlight,
                        Len(thread.inHand) + Len(channel) + 1)
         /\ thread.inHand = <<>> /\ channel # <<>> =>
              <<Head(channel)>> \o Tail(channel) \o mapping \o tap.pending = InFlight
         /\ \A n \in 0 .. Len(thread.inHand) :
              /\ LeftOf(<<>> \o <<>> \o mapping \o tap.pending, InFlight, n)
              /\ LeftOf(<<>> \o channel \o mapping \o tap.pending, InFlight, n)
<1> DEFINE S == Seq(Captures)
           a == thread.inHand
           b == channel
           c == mapping
           d == tap.pending
           AllStay(a1, b1, c1, d1) ==
             c1 # <<>> => a1 \o Append(b1, Head(c1)) \o Tail(c1) \o d1 = a1 \o b1 \o c1 \o d1
           Taken(b1, c1, d1) ==
             b1 # <<>> => <<Head(b1)>> \o Tail(b1) \o c1 \o d1 = <<>> \o b1 \o c1 \o d1
           OldestGone(a1, b1, c1, d1) ==
             c1 # <<>> => LeftOf(a1 \o b1 \o Tail(c1) \o d1, a1 \o b1 \o c1 \o d1,
                                 Len(a1) + Len(b1) + 1)
           FrontGone(a1, b1, c1, d1) ==
             \A n \in 0 .. Len(a1) :
               /\ LeftOf(<<>> \o <<>> \o c1 \o d1, a1 \o b1 \o c1 \o d1, n)
               /\ LeftOf(<<>> \o b1 \o c1 \o d1, a1 \o b1 \o c1 \o d1, n)
<1>1. a \in S /\ b \in S /\ c \in S /\ d \in S
  BY Queues
<1>2. \A a1, b1, c1, d1 \in S : AllStay(a1, b1, c1, d1)
  BY Moves, SMTT(40)
<1>3. \A a1, b1, c1, d1 \in S : Taken(b1, c1, d1)
  <2> SUFFICES ASSUME NEW b1 \in S, NEW c1 \in S, NEW d1 \in S, b1 # <<>>
               PROVE  <<Head(b1)>> \o Tail(b1) \o c1 \o d1 = <<>> \o b1 \o c1 \o d1
    OBVIOUS
  <2>1. <<Head(b1)>> \o Tail(b1) = b1
    BY HeadFirst
  <2>2. <<>> \o b1 = b1
    BY ConcatEmptySeq
  <2> QED  BY <2>1, <2>2
<1>4. \A a1, b1, c1, d1 \in S : OldestGone(a1, b1, c1, d1)
  BY WithoutOldest
<1>5. \A a1, b1, c1, d1 \in S : FrontGone(a1, b1, c1, d1)
  BY WithoutFront
<1>6. AllStay(a, b, c, d) /\ Taken(b, c, d) /\ OldestGone(a, b, c, d) /\ FrontGone(a, b, c, d)
  <2> HIDE DEF S, a, b, c, d, AllStay, Taken, OldestGone, FrontGone
  <2> QED  BY <1>1, <1>2, <1>3, <1>4, <1>5
<1>7. InFlight = a \o b \o c \o d
  BY DEF InFlight
<1> QED  BY <1>6, <1>7

(* A mapping that completes: the capture goes on to the thread, back to    *)
(* its pool, or is lost with its buffer.                                   *)
LEMMA MapFlights ==
  ASSUME TypeOK, TakesAgree, Flights, MapCompletes
  PROVE  Flights' /\ TypeOK'
         /\ takes' \in [TakeIds -> TakeRecords]
         /\ \A t \in TakeIds :
              /\ takes'[t].latest = takes[t].latest /\ takes'[t].stopping = takes[t].stopping
              /\ takes'[t].finished = takes[t].finished /\ takes'[t].failed = takes[t].failed
              /\ takes'[t].dropped = takes[t].dropped \/ takes'[t].dropped > 0
              /\ ui.started < t => takes'[t] = takes[t]
<1> DEFINE c == Head(mapping)
           n == Len(thread.inHand) + Len(channel) + 1
<1>1. /\ UNCHANGED <<ui, control, screen, presented, tap, thread, movie, files>>
      /\ mapping # <<>> /\ mapping' = Tail(mapping)
  BY DEF MapCompletes, rendererVars, threadVars
<1>2. c \in Captures /\ Tail(mapping) \in Seq(Captures) /\ c.frame.take \in TakeIds
  <2>1. c \in Captures /\ Tail(mapping) \in Seq(Captures)
    BY <1>1, Queues, HeadTailProperties
  <2> QED  BY <2>1 DEF Captures, Pictures
<1>3. n \in DOMAIN InFlight /\ InFlight[n] = c
  BY <1>1, Flying
<1> HIDE DEF c, n
<1>4. Running' => Running /\ thread'.take = thread.take /\ thread.take \in TakeIds
  BY <1>1, OwnTake DEF Running
<1>5. /\ takes \in [TakeIds -> TakeRecords] /\ pools \in Seq(StagingPools)
      /\ \A p \in DOMAIN pools : Len(pools[p].held) <= PoolLimit
      /\ ui \in UiRecords /\ control \in TakeIds \cup {NoTake}
      /\ channel \in Seq(Captures) /\ thread \in ThreadRecords /\ movie \in Movies
      /\ FileMap(files) /\ faults \in 0 .. MaxFaults /\ screen \in ScreenRecords
      /\ presented \in BOOLEAN /\ tap \in TapRecords(Len(pools))
  BY Types DEF Typed
<1>6. Staged(c)
  BY <1>3 DEF Flights, FlightsInv
<1>7. CASE Listening(c.frame.take) /\ channel' = Append(channel, c) /\ UNCHANGED <<takes, pools, faults>>
  <2>1. InFlight' = InFlight
    <3>1. InFlight' = thread.inHand \o Append(channel, Head(mapping)) \o Tail(mapping) \o tap.pending
      BY <1>1, <1>7 DEF InFlight, c
    <3> QED  BY <3>1, <1>1, FlightMoves
  <2>2. Flights'
    BY <2>1, <1>1, <1>4, <1>7, StillFlights DEF Flights
  <2>3. channel' \in Seq(Captures)
    BY <1>2, <1>5, <1>7, AppendProperties
  <2>4. TypeOK'
    BY <2>3, <1>1, <1>2, <1>5, <1>7, Types DEF Typed
  <2> QED  BY <2>2, <2>4, <1>5, <1>7
<1>8. CASE pools' = Released(c) /\ UNCHANGED <<takes, channel, faults>>
  <2>1. InFlight' = thread.inHand \o channel \o Tail(mapping) \o tap.pending
    BY <1>1, <1>8 DEF InFlight
  <2>2. LeftOf(InFlight', InFlight, n)
    BY <2>1, <1>1, FlightMoves DEF n
  <2>3. FlightsInv' /\ PoolsInv'
    BY <2>2, <1>3, <1>8, FlightsLeave DEF Flights
  <2>4. AheadInv'
    BY <2>2, <1>1, <1>4, <1>8, AheadLeaves DEF Flights
  <2>5. /\ Released(c) \in Seq(StagingPools) /\ DOMAIN Released(c) = DOMAIN pools
        /\ Len(Released(c)) = Len(pools)
        /\ \A p \in DOMAIN pools : Released(c)[p].held = pools[p].held
    BY <1>2, <1>6, ReleasedPools DEF Staged, Flights
  <2>6. TypeOK'
    BY <2>5, <1>1, <1>2, <1>5, <1>8, Types DEF Typed
  <2> QED  BY <2>3, <2>4, <2>6, <1>5, <1>8 DEF Flights
<1>9. CASE /\ faults < MaxFaults /\ faults' = faults + 1
           /\ takes' = [takes EXCEPT ![c.frame.take].dropped = @ + 1]
           /\ UNCHANGED <<pools, channel>>
  <2>1. InFlight' = thread.inHand \o channel \o Tail(mapping) \o tap.pending
    BY <1>1, <1>9 DEF InFlight
  <2>2. LeftOf(InFlight', InFlight, n)
    BY <2>1, <1>1, FlightMoves DEF n
  <2>3. /\ takes' \in [TakeIds -> TakeRecords]
        /\ \A t \in TakeIds :
              /\ takes'[t].latest = takes[t].latest /\ takes'[t].stopping = takes[t].stopping
              /\ takes'[t].finished = takes[t].finished /\ takes'[t].failed = takes[t].failed
              /\ t # c.frame.take => takes'[t] = takes[t]
        /\ takes'[c.frame.take].dropped = takes[c.frame.take].dropped + 1
    <3> DEFINE u == c.frame.take
    <3>1. u \in TakeIds /\ takes \in [TakeIds -> TakeRecords]
          /\ takes' = [takes EXCEPT ![u].dropped = @ + 1]
      BY <1>2, <1>5, <1>9
    <3> HIDE DEF u
    <3>2. /\ takes' \in [TakeIds -> TakeRecords]
          /\ \A t \in TakeIds :
                /\ takes'[t].latest = takes[t].latest /\ takes'[t].stopping = takes[t].stopping
                /\ takes'[t].finished = takes[t].finished /\ takes'[t].failed = takes[t].failed
                /\ t # u => takes'[t] = takes[t]
          /\ takes'[u].dropped = takes[u].dropped + 1
      BY <3>1, DroppedOne
    <3> QED  BY <3>2 DEF u
  <2>4. FlightsInv' /\ PoolsInv'
    BY <2>2, <2>3, <1>9, FlightsLeave DEF Flights
  <2>5. AheadInv'
    BY <2>2, <2>3, <1>1, <1>4, AheadLeaves DEF Flights
  <2>6. faults' \in 0 .. MaxFaults
    BY <1>5, <1>9, RecordingAssumption
  <2>7. TypeOK'
    BY <2>3, <2>6, <1>1, <1>2, <1>5, <1>9, Types DEF Typed
  <2>8. takes[c.frame.take].dropped \in Nat
    BY <1>2, <1>5 DEF TakeRecords
  <2>9. ~(ui.started < c.frame.take)
    <3>1. takes[c.frame.take].latest # 0
      <4>1. c.frame.picture \in 1 .. MaxPictures
        BY <1>2 DEF Captures, Pictures
      <4>2. c.frame.picture <= takes[c.frame.take].latest
        BY <1>6 DEF Staged
      <4> QED  BY <4>1, <4>2
    <3>2. NewTake.latest = 0
      BY DEF NewTake
    <3> QED  BY <3>1, <3>2, <1>2 DEF TakesAgree
  <2> QED  BY <2>3, <2>4, <2>5, <2>7, <2>8, <2>9 DEF Flights
<1> QED  BY <1>1, <1>7, <1>8, <1>9 DEF MapCompletes, c


(* What the thread does to its take: it goes on, and the take is as it was,*)
(* or it ends, and nothing is in its hands any more.                       *)
GoesOn ==
  /\ Running' /\ takes' = takes
  /\ Len(thread'.inHand) = (IF thread'.state = "pushing" THEN 1 ELSE 0)
  /\ \A i \in DOMAIN thread'.inHand : thread'.inHand[i].frame.take = thread.take
  /\ \A i \in DOMAIN channel' : channel'[i].frame.take = thread.take
Ends ==
  /\ thread'.state = "done" /\ thread'.inHand = <<>> /\ channel' = <<>>
  /\ \/ takes' = Ended(thread.take, TRUE)
     \/ \E d \in BOOLEAN : Finish(d)

LEMMA ThreadShape ==
  ASSUME TypeOK, TakesAgree, ThreadHolds, ThreadNext
  PROVE  /\ UNCHANGED <<ui, control, mapping, screen, presented, tap>> /\ ThreadStep
         /\ Running /\ thread.take \in TakeIds /\ thread' \in ThreadRecords
         /\ thread'.take = thread.take
         /\ channel' \in Seq(Captures) /\ faults' \in 0 .. MaxFaults
         /\ (GoesOn /\ ~Ends) \/ Ends
<1>1. UNCHANGED <<ui, control, mapping, screen, presented, tap>> /\ ThreadStep
  BY DEF ThreadNext, rendererVars
<1>2. /\ thread \in ThreadRecords /\ thread.inHand \in Seq(Captures)
      /\ channel \in Seq(Captures) /\ faults \in 0 .. MaxFaults /\ MaxFaults \in Nat
      /\ <<>> \in Seq(Captures)
  BY Types, RecordingAssumption, EmptySeq DEF Typed, ThreadRecords
<1>3. Running
  BY <1>1 DEF ThreadStep, Running, Receive, GraceOver, Expire, SegmentFails, WriteFails, FinishFails,
              Push, Finish
<1>4. thread.take \in TakeIds
  BY <1>3, OwnTake
<1>5. GoesOn => ~Ends
  BY DEF GoesOn, Ends, Running
<1>6. ASSUME Receive
      PROVE  /\ thread' \in ThreadRecords /\ thread'.take = thread.take
             /\ channel' \in Seq(Captures) /\ faults' = faults /\ GoesOn
  <2> DEFINE h == Head(channel)
             r == Tail(channel)
  <2>1. /\ channel # <<>> /\ channel' = r /\ UNCHANGED <<takes, faults>>
        /\ thread' = [thread EXCEPT !.state = "pushing", !.quiet = "no", !.inHand = <<h>>]
    BY <1>6 DEF Receive
  <2>2. /\ h \in Captures /\ r \in Seq(Captures) /\ Len(r) = Len(channel) - 1
        /\ \A i \in 1 .. Len(r) : r[i] = channel[i + 1]
    BY <1>2, <2>1, HeadTailProperties
  <2>3. Len(channel) \in Nat /\ Len(channel) >= 1 /\ DOMAIN channel = 1 .. Len(channel)
        /\ h = channel[1] /\ Len(r) \in Nat /\ DOMAIN r = 1 .. Len(r)
    BY <1>2, <2>1, <2>2, EmptySeq
  <2>4. h.frame.take = thread.take
    <3>1. 1 \in DOMAIN channel
      BY <2>3
    <3> QED  BY <3>1, <2>3 DEF ThreadHolds
  <2>5. ASSUME NEW i \in DOMAIN r PROVE r[i].frame.take = thread.take
    <3>1. i + 1 \in DOMAIN channel
      BY <2>2, <2>3
    <3> HIDE DEF r
    <3>2. r[i] = channel[i + 1]
      BY <2>2, <2>3
    <3> QED  BY <3>1, <3>2 DEF ThreadHolds
  <2>6. <<h>> \in Seq(Captures)
    BY <2>2
  <2> HIDE DEF h, r
  <2>7. /\ thread' \in ThreadRecords /\ thread'.take = thread.take /\ thread'.state = "pushing"
        /\ thread'.inHand = <<h>>
    BY <1>2, <2>1, <2>6 DEF ThreadRecords
  <2> QED  BY <2>1, <2>2, <2>4, <2>5, <2>7 DEF GoesOn, Running
<1>7. ASSUME GraceOver \/ Expire
      PROVE  /\ thread' \in ThreadRecords /\ thread'.take = thread.take
             /\ channel' \in Seq(Captures) /\ faults' = faults /\ GoesOn
  <2>1. /\ thread.state = "receiving" /\ UNCHANGED <<takes, channel, faults>>
        /\ \/ thread' = [thread EXCEPT !.quiet = Quiet]
           \/ thread' = [thread EXCEPT !.state = "finishing"]
    BY <1>7 DEF GraceOver, Expire
  <2>2. Quiet \in {"no", "before", "since"}
    BY DEF Quiet
  <2>3. /\ thread' \in ThreadRecords /\ thread'.take = thread.take
        /\ thread'.inHand = thread.inHand /\ thread'.state \in {"receiving", "finishing"}
    BY <1>2, <2>1, <2>2 DEF ThreadRecords
  <2>4. Len(thread.inHand) = 0
    BY <2>1 DEF ThreadHolds
  <2> QED  BY <1>2, <2>1, <2>3, <2>4 DEF GoesOn, Running, ThreadHolds
<1>8. ASSUME NEW d \in BOOLEAN, Push(d)
      PROVE  /\ thread' \in ThreadRecords /\ thread'.take = thread.take
             /\ channel' \in Seq(Captures) /\ faults' \in 0 .. MaxFaults /\ GoesOn
  <2>1. /\ thread' = [thread EXCEPT !.state = "receiving", !.inHand = <<>>]
        /\ UNCHANGED <<takes, channel>>
        /\ d => faults < MaxFaults
        /\ faults' = IF d THEN faults + 1 ELSE faults
    BY <1>8 DEF Push
  <2>2. faults' \in 0 .. MaxFaults
    BY <1>2, <2>1
  <2>3. /\ thread' \in ThreadRecords /\ thread'.take = thread.take
        /\ thread'.inHand = <<>> /\ thread'.state = "receiving"
    BY <1>2, <2>1 DEF ThreadRecords
  <2>4. Len(thread'.inHand) = 0 /\ DOMAIN thread'.inHand = {}
    BY <2>3
  <2> QED  BY <1>2, <2>1, <2>2, <2>3, <2>4 DEF GoesOn, Running, ThreadHolds
<1>9. ASSUME SegmentFails \/ WriteFails \/ FinishFails
      PROVE  /\ thread' \in ThreadRecords /\ thread'.take = thread.take
             /\ channel' \in Seq(Captures) /\ faults' \in 0 .. MaxFaults /\ Ends
  <2>1. Fail
    BY <1>9 DEF SegmentFails, WriteFails, FinishFails
  <2>2. /\ thread' = [thread EXCEPT !.state = "done", !.inHand = <<>>] /\ channel' = <<>>
        /\ faults < MaxFaults /\ faults' = faults + 1 /\ takes' = Ended(thread.take, TRUE)
    BY <2>1 DEF Fail
  <2>3. faults' \in 0 .. MaxFaults
    BY <1>2, <2>2
  <2>4. /\ thread' \in ThreadRecords /\ thread'.take = thread.take
        /\ thread'.inHand = <<>> /\ thread'.state = "done"
    BY <1>2, <2>2 DEF ThreadRecords
  <2> QED  BY <1>2, <2>2, <2>3, <2>4 DEF Ends
<1>10. ASSUME NEW d \in BOOLEAN, Finish(d)
       PROVE  /\ thread' \in ThreadRecords /\ thread'.take = thread.take
              /\ channel' \in Seq(Captures) /\ faults' \in 0 .. MaxFaults /\ Ends
  <2>1. /\ thread.state = "finishing" /\ thread' = [thread EXCEPT !.state = "done"]
        /\ channel' = <<>> /\ (d => faults < MaxFaults)
        /\ faults' = IF d THEN faults + 1 ELSE faults
    BY <1>10 DEF Finish
  <2>2. faults' \in 0 .. MaxFaults
    BY <1>2, <2>1
  <2>3. /\ thread' \in ThreadRecords /\ thread'.take = thread.take
        /\ thread'.inHand = thread.inHand /\ thread'.state = "done"
    BY <1>2, <2>1 DEF ThreadRecords
  <2>4. thread.inHand = <<>>
    <3>1. Len(thread.inHand) = 0
      BY <2>1 DEF ThreadHolds
    <3> QED  BY <3>1, <1>2
  <2> QED  BY <1>2, <1>10, <2>1, <2>2, <2>3, <2>4 DEF Ends
<1> QED  BY <1>1, <1>2, <1>3, <1>4, <1>5, <1>6, <1>7, <1>8, <1>9, <1>10 DEF ThreadStep

(* What ending does to the takes. *)
LEMMA ThreadTakes ==
  ASSUME TypeOK, TakesAgree, ThreadHolds, ThreadNext
  PROVE  /\ takes' \in [TakeIds -> TakeRecords]
         /\ \A t \in TakeIds :
              /\ takes'[t].latest = takes[t].latest /\ takes'[t].dropped = takes[t].dropped
              /\ takes'[t].stopping = takes[t].stopping
              /\ t # thread.take => takes'[t] = takes[t]
         /\ Ends => takes'[thread.take].finished
<1>1. thread.take \in TakeIds /\ (GoesOn \/ Ends) /\ takes \in [TakeIds -> TakeRecords]
  BY ThreadShape, Types DEF Typed
<1>2. GoesOn \/ \E failed \in BOOLEAN : takes' = Ended(thread.take, failed)
  <2>1. ASSUME NEW d \in BOOLEAN, Finish(d)
        PROVE  \E failed \in BOOLEAN : takes' = Ended(thread.take, failed)
    BY <2>1 DEF Finish
  <2> QED  BY <2>1, <1>1 DEF Ends
<1>3. CASE GoesOn
  <2>1. ~Ends
    BY <1>3 DEF GoesOn, Ends, Running
  <2> QED  BY <2>1, <1>1, <1>3 DEF GoesOn
<1>4. ASSUME NEW failed \in BOOLEAN, takes' = Ended(thread.take, failed)
      PROVE  /\ takes' \in [TakeIds -> TakeRecords]
             /\ \A t \in TakeIds :
                  /\ takes'[t].latest = takes[t].latest /\ takes'[t].dropped = takes[t].dropped
                  /\ takes'[t].stopping = takes[t].stopping
                  /\ t # thread.take => takes'[t] = takes[t]
             /\ Ends => takes'[thread.take].finished
  BY <1>1, <1>4, EndedIs
<1> QED  BY <1>2, <1>3, <1>4


(* A step of the thread keeps the captures in order, and gives back at     *)
(* most the buffer in its hand.                                            *)
LEMMA ThreadFlights ==
  ASSUME TypeOK, TakesAgree, ThreadHolds, Flights, FilesInv(files), MovieInv, IndexInv, ThreadNext
  PROVE  Flights' /\ TypeOK' /\ Written
<1>1. /\ UNCHANGED <<ui, control, mapping, screen, presented, tap>> /\ ThreadStep
      /\ Running /\ thread.take \in TakeIds /\ thread' \in ThreadRecords
      /\ thread'.take = thread.take
      /\ channel' \in Seq(Captures) /\ faults' \in 0 .. MaxFaults
      /\ GoesOn \/ Ends
  BY ThreadShape
<1>2. /\ takes' \in [TakeIds -> TakeRecords]
      /\ \A t \in TakeIds : takes'[t].latest = takes[t].latest
  BY ThreadTakes
<1>3. Written
  BY <1>1, ThreadWrites DEF Flights
<1>4. /\ thread.inHand \in Seq(Captures) /\ Len(thread.inHand) \in Nat
      /\ thread.inHand # <<>> => Len(thread.inHand) >= 1 /\ thread.inHand[1] \in Captures
  <2>1. thread.inHand \in Seq(Captures) /\ Len(thread.inHand) \in Nat
    BY Queues, LenProperties
  <2>2. thread.inHand # <<>> => Len(thread.inHand) >= 1 /\ 1 \in 1 .. Len(thread.inHand)
    BY <2>1, EmptySeq
  <2> QED  BY <2>1, <2>2, ElementOfSeq
<1>5. /\ pools' = pools \/ (thread.inHand # <<>> /\ pools' = Released(thread.inHand[1]))
  <2>1. ASSUME NEW d \in BOOLEAN, Push(d)
        PROVE  thread.inHand # <<>> /\ pools' = Released(thread.inHand[1])
    <3>1. thread.state = "pushing" /\ pools' = Released(thread.inHand[1])
      BY <2>1 DEF Push
    <3> QED  BY <3>1, InHand DEF Flights
  <2> QED  BY <2>1, <1>1 DEF ThreadStep, Receive, GraceOver, Expire, SegmentFails, WriteFails,
                             FinishFails, Finish
<1>6. TypeOK'
  <2>1. pools' \in Seq(StagingPools) /\ Len(pools') = Len(pools)
        /\ \A p \in DOMAIN pools' : Len(pools'[p].held) <= PoolLimit
    <3>1. CASE pools' = pools
      BY <3>1, Types DEF Typed
    <3>2. CASE thread.inHand # <<>> /\ pools' = Released(thread.inHand[1])
      <4> DEFINE e == thread.inHand[1]
      <4>1. e \in Captures /\ Staged(e)
        BY <3>2, <1>4, Flying DEF Flights, FlightsInv
      <4> HIDE DEF e
      <4>2. /\ Released(e) \in Seq(StagingPools) /\ DOMAIN Released(e) = DOMAIN pools
            /\ Len(Released(e)) = Len(pools)
            /\ \A p \in DOMAIN pools : Released(e)[p].held = pools[p].held
        BY <4>1, ReleasedPools DEF Staged, Flights
      <4>3. pools' = Released(e) /\ \A p \in DOMAIN pools : Len(pools[p].held) <= PoolLimit
        BY <3>2, Types DEF Typed, e
      <4> QED  BY <4>2, <4>3
    <3> QED  BY <1>5, <3>1, <3>2
  <2>2. /\ ui \in UiRecords /\ control \in TakeIds \cup {NoTake}
        /\ screen \in ScreenRecords /\ presented \in BOOLEAN /\ tap \in TapRecords(Len(pools))
        /\ mapping \in Seq(Captures)
    BY Types DEF Typed
  <2> QED  BY <2>1, <2>2, <1>1, <1>2, <1>3, Types DEF Typed, Written
<1>7. CASE Receive \/ GraceOver \/ Expire
  <2>1. pools' = pools /\ movie' = movie
    BY <1>7 DEF Receive, GraceOver, Expire
  <2>2. InFlight' = InFlight
    <3>1. CASE Receive
      <4>1. channel # <<>> /\ thread'.inHand = <<Head(channel)>> /\ channel' = Tail(channel)
        BY <3>1, Types DEF Typed, ThreadRecords, Receive
      <4>2. thread.inHand = <<>>
        <5>1. Len(thread.inHand) = 0
          BY <3>1 DEF Receive, ThreadHolds
        <5> QED  BY <5>1, <1>4
      <4>3. InFlight' = <<Head(channel)>> \o Tail(channel) \o mapping \o tap.pending
        BY <4>1, <1>1 DEF InFlight
      <4> QED  BY <4>1, <4>2, <4>3, FlightMoves
    <3>2. CASE GraceOver \/ Expire
      <4>1. thread'.inHand = thread.inHand /\ channel' = channel
        BY <3>2, Types DEF Typed, ThreadRecords, GraceOver, Expire
      <4> QED  BY <4>1, <1>1 DEF InFlight
    <3> QED  BY <1>7, <3>1, <3>2
  <2>3. Flights'
    BY <2>1, <2>2, <1>1, <1>2, StillFlights DEF Flights
  <2> QED  BY <2>3, <1>3, <1>6
<1>8. CASE Ends
  <2>1. ~Running'
    BY <1>8 DEF Ends, Running
  <2>2. AheadInv'
    BY <2>1 DEF AheadInv
  <2>3. InFlight' = <<>> \o <<>> \o mapping \o tap.pending
    BY <1>1, <1>8 DEF Ends, InFlight
  <2>4. \A n \in 0 .. Len(thread.inHand) : LeftOf(InFlight', InFlight, n)
    BY <2>3, FlightMoves
  <2>5. CASE pools' = pools
    <3>1. LeftOf(InFlight', InFlight, 0)
      BY <2>4, <1>4
    <3>2. FlightsInv' /\ PoolsInv'
      BY <3>1, <2>5, <1>2, FlightsLeave DEF Flights
    <3> QED  BY <3>2, <2>2, <1>3, <1>6 DEF Flights
  <2>6. CASE thread.inHand # <<>> /\ pools' = Released(thread.inHand[1])
    <3>1. LeftOf(InFlight', InFlight, 1)
      BY <2>4, <2>6, <1>4
    <3>2. 1 \in DOMAIN InFlight /\ InFlight[1] = thread.inHand[1]
      BY <2>6, Flying
    <3>3. FlightsInv' /\ PoolsInv'
      BY <3>1, <3>2, <2>6, <1>2, FlightsLeave DEF Flights
    <3> QED  BY <3>3, <2>2, <1>3, <1>6 DEF Flights
  <2> QED  BY <1>5, <2>5, <2>6
<1>9. ASSUME NEW d \in BOOLEAN, Push(d)
      PROVE  Flights'
  <2> DEFINE c == thread.inHand[1]
             frame == c.frame
  <2>1. /\ thread.state = "pushing" /\ pools' = Released(c) /\ channel' = channel
        /\ thread'.inHand = <<>> /\ takes' = takes
    BY <1>9, Types DEF Typed, ThreadRecords, Push
  <2>2. /\ thread.inHand # <<>> /\ c \in Captures /\ frame \in Pictures
        /\ frame.take = thread.take
        /\ frame.picture <= takes[frame.take].latest
        /\ 1 \in DOMAIN InFlight /\ InFlight[1] = c
    BY <2>1, InHand DEF Flights
  <2>3. InFlight' = <<>> \o channel \o mapping \o tap.pending
    BY <2>1, <1>1 DEF InFlight
  <2>4. LeftOf(InFlight', InFlight, 1)
    <3>1. 1 \in 0 .. Len(thread.inHand)
      BY <2>2, <1>4
    <3> QED  BY <2>3, <3>1, FlightMoves
  <2>5. FlightsInv' /\ PoolsInv'
    BY <2>1, <2>2, <2>4, FlightsLeave DEF Flights
  <2>6. movie'.layout # "none" /\ movie'.held = <<frame>>
    BY <1>9, PushWrites DEF Flights
  <2> HIDE DEF c, frame
  <2>7. AheadInv'
    <3>1. movie'.held[1] = frame
      BY <2>6
    <3>2. PICK f \in [DOMAIN InFlight' -> DOMAIN InFlight] :
            \A i \in DOMAIN InFlight' : InFlight'[i] = InFlight[f[i]] /\ f[i] # 1
      BY <2>4 DEF LeftOf
    <3>3. ASSUME NEW i \in DOMAIN InFlight', InFlight'[i].frame.take = thread.take
          PROVE  Before(frame, InFlight'[i].frame)
      <4> DEFINE k == f[i]
      <4>1. k \in DOMAIN InFlight /\ InFlight'[i] = InFlight[k] /\ k # 1
        BY <3>2
      <4> HIDE DEF k
      <4>2. 1 < k
        <5>1. DOMAIN InFlight = 1 .. Len(InFlight) /\ Len(InFlight) \in Nat
          BY Flying
        <5> QED  BY <4>1, <5>1
      <4>3. Apart(c, InFlight[k])
        BY <4>1, <4>2, <2>2 DEF Flights, FlightsInv
      <4> QED  BY <4>1, <4>3, <2>2, <3>3 DEF Apart, Before, frame
    <3>4. frame.picture <= takes'[thread.take].latest
      BY <2>1, <2>2
    <3> QED  BY <1>1, <3>1, <3>3, <3>4 DEF AheadInv, Before
  <2> QED  BY <2>5, <2>7 DEF Flights
<1>10. CASE \E d \in BOOLEAN : Push(d)
  BY <1>3, <1>6, <1>9, <1>10
<1>11. SegmentFails \/ WriteFails \/ FinishFails => Ends
  <2>1. ASSUME SegmentFails \/ WriteFails \/ FinishFails PROVE Ends
    <3>1. Fail
      BY <2>1 DEF SegmentFails, WriteFails, FinishFails
    <3> QED  BY <3>1, Types DEF Fail, Ends, Typed, ThreadRecords
  <2> QED  BY <2>1
<1>12. ASSUME NEW d \in BOOLEAN, Finish(d) PROVE Ends
  <2>1. thread'.state = "done"
    BY <1>12, Types DEF Finish, Typed, ThreadRecords
  <2> QED  BY <2>1, <1>1 DEF GoesOn, Running
<1> QED  BY <1>1, <1>7, <1>8, <1>10, <1>11, <1>12 DEF ThreadStep


-----------------------------------------------------------------------------
(* Every step keeps the invariant: the thread, the GPU and the tap *)

(* The takes a variable can name. *)
LEMMA Named ==
  ASSUME TypeOK
  PROVE  /\ ui \in UiRecords /\ ui.started \in 0 .. MaxTakes /\ ui.stopAsked \in BOOLEAN
         /\ ui.recorder \in TakeIds \cup {NoTake}
         /\ control \in TakeIds \cup {NoTake} /\ tap.take \in TakeIds \cup {NoTake}
         /\ thread.take \in TakeIds \cup {NoTake} /\ NoTake \notin TakeIds
         /\ TakeIds = 1 .. MaxTakes /\ MaxTakes \in Nat /\ NoTake = 0
         /\ takes \in [TakeIds -> TakeRecords]
         /\ \A t \in TakeIds : /\ takes[t].stopping \in BOOLEAN /\ takes[t].finished \in BOOLEAN
                               /\ takes[t].latest \in Nat /\ takes[t].dropped \in Nat
<1>1. takes \in [TakeIds -> TakeRecords]
  BY Types DEF Typed
<1>2. \A t \in TakeIds : /\ takes[t].stopping \in BOOLEAN /\ takes[t].finished \in BOOLEAN
                         /\ takes[t].latest \in Nat /\ takes[t].dropped \in Nat
  BY <1>1, RecordingAssumption DEF TakeRecords
<1> QED  BY <1>1, <1>2, Types, RecordingAssumption
         DEF Typed, UiRecords, TapRecords, ThreadRecords, TakeIds, NoTake

(* What holds of the takes when only counters of started takes move. *)
LEMMA TakesStay ==
  ASSUME TypeOK, TakesAgree, UNCHANGED <<ui, control, thread, movie>>,
         tap'.take \in {tap.take, control},
         \A t \in TakeIds : /\ takes'[t].stopping = takes[t].stopping
                            /\ takes'[t].finished = takes[t].finished
                            /\ ui.started < t => takes'[t] = takes[t]
  PROVE  TakesAgree'
BY Named DEF TakesAgree, Running

LEMMA SavedStays ==
  ASSUME TypeOK, TakesAgree, SavedMeansWhole, UNCHANGED <<thread, movie, files>>,
         \A t \in TakeIds : takes'[t].failed = takes[t].failed
  PROVE  SavedMeansWhole'
<1>1. ASSUME thread.state = "done" PROVE thread.take \in TakeIds
  <2>1. thread.take # NoTake
    BY <1>1 DEF TakesAgree
  <2> QED  BY <2>1, Named
<1> QED  BY <1>1 DEF SavedMeansWhole

LEMMA MapKeeps ==
  ASSUME IInv, MapCompletes
  PROVE  IInv'
<1>1. /\ Flights' /\ TypeOK'
      /\ \A t \in TakeIds :
              /\ takes'[t].latest = takes[t].latest /\ takes'[t].stopping = takes[t].stopping
              /\ takes'[t].finished = takes[t].finished /\ takes'[t].failed = takes[t].failed
              /\ takes'[t].dropped = takes[t].dropped \/ takes'[t].dropped > 0
              /\ ui.started < t => takes'[t] = takes[t]
  BY MapFlights DEF IInv, Flights
<1>2. /\ UNCHANGED <<ui, control, screen, presented, tap, thread, movie, files>>
      /\ mapping # <<>> /\ mapping' = Tail(mapping)
      /\ \/ Listening(Head(mapping).frame.take) /\ channel' = Append(channel, Head(mapping))
         \/ channel' = channel
  BY DEF MapCompletes, rendererVars, threadVars
<1>3. TakesAgree'
  BY <1>1, <1>2, TakesStay DEF IInv
<1>4. TapFollows'
  BY <1>1, <1>2, Named DEF IInv, TapFollows
<1>5. SavedMeansWhole'
  BY <1>1, <1>2, SavedStays DEF IInv
<1>6. ThreadHolds'
  <2>1. CASE channel' = channel
    BY <2>1, <1>2 DEF IInv, ThreadHolds, Running
  <2>2. CASE Listening(Head(mapping).frame.take) /\ channel' = Append(channel, Head(mapping))
    <3> DEFINE h == Head(mapping)
    <3>1. thread.take = h.frame.take /\ thread.state # "done"
      BY <2>2 DEF Listening
    <3>2. h \in Captures /\ channel \in Seq(Captures) /\ h.frame.take \in TakeIds
      <4>1. h \in Captures /\ channel \in Seq(Captures)
        BY <1>2, Queues, HeadTailProperties DEF IInv
      <4> QED  BY <4>1 DEF Captures, Pictures
    <3>3. channel' = Append(channel, h)
      BY <2>2
    <3> HIDE DEF h
    <3>4. Running
      <4>1. thread.state # "none"
        BY <3>1, <3>2, Named DEF IInv, TakesAgree
      <4>2. thread.state \in {"none", "receiving", "pushing", "finishing", "done"}
        BY Types DEF IInv, Typed, ThreadRecords
      <4> QED  BY <3>1, <4>1, <4>2 DEF Running
    <3>5. /\ DOMAIN channel' = 1 .. Len(channel) + 1 /\ Len(channel) \in Nat
          /\ DOMAIN channel = 1 .. Len(channel)
          /\ \A i \in 1 .. Len(channel) : channel'[i] = channel[i]
          /\ channel'[Len(channel) + 1] = h
      BY <3>2, <3>3, AppendProperties
    <3>6. ASSUME NEW i \in DOMAIN channel' PROVE channel'[i].frame.take = thread.take
      <4>1. CASE i \in 1 .. Len(channel)
        BY <4>1, <3>5 DEF IInv, ThreadHolds
      <4>2. CASE i = Len(channel) + 1
        BY <4>2, <3>1, <3>5
      <4> QED  BY <3>5, <4>1, <4>2
    <3> QED  BY <1>2, <3>4, <3>6 DEF IInv, ThreadHolds, Running
  <2> QED  BY <1>2, <2>1, <2>2
<1>7. /\ ScreenInv' /\ FilesInv(files)' /\ MovieInv' /\ IndexInv'
  BY <1>2, SMTT(40) DEF IInv, ScreenInv, FilesInv, MovieInv, IndexInv, Running, WritingInv, SegmentsInv,
              NoFileYet, OpenInv, Before, Path
<1> QED  BY <1>1, <1>3, <1>4, <1>5, <1>6, <1>7 DEF IInv, Flights

LEMMA DrawKeeps ==
  ASSUME IInv, NEW upload \in Uploads, Draw(upload)
  PROVE  IInv'
<1>1. Flights' /\ TypeOK'
  BY DrawFlights DEF IInv, Flights
<1>2. /\ UNCHANGED <<ui, control, channel, faults, thread, movie, files>>
      /\ screen' = Shown(upload) /\ tap'.take = control
      /\ \/ Idles
         \/ /\ control \in TakeIds
            /\ \E p \in 1 .. Len(pools) + 1 : Drops(p)
         \/ /\ control \in TakeIds /\ NewFrame(upload) \in Pictures
            /\ \E p \in 1 .. Len(pools) + 1 : \E b \in 1 .. PoolLimit :
                 Fills(p, b, NewFrame(upload))
      /\ control # NoTake /\ ~takes[control].stopping =>
           /\ ~presented' /\ ~tap'.awaiting
           /\ takes'[control].latest <= screen'.picture
           /\ takes'[control].dropped > 0 \/ takes'[control].latest = screen'.picture
  BY DrawSteps DEF IInv
<1>3. takes \in [TakeIds -> TakeRecords]
  BY Named DEF IInv
<1>4. \A t \in TakeIds :
        /\ takes'[t].stopping = takes[t].stopping /\ takes'[t].finished = takes[t].finished
        /\ takes'[t].failed = takes[t].failed
        /\ t # control => takes'[t] = takes[t]
  <2>1. CASE Idles
    BY <2>1 DEF Idles
  <2>2. ASSUME control \in TakeIds, NEW p, Drops(p)
        PROVE  \A t \in TakeIds :
                 /\ takes'[t].stopping = takes[t].stopping /\ takes'[t].finished = takes[t].finished
                 /\ takes'[t].failed = takes[t].failed
                 /\ t # control => takes'[t] = takes[t]
    <3>1. takes' = [takes EXCEPT ![control].dropped = @ + 1]
      BY <2>2 DEF Drops
    <3> QED  BY <3>1, <2>2, <1>3, DroppedOne
  <2>3. ASSUME control \in TakeIds, NEW x, takes' = [takes EXCEPT ![control].latest = x]
        PROVE  \A t \in TakeIds :
                 /\ takes'[t].stopping = takes[t].stopping /\ takes'[t].finished = takes[t].finished
                 /\ takes'[t].failed = takes[t].failed
                 /\ t # control => takes'[t] = takes[t]
    BY <2>3, <1>3 DEF TakeRecords
  <2> QED  BY <2>1, <2>2, <2>3, <1>2 DEF Fills
<1>5. TakesAgree'
  <2>1. control <= ui.started /\ ui.started \in Nat /\ (control \in Nat)
    BY Named DEF IInv, TakesAgree
  <2>2. \A t \in TakeIds : ui.started < t => t # control
    BY <2>1
  <2> QED  BY <2>2, <1>2, <1>4, TakesStay DEF IInv
<1>6. TapFollows'
  <2>1. control # NoTake => takes'[control].stopping = takes[control].stopping
    BY <1>4, Named DEF IInv
  <2> QED  BY <2>1, <1>2 DEF TapFollows
<1>7. SavedMeansWhole'
  BY <1>2, <1>4, SavedStays DEF IInv
<1>8. ThreadHolds'
  BY <1>2 DEF IInv, ThreadHolds, Running
<1>9. ScreenInv'
  BY <1>2, ShownIs DEF IInv, ScreenInv
<1>10. FilesInv(files)' /\ MovieInv' /\ IndexInv'
  BY <1>2 DEF IInv, FilesInv, MovieInv, IndexInv, Running, WritingInv, SegmentsInv,
              NoFileYet, OpenInv, Before, Path
<1> QED  BY <1>1, <1>5, <1>6, <1>7, <1>8, <1>9, <1>10 DEF IInv, Flights


LEMMA ThreadKeeps ==
  ASSUME IInv, ThreadNext
  PROVE  IInv'
<1>1. Flights' /\ TypeOK' /\ Written
  BY ThreadFlights DEF IInv, Flights
<1>2. /\ UNCHANGED <<ui, control, mapping, screen, presented, tap>> /\ ThreadStep
      /\ Running /\ thread.take \in TakeIds /\ thread' \in ThreadRecords
      /\ thread'.take = thread.take
      /\ (GoesOn /\ ~Ends) \/ Ends
  BY ThreadShape DEF IInv
<1>3. /\ takes' \in [TakeIds -> TakeRecords]
      /\ \A t \in TakeIds :
              /\ takes'[t].latest = takes[t].latest /\ takes'[t].dropped = takes[t].dropped
              /\ takes'[t].stopping = takes[t].stopping
              /\ t # thread.take => takes'[t] = takes[t]
  BY ThreadTakes DEF IInv
<1>4. TakesAgree'
  <2>1. thread.take <= ui.started /\ ui.started \in Nat /\ thread.take \in Nat
    BY <1>2, Named DEF IInv, TakesAgree
  <2>2. \A t \in TakeIds : ui.started < t => takes'[t] = NewTake
    BY <2>1, <1>3 DEF IInv, TakesAgree
  <2>3. Running' => ~takes'[thread.take].finished
    BY <1>2 DEF IInv, TakesAgree, GoesOn, Ends, Running
  <2>4. thread'.state # "none" /\ thread.take # NoTake
    BY <1>2, Named DEF IInv, GoesOn, Ends, Running
  <2>5. control # NoTake => takes'[control].stopping = takes[control].stopping
    BY <1>3, Named DEF IInv
  <2>6. ui.recorder # NoTake => takes'[ui.recorder].stopping = takes[ui.recorder].stopping
    BY <1>3, Named DEF IInv
  <2> QED  BY <1>2, <2>2, <2>3, <2>4, <2>5, <2>6 DEF IInv, TakesAgree
<1>5. ThreadHolds'
  <2>1. CASE Ends
    <3>1. Len(thread'.inHand) = 0 /\ DOMAIN thread'.inHand = {} /\ channel' = <<>>
          /\ DOMAIN channel' = {} /\ thread'.state = "done"
      BY <2>1 DEF Ends
    <3> QED  BY <3>1 DEF ThreadHolds
  <2>2. CASE GoesOn
    BY <2>2, <1>2 DEF GoesOn, ThreadHolds
  <2> QED  BY <1>2, <2>1, <2>2
<1>6. TapFollows'
  BY <1>2, <1>3, Named DEF IInv, TapFollows
<1>7. ScreenInv'
  BY <1>2 DEF IInv, ScreenInv
<1>8. IndexInv'
  <2>1. movie.index <= ui.started /\ movie.index # 0
    BY <1>2 DEF IInv, IndexInv
  <2> QED  BY <2>1, <1>1, <1>2 DEF IInv, IndexInv, Written
<1>9. FilesInv(files)'
  <2>1. FilesInv(files')
    BY <1>1 DEF Written
  <2> QED  BY <2>1 DEF FilesInv, Before
<1>10. MovieInv'
  <2>1. CASE Receive \/ GraceOver \/ Expire
    <3>1. UNCHANGED <<files, movie>>
      BY <2>1 DEF Receive, GraceOver, Expire
    <3> QED  BY <3>1, <1>2 DEF IInv, MovieInv, WritingInv, SegmentsInv, NoFileYet, OpenInv, Before, Path
  <2>2. ASSUME NEW d \in BOOLEAN, Push(d) PROVE MovieInv'
    <3>1. WritingInv(files', movie', thread.take)
      BY <2>2, PushWrites DEF IInv
    <3> QED  BY <3>1, <1>2 DEF MovieInv, WritingInv, SegmentsInv, NoFileYet, OpenInv, Before, Path
  <2>3. CASE Ends
    BY <2>3 DEF Ends, MovieInv, Running
  <2>4. ASSUME SegmentFails \/ WriteFails \/ FinishFails \/ \E d \in BOOLEAN : Finish(d)
        PROVE  thread'.state = "done"
    <3>1. thread \in ThreadRecords
      BY Types DEF IInv, Typed
    <3>2. CASE SegmentFails \/ WriteFails \/ FinishFails
      <4>1. Fail
        BY <3>2 DEF SegmentFails, WriteFails, FinishFails
      <4> QED  BY <3>1, <4>1 DEF Fail, ThreadRecords
    <3>3. CASE \E d \in BOOLEAN : Finish(d)
      BY <3>1, <3>3 DEF Finish, ThreadRecords
    <3> QED  BY <2>4, <3>2, <3>3
  <2>5. thread'.state = "done" => MovieInv'
    BY DEF MovieInv, Running
  <2> QED  BY <1>2, <2>1, <2>2, <2>4, <2>5 DEF ThreadStep
<1>11. SavedMeansWhole'
  <2>1. CASE GoesOn
    BY <2>1 DEF GoesOn, Running, SavedMeansWhole
  <2>2. CASE takes' = Ended(thread.take, TRUE)
    <3>1. takes'[thread.take].failed
      BY <2>2, <1>2, EndedIs DEF IInv
    <3> QED  BY <3>1, <1>2 DEF SavedMeansWhole
  <2>3. ASSUME NEW d \in BOOLEAN, Finish(d) PROVE SavedMeansWhole'
    <3>1. WholeInv(files', movie')
      BY <2>3, FinishWrites DEF IInv
    <3>2. takes' = Ended(thread.take, movie'.segments = <<>>)
      BY <2>3 DEF Finish
    <3>3. takes'[thread.take].failed = (movie'.segments = <<>>)
      BY <3>2, <1>2, EndedIs DEF IInv
    <3>4. FileMap(files') /\ movie' \in Movies
      BY <1>1 DEF Written
    <3>5. \A p \in DOMAIN files' : p = <<p[1], p[2]>> /\ p[2] \in Nat \ {0}
      BY <3>4 DEF FileMap
    <3>6. movie'.number \in Nat \ {0}
      BY <3>4 DEF Movies
    <3>7. ToSet(movie'.segments) = {p[2] : p \in {q \in DOMAIN files' : q[1] = movie'.index}}
      <4>1. ToSet(movie'.segments) = 1 .. movie'.number - 1
        BY <3>1 DEF WholeInv
      <4>2. \A p \in DOMAIN files' : p[1] = movie'.index => p[2] \in 1 .. movie'.number - 1
        BY <3>1, <3>5, <3>6 DEF WholeInv
      <4>3. \A k \in 1 .. movie'.number - 1 : <<movie'.index, k>> \in DOMAIN files'
        BY <3>1 DEF WholeInv
      <4> DEFINE own == {q \in DOMAIN files' : q[1] = movie'.index}
                 n == movie'.number - 1
      <4>4. \A k \in 1 .. n : \E p \in own : p[2] = k
        <5> SUFFICES ASSUME NEW k \in 1 .. n PROVE \E p \in own : p[2] = k
          OBVIOUS
        <5>1. <<movie'.index, k>> \in own /\ <<movie'.index, k>>[2] = k
          BY <4>3
        <5> QED  BY <5>1
      <4>5. \A p \in own : p[2] \in 1 .. n
        BY <4>2
      <4> HIDE DEF own, n
      <4>6. {p[2] : p \in own} = 1 .. n
        BY <4>4, <4>5
      <4> QED  BY <4>1, <4>6 DEF own, n
    <3> QED  BY <3>1, <3>3, <3>7, <1>2 DEF SavedMeansWhole, WholeInv
  <2> QED  BY <1>2, <2>1, <2>2, <2>3 DEF Ends
<1> QED  BY <1>1, <1>4, <1>5, <1>6, <1>7, <1>8, <1>9, <1>10, <1>11 DEF IInv, Flights

-----------------------------------------------------------------------------
(* Every step keeps the invariant: the application *)

LEMMA UiKeeps ==
  ASSUME IInv, UiStep
  PROVE  IInv'
<1>1. /\ UNCHANGED <<tap, pools, mapping, channel, thread, movie, files>>
      /\ takes' = takes \/ takes' = RequestStop
      /\ takes' \in [TakeIds -> TakeRecords]
      /\ \A t \in TakeIds :
           /\ takes'[t].latest = takes[t].latest /\ takes'[t].dropped = takes[t].dropped
           /\ takes'[t].finished = takes[t].finished /\ takes'[t].failed = takes[t].failed
           /\ takes[t].stopping => takes'[t].stopping
           /\ t # control => takes'[t] = takes[t]
      /\ control' = control \/ (control' = NoTake /\ ui.recorder = NoTake)
      /\ ui'.started \in {ui.started, ui.started + 1}
  BY UiSteps DEF IInv
<1>2. /\ ui \in UiRecords /\ ui.started \in 0 .. MaxTakes /\ ui.stopAsked \in BOOLEAN
      /\ ui.recorder \in TakeIds \cup {NoTake}
      /\ control \in TakeIds \cup {NoTake} /\ tap.take \in TakeIds \cup {NoTake}
      /\ thread.take \in TakeIds \cup {NoTake} /\ NoTake \notin TakeIds
      /\ TakeIds = 1 .. MaxTakes /\ MaxTakes \in Nat /\ NoTake = 0
      /\ \A t \in TakeIds : takes[t].stopping \in BOOLEAN
  BY Named DEF IInv
<1>3. TakesAgree
  BY DEF IInv
<1>4. TypeOK'
  BY UiTypes DEF IInv
<1>5. Flights'
  <2>1. InFlight' = InFlight
    BY <1>1 DEF InFlight
  <2>2. Running' => Running /\ thread'.take = thread.take /\ thread.take \in TakeIds
    BY <1>1, OwnTake DEF IInv, Running
  <2> QED  BY <2>1, <2>2, <1>1, StillFlights DEF IInv, Flights
<1>6. takes' = RequestStop /\ control # NoTake => takes'[control].stopping
  BY <1>2, StopOnlyStops DEF IInv
<1>7. ASSUME OpenSession \/ CloseSession \/ Quit
      PROVE  /\ control' = control /\ ui'.recorder = ui.recorder /\ ui'.started = ui.started
             /\ control # NoTake => takes'[control].stopping
             /\ ui'.stopAsked => ui.stopAsked \/ ui.recorder # NoTake
             /\ ui.recorder # NoTake => ui'.stopAsked
  <2>1. /\ control' = control /\ ui'.recorder = ui.recorder /\ ui'.started = ui.started
        /\ ui'.stopAsked = (ui.stopAsked \/ StopAsked)
        /\ takes' = IF StopAsked THEN RequestStop ELSE takes
    BY <1>2, <1>7 DEF OpenSession, CloseSession, Quit, Disconnect, UiRecords
  <2>2. control # NoTake => takes'[control].stopping
    <3>1. CASE StopAsked
      BY <3>1, <2>1, <1>6
    <3>2. CASE ~StopAsked
      <4>1. control # NoTake => takes[control].stopping
        BY <3>2, <1>3, <1>2 DEF StopAsked, TakesAgree
      <4> QED  BY <4>1, <3>2, <2>1
    <3> QED  BY <3>1, <3>2
  <2> QED  BY <2>1, <2>2, <1>2 DEF StopAsked
<1>8. TakesAgree'
  <2>1. \A t \in TakeIds : ui'.started < t => takes'[t] = NewTake
    <3> SUFFICES ASSUME NEW t \in TakeIds, ui'.started < t PROVE takes'[t] = NewTake
      OBVIOUS
    <3>1. ui.started < t
      BY <1>1, <1>2
    <3>2. t # control
      BY <3>1, <1>2, <1>3 DEF TakesAgree
    <3> QED  BY <3>1, <3>2, <1>1, <1>3 DEF TakesAgree
  <2>2. control' <= ui'.started /\ tap'.take <= ui'.started /\ thread'.take <= ui'.started
    BY <1>1, <1>2, <1>3 DEF TakesAgree
  <2>3. Running' => Running /\ thread.take \in TakeIds
    BY <1>1, OwnTake DEF IInv, Running
  <2>4. Running' => ~takes'[thread'.take].finished
    BY <2>3, <1>1, <1>3 DEF TakesAgree
  <2>5. /\ ui'.recorder # NoTake => control' = ui'.recorder /\ thread.take = ui'.recorder
        /\ ui'.recorder = NoTake /\ control' # NoTake => takes'[control'].stopping
        /\ ui'.stopAsked => ui'.recorder # NoTake /\ takes'[ui'.recorder].stopping
        /\ Running => thread.take = ui'.recorder /\ ui'.recorder # NoTake
    <3>1. CASE StartRefused
      <4>1. ui'.recorder = NoTake /\ ui'.stopAsked = ui.stopAsked /\ control' = NoTake
            /\ ui.recorder = NoTake
        BY <3>1, <1>2 DEF StartRefused, UiRecords
      <4> QED  BY <4>1, <1>3 DEF TakesAgree
    <3>2. CASE StopRecording
      <4>1. ui'.recorder = ui.recorder /\ ui.recorder # NoTake /\ control' = control
            /\ takes' = RequestStop
        BY <3>2, <1>2 DEF StopRecording, StopAsked, UiRecords
      <4> QED  BY <4>1, <1>3, <1>6 DEF TakesAgree
    <3>3. CASE Poll
      <4>1. ui'.recorder = NoTake /\ ~ui'.stopAsked /\ control' = control
            /\ takes' = RequestStop /\ takes[ui.recorder].finished
        BY <3>3, <1>2 DEF Poll, UiRecords
      <4>2. ~Running
        BY <4>1, <1>3 DEF TakesAgree
      <4> QED  BY <4>1, <4>2, <1>6
    <3>4. CASE OpenSession \/ CloseSession \/ Quit
      BY <3>4, <1>3, <1>7 DEF TakesAgree
    <3> QED  BY <3>1, <3>2, <3>3, <3>4 DEF UiStep
  <2> QED  BY <2>1, <2>2, <2>3, <2>4, <2>5, <1>1, <1>3 DEF TakesAgree
<1>9. TapFollows'
  <2>1. CASE StartRefused
    BY <2>1 DEF StartRefused, TapFollows
  <2>2. CASE StopRecording \/ Poll
    <3>1. control' = control /\ takes' = RequestStop
      BY <2>2 DEF StopRecording, Poll
    <3> QED  BY <3>1, <1>6 DEF TapFollows
  <2>3. CASE OpenSession \/ CloseSession \/ Quit
    BY <2>3, <1>7 DEF TapFollows
  <2> QED  BY <2>1, <2>2, <2>3 DEF UiStep
<1>10. ScreenInv'
  <2>1. screen' = screen \/ screen' = Nothing
    BY DEF UiStep, StartRefused, StopRecording, Poll, OpenSession, CloseSession, Quit, rendererVars
  <2> QED  BY <2>1 DEF IInv, ScreenInv, Nothing
<1>11. SavedMeansWhole'
  BY <1>1, SavedStays DEF IInv
<1>12. ThreadHolds' /\ FilesInv(files)' /\ MovieInv'
  BY <1>1 DEF IInv, ThreadHolds, FilesInv, MovieInv, Running, WritingInv, SegmentsInv,
              NoFileYet, OpenInv, Before, Path
<1>13. IndexInv'
  <2>1. /\ movie.index \in Nat /\ \A p \in DOMAIN files : p[1] \in Nat
    BY Types DEF IInv, Typed, Movies, FileMap, TakeIds
  <2> QED  BY <2>1, <1>1, <1>2 DEF IInv, IndexInv, Running
<1> QED  BY <1>4, <1>5, <1>8, <1>9, <1>10, <1>11, <1>12, <1>13 DEF IInv, Flights


LEMMA StartKeeps ==
  ASSUME IInv, StartRecording
  PROVE  IInv'
<1> DEFINE t == ui.started + 1
<1>1. /\ ui.recorder = NoTake /\ ui.started < MaxTakes
      /\ control' = t
      /\ ui' = [ui EXCEPT !.recorder = t, !.stopAsked = FALSE, !.started = t]
      /\ thread' = [take |-> t, state |-> "receiving", quiet |-> "no", inHand |-> <<>>]
      /\ movie' = [NoMovie EXCEPT !.index = NextIndex]
      /\ UNCHANGED <<takes, pools, files, faults, screen, presented, tap, mapping, channel>>
  BY DEF StartRecording, rendererVars, gpuVars
<1>2. /\ ui \in UiRecords /\ ui.started \in 0 .. MaxTakes
      /\ control \in TakeIds \cup {NoTake} /\ tap.take \in TakeIds \cup {NoTake}
      /\ NoTake \notin TakeIds /\ TakeIds = 1 .. MaxTakes /\ MaxTakes \in Nat /\ NoTake = 0
  BY Named DEF IInv
<1>3. t \in TakeIds /\ t \in 0 .. MaxTakes /\ ui.started < t
  BY <1>1, <1>2
<1> HIDE DEF t
<1>4. ~Running /\ TakesAgree
  BY <1>1 DEF IInv, TakesAgree
<1>5. takes[t] = NewTake
  BY <1>3, <1>4 DEF TakesAgree
<1>6. takes[t].latest = 0 /\ ~takes[t].stopping /\ ~takes[t].finished
  BY <1>5 DEF NewTake
<1>7. /\ thread.inHand = <<>> /\ channel = <<>>
  <2>1. Len(thread.inHand) = 0 /\ channel = <<>>
    BY <1>4 DEF IInv, ThreadHolds, Running
  <2> QED  BY <2>1, Queues DEF IInv
<1>8. /\ NextIndex \in TakeIds /\ NextIndex <= t /\ \A p \in DOMAIN files : p[1] # NextIndex
  BY <1>1, NextIndexIsNew DEF IInv, t
<1>9. /\ movie'.index = NextIndex /\ movie'.number = 1 /\ movie'.layout = "none"
      /\ movie'.held = <<>> /\ movie'.segments = <<>> /\ movie' \in Movies
  <2>1. movie' = [index |-> NextIndex, number |-> 1, layout |-> "none", held |-> <<>>,
                  segments |-> <<>>]
    BY <1>1 DEF NoMovie
  <2>2. <<>> \in Seq(Pictures) /\ <<>> \in Seq(Nat \ {0})
    BY EmptySeq
  <2>3. NextIndex \in 0 .. MaxTakes
    BY <1>2, <1>8
  <2> QED  BY <2>1, <2>2, <2>3 DEF Movies
<1>10. /\ thread'.take = t /\ thread'.state = "receiving" /\ thread'.inHand = <<>>
       /\ thread' \in ThreadRecords
  <2>1. <<>> \in Seq(Captures)
    BY EmptySeq
  <2> QED  BY <1>1, <1>3, <2>1 DEF ThreadRecords
<1>11. /\ ui' \in UiRecords /\ ui'.recorder = t /\ ui'.stopAsked = FALSE /\ ui'.started = t
  BY <1>1, <1>2, <1>3 DEF UiRecords
<1>12. TypeOK'
  <2>1. /\ screen \in ScreenRecords /\ presented \in BOOLEAN
        /\ takes \in [TakeIds -> TakeRecords]
        /\ tap \in TapRecords(Len(pools)) /\ pools \in Seq(StagingPools)
        /\ \A p \in DOMAIN pools : Len(pools[p].held) <= PoolLimit
        /\ mapping \in Seq(Captures) /\ channel \in Seq(Captures)
        /\ FileMap(files) /\ faults \in 0 .. MaxFaults
    BY Types DEF IInv, Typed
  <2> QED  BY <2>1, <1>1, <1>3, <1>9, <1>10, <1>11, Types DEF Typed
<1>13. Flights'
  <2>1. InFlight' = InFlight
    BY <1>1, <1>7, <1>10 DEF InFlight
  <2>2. FlightsInv' /\ PoolsInv'
    BY <2>1, <1>1, StillFlights DEF IInv, Flights
  <2>3. AheadInv'
    BY <1>9 DEF AheadInv
  <2> QED  BY <2>2, <2>3 DEF Flights
<1>14. TakesAgree'
  <2>1. \A u \in TakeIds : ui'.started < u => takes'[u] = NewTake
    BY <1>1, <1>2, <1>3, <1>4, <1>11 DEF TakesAgree
  <2>2. control' <= ui'.started /\ tap'.take <= ui'.started /\ thread'.take <= ui'.started
    BY <1>1, <1>2, <1>3, <1>4, <1>10, <1>11 DEF TakesAgree
  <2>3. t # NoTake
    BY <1>2, <1>3
  <2> QED  BY <2>1, <2>2, <2>3, <1>1, <1>6, <1>10, <1>11 DEF TakesAgree
<1>15. TapFollows'
  <2>1. tap.take # t
    BY <1>2, <1>3, <1>4 DEF TakesAgree
  <2> QED  BY <2>1, <1>1, <1>6 DEF TapFollows
<1>16. ThreadHolds'
  <2>1. Len(thread'.inHand) = 0 /\ DOMAIN thread'.inHand = {} /\ DOMAIN channel' = {}
        /\ channel' = <<>>
    BY <1>1, <1>7, <1>10
  <2> QED  BY <2>1, <1>10 DEF ThreadHolds
<1>17. ScreenInv' /\ FilesInv(files)'
  BY <1>1 DEF IInv, ScreenInv, FilesInv, Before
<1>18. MovieInv'
  <2>1. ToSet(movie'.segments) = {}
    <3>1. DOMAIN movie'.segments = {}
      BY <1>9
    <3> QED  BY <3>1 DEF ToSet
  <2>2. 1 .. movie'.number - 1 = {}
    BY <1>9
  <2>3. \A p \in DOMAIN files' : p[1] # movie'.index
    BY <1>1, <1>8, <1>9
  <2> QED  BY <2>1, <2>2, <2>3, <1>9 DEF MovieInv, WritingInv, SegmentsInv, NoFileYet
<1>19. IndexInv'
  <2>1. \A p \in DOMAIN files : p[1] \in Nat
    BY Types DEF IInv, Typed, FileMap, TakeIds
  <2> QED  BY <2>1, <1>1, <1>2, <1>3, <1>8, <1>9, <1>11 DEF IInv, IndexInv
<1>20. SavedMeansWhole'
  BY <1>10 DEF SavedMeansWhole
<1> QED  BY <1>12, <1>13, <1>14, <1>15, <1>16, <1>17, <1>18, <1>19, <1>20 DEF IInv, Flights

(* Whatever is started afresh, beside the files that there are. *)
Afresh ==
  /\ ui.recorder = NoTake /\ ui.stopAsked = FALSE /\ ui \in UiRecords
  /\ screen = Nothing /\ presented = FALSE /\ tap = NoTap /\ control = NoTake
  /\ takes = [t \in TakeIds |-> NewTake]
  /\ pools = <<>> /\ mapping = <<>> /\ channel = <<>>
  /\ thread = NoThread /\ movie = NoMovie
  /\ faults \in 0 .. MaxFaults

LEMMA AfreshIsFine ==
  ASSUME Afresh, FileMap(files), FilesInv(files), \A p \in DOMAIN files : p[1] <= ui.started
  PROVE  IInv
<1> USE DEF Afresh
<1>1. /\ MaxTakes \in Nat /\ MaxPictures \in Nat /\ 0 \in 0 .. MaxPictures /\ 0 \in 0 .. MaxTakes
      /\ ui.started \in 0 .. MaxTakes /\ ui.started \in Nat
  BY RecordingAssumption DEF UiRecords
<1>2. /\ <<>> \in Seq(Captures) /\ <<>> \in Seq(Pictures) /\ <<>> \in Seq(Nat \ {0})
      /\ <<>> \in Seq(StagingPools)
      /\ Len(pools) = 0 /\ DOMAIN pools = {} /\ DOMAIN channel = {}
  BY EmptySeq
<1>3. TypeOK
  <2>1. Nothing \in ScreenRecords /\ NewTake \in TakeRecords /\ NoMovie \in Movies
        /\ NoThread \in ThreadRecords
    BY <1>1, <1>2 DEF Nothing, ScreenRecords, NewTake, TakeRecords, NoMovie, Movies, NoThread,
                      ThreadRecords
  <2>2. NoTap \in TapRecords(Len(pools))
    <3>1. 0 \in 0 .. Len(pools)
      BY <1>2
    <3> QED  BY <1>2, <3>1 DEF NoTap, TapRecords
  <2>3. takes \in [TakeIds -> TakeRecords]
    BY <2>1
  <2>4. /\ ui \in UiRecords /\ screen \in ScreenRecords /\ presented \in BOOLEAN
        /\ control \in TakeIds \cup {NoTake} /\ tap \in TapRecords(Len(pools))
        /\ pools \in Seq(StagingPools)
        /\ \A p \in DOMAIN pools : Len(pools[p].held) <= PoolLimit
        /\ mapping \in Seq(Captures) /\ channel \in Seq(Captures)
        /\ thread \in ThreadRecords /\ movie \in Movies /\ FileMap(files)
        /\ faults \in 0 .. MaxFaults
    BY <2>1, <2>2, <1>2
  <2>5. Typed
    BY <2>3, <2>4 DEF Typed
  <2> QED
    BY <2>5 DEF Typed, TypeOK, UiRecords, TakeRecords, TapRecords, ThreadRecords, ScreenRecords,
                StagingPools, Movies, FileMap
<1>4. InFlight = <<>> /\ DOMAIN InFlight = {}
  BY ConcatEmptySeq, EmptySeq DEF InFlight, NoThread, NoTap
<1>5. FlightsInv /\ PoolsInv
  BY <1>2, <1>4 DEF FlightsInv, PoolsInv
<1>6. ~Running /\ thread.state = "none" /\ thread.take = NoTake /\ tap.take = NoTake
      /\ thread.inHand = <<>> /\ movie.index = 0 /\ movie.layout = "none"
  BY DEF Running, NoThread, NoTap, NoMovie
<1>7. TakesAgree
  BY <1>1, <1>6 DEF TakesAgree, NoTake, Running
<1>8. ThreadHolds
  <2>1. Len(thread.inHand) = 0 /\ DOMAIN thread.inHand = {}
    BY <1>6
  <2> QED  BY <2>1, <1>2, <1>6 DEF ThreadHolds
<1>9. TapFollows /\ ScreenInv /\ MovieInv /\ AheadInv /\ SavedMeansWhole
  BY <1>6 DEF TapFollows, ScreenInv, Nothing, MovieInv, AheadInv, SavedMeansWhole
<1>10. IndexInv
  BY <1>1, <1>6 DEF IndexInv
<1> QED  BY <1>3, <1>5, <1>7, <1>8, <1>9, <1>10 DEF IInv

LEMMA InitIInv == Init => IInv
<1> SUFFICES ASSUME Init PROVE IInv
  OBVIOUS
<1>1. files = <<>> /\ DOMAIN files = {}
  BY DEF Init
<1>2. FileMap(files) /\ FilesInv(files) /\ \A p \in DOMAIN files : p[1] <= ui.started
  <2>1. files \in [DOMAIN files -> Files]
    BY <1>1
  <2> QED  BY <1>1, <2>1 DEF FileMap, FilesInv
<1>3. ui \in UiRecords
  BY RecordingAssumption DEF Init, UiRecords
<1>4. Afresh
  BY <1>3, RecordingAssumption DEF Init, Afresh
<1> QED  BY <1>2, <1>4, AfreshIsFine

LEMMA LeaveKeeps ==
  ASSUME IInv, Leave
  PROVE  IInv'
<1>1. ui \in UiRecords /\ faults \in 0 .. MaxFaults /\ MaxFaults \in Nat /\ FileMap(files)
  BY Types, RecordingAssumption DEF IInv, Typed
<1>2. /\ ui'.recorder = NoTake /\ ui'.stopAsked = FALSE /\ ui' \in UiRecords
      /\ ui'.started = ui.started
  BY <1>1 DEF Leave, UiRecords
<1>3. faults' \in 0 .. MaxFaults
  BY <1>1 DEF Leave
<1>4. files' = files
  BY DEF Leave
<1>5. Afresh'
  BY <1>2, <1>3 DEF Leave, Afresh, NoTap, NoThread, NoMovie, NewTake, Nothing, NoTake, TakeIds,
                    UiRecords
<1>6. FileMap(files)' /\ FilesInv(files)' /\ (\A p \in DOMAIN files : p[1] <= ui.started)'
  <2>1. FileMap(files)'
    BY <1>1, <1>4 DEF FileMap, Files, Pictures, TakeIds
  <2>2. FilesInv(files)'
    BY <1>4 DEF IInv, FilesInv, Before
  <2>3. \A p \in DOMAIN files' : p[1] <= ui'.started
    BY <1>2, <1>4 DEF IInv, IndexInv
  <2> QED  BY <2>1, <2>2, <2>3
<1> QED  BY <1>5, <1>6, AfreshIsFine, PTL

LEMMA StepIInv == IInv /\ [Next]_vars => IInv'
<1> SUFFICES ASSUME IInv, [Next]_vars PROVE IInv'
  OBVIOUS
<1>1. CASE UNCHANGED vars
  <2>1. InFlight' = InFlight
    BY <1>1 DEF vars, InFlight
  <2> USE <1>1 DEF vars
  <2>2. UNCHANGED <<ui, screen, presented, control, takes, tap, pools, mapping, channel, thread,
                    movie, files, faults>>
    OBVIOUS
  <2>3. TypeOK'
    BY Types DEF IInv, Typed
  <2>4. FlightsInv'
    BY <2>1 DEF IInv, FlightsInv, Staged, Apart
  <2>5. TakesAgree' /\ ThreadHolds' /\ TapFollows' /\ ScreenInv'
    BY DEF IInv, TakesAgree, Running, ThreadHolds, TapFollows, ScreenInv
  <2>6. AheadInv'
    BY <2>1 DEF IInv, AheadInv, Running, Before
  <2>7. PoolsInv' /\ IndexInv' /\ SavedMeansWhole'
    BY DEF IInv, PoolsInv, IndexInv, Running, SavedMeansWhole
  <2>8. FilesInv(files)' /\ MovieInv'
    BY DEF IInv, FilesInv, Before, MovieInv, Running, WritingInv, SegmentsInv, NoFileYet, OpenInv,
           Path
  <2> QED  BY <2>3, <2>4, <2>5, <2>6, <2>7, <2>8 DEF IInv
<1>2. CASE StartRecording
  BY <1>2, StartKeeps
<1>3. CASE UiStep
  BY <1>3, UiKeeps
<1>4. CASE Leave
  BY <1>4, LeaveKeeps
<1>5. CASE \E upload \in Uploads : Draw(upload)
  BY <1>5, DrawKeeps
<1>6. CASE MapCompletes
  BY <1>6, MapKeeps
<1>7. CASE ThreadNext
  BY <1>7, ThreadKeeps
<1> QED  BY <1>1, <1>2, <1>3, <1>4, <1>5, <1>6, <1>7 DEF Next, UiStep

LEMMA Invariant == Spec => []IInv
BY InitIInv, StepIInv, PTL DEF Spec

-----------------------------------------------------------------------------
(* The theorems *)

(* The values every variable takes, and no pool has more buffers than its  *)
(* limit (recording/tap.rs: StagingPool::acquire).                         *)
THEOREM TypesHold == Spec => []TypeOK
<1>1. IInv => TypeOK
  BY DEF IInv
<1> QED  BY <1>1, Invariant, PTL

(* No draw writes into a buffer the recording thread has not read, for any *)
(* size of the pools: what is on its way holds the picture it was captured *)
(* with, and no buffer is handed out twice.                                *)
THEOREM BuffersStayIntact == Spec => []StagedIntact
<1>1. IInv => StagedIntact
  <2> SUFFICES ASSUME IInv PROVE StagedIntact
    OBVIOUS
  <2>1. /\ \A i \in DOMAIN InFlight : Staged(InFlight[i])
        /\ \A i, j \in DOMAIN InFlight : i < j => Apart(InFlight[i], InFlight[j])
    BY DEF IInv, FlightsInv
  <2>2. DOMAIN InFlight = 1 .. Len(InFlight) /\ Len(InFlight) \in Nat
    BY Flying DEF IInv
  <2>3. ASSUME NEW i \in DOMAIN InFlight, NEW j \in DOMAIN InFlight,
               InFlight[j].pool = InFlight[i].pool, InFlight[j].buffer = InFlight[i].buffer
        PROVE  j = i
    <3>1. SUFFICES ASSUME j # i PROVE FALSE
      OBVIOUS
    <3>2. i < j \/ j < i
      BY <2>2, <3>1
    <3>3. Apart(InFlight[i], InFlight[j]) \/ Apart(InFlight[j], InFlight[i])
      BY <2>1, <3>2
    <3> QED  BY <2>3, <3>3 DEF Apart
  <2>4. \A p \in DOMAIN pools : \A i, j \in DOMAIN pools[p].free :
          pools[p].free[i] = pools[p].free[j] => i = j
    BY DEF IInv, PoolsInv
  <2> QED  BY <2>1, <2>3, <2>4 DEF StagedIntact, Staged
<1> QED  BY <1>1, Invariant, PTL

(* Every movie shows the pictures of one take, each once and in the order  *)
(* they were on screen, through all its segments (recording/mod.rs).       *)
THEOREM MoviesAreInOrder == Spec => []MoviesInOrder
<1>1. IInv => MoviesInOrder
  <2> SUFFICES ASSUME IInv PROVE MoviesInOrder
    OBVIOUS
  <2>1. /\ \A p, q \in DOMAIN files :
             \A i \in DOMAIN files[p].frames, j \in DOMAIN files[q].frames :
               p[1] = q[1] /\ (p[2] < q[2] \/ (p = q /\ i < j))
                 => Before(files[p].frames[i], files[q].frames[j])
        /\ \A p \in DOMAIN files : \A i, j \in DOMAIN files[p].frames :
             files[p].frames[i].layout = files[p].frames[j].layout
    BY DEF IInv, FilesInv
  <2> DEFINE own == {i \in DOMAIN InFlight : InFlight[i].frame.take = thread.take}
             held == {movie.held[k] : k \in DOMAIN movie.held}
             filed == UNION {ToSet(files[p].frames) : p \in {q \in DOMAIN files : q[1] = movie.index}}
  <2>2. ASSUME thread.state # "done"
        PROVE  /\ \A f \in filed, h \in held : Before(f, h)
               /\ \A f \in filed \cup held, i \in own : Before(f, InFlight[i].frame)
               /\ \A i, j \in own : i < j => Before(InFlight[i].frame, InFlight[j].frame)
    <3>1. \A f \in filed : \E p \in DOMAIN files : \E k \in DOMAIN files[p].frames :
            p[1] = movie.index /\ f = files[p].frames[k]
      BY DEF ToSet
    <3>2. \A i, j \in own : i < j => Before(InFlight[i].frame, InFlight[j].frame)
      BY DEF IInv, FlightsInv, Apart, Before
    <3>3. CASE Running /\ movie.layout # "none"
      <4>1. OpenInv(files, movie, thread.take)
        BY <3>3 DEF IInv, MovieInv, WritingInv
      <4>2. held = {movie.held[1]} /\ movie.held[1] \in Pictures
        <5>1. movie.held \in Seq(Pictures) /\ Len(movie.held) = 1
          BY <4>1, Types DEF IInv, Typed, Movies, OpenInv
        <5>2. DOMAIN movie.held = {1}
          BY <5>1
        <5> QED  BY <5>1, <5>2, ElementOfSeq
      <4>3. \A f \in filed : Before(f, movie.held[1])
        BY <3>1, <4>1 DEF OpenInv
      <4>4. \A i \in own : Before(movie.held[1], InFlight[i].frame)
        BY <3>3 DEF IInv, AheadInv
      <4>5. \A f \in filed : f \in Pictures
        <5>1. \A p \in DOMAIN files : files[p].frames \in Seq(Pictures)
          BY Types DEF IInv, Typed, FileMap, Files
        <5>2. ASSUME NEW p \in DOMAIN files, NEW k \in DOMAIN files[p].frames
              PROVE  files[p].frames[k] \in Pictures
          <6> DEFINE s == files[p].frames
          <6>1. s \in Seq(Pictures)
            BY <5>1
          <6> HIDE DEF s
          <6>2. \A n \in DOMAIN s : s[n] \in Pictures
            BY <6>1, LenProperties, ElementOfSeq
          <6> QED  BY <6>2 DEF s
        <5> HIDE DEF filed
        <5> QED  BY <3>1, <5>2
      <4>6. \A i \in own : InFlight[i].frame \in Pictures
        BY Flying DEF IInv, Captures
      <4> HIDE DEF own, held, filed
      <4>7. \A f \in filed, i \in own : Before(f, InFlight[i].frame)
        BY <4>2, <4>3, <4>4, <4>5, <4>6, RecordingAssumption DEF Before, Pictures
      <4> QED  BY <3>2, <4>2, <4>3, <4>4, <4>7
    <3>4. CASE ~(Running /\ movie.layout # "none")
      <4>1. movie.held = <<>> /\ \A p \in DOMAIN files : p[1] # movie.index
        <5>1. CASE Running
          BY <3>4, <5>1 DEF IInv, MovieInv, WritingInv, NoFileYet
        <5>2. CASE ~Running
          <6>1. thread.state = "none"
            BY <2>2, <5>2, Types DEF IInv, Typed, ThreadRecords, Running
          <6>2. movie = NoMovie
            BY <6>1 DEF IInv, TakesAgree
          <6>3. \A p \in DOMAIN files : p[1] # 0
            BY Types DEF IInv, Typed, FileMap, TakeIds
          <6> QED  BY <6>2, <6>3 DEF NoMovie
        <5> QED  BY <5>1, <5>2
      <4>2. filed = {} /\ held = {}
        BY <4>1, <3>1
      <4> HIDE DEF own, held, filed
      <4> QED  BY <3>2, <4>2
    <3> QED  BY <3>3, <3>4
  <2> QED  BY <2>1, <2>2 DEF MoviesInOrder
<1> QED  BY <1>1, Invariant, PTL

(* A movie file that has its index is never opened, cut or removed again,  *)
(* by this take or a later one (recording/mod.rs: next_movie_index).       *)
THEOREM FinishedStay == Spec => FinishedMoviesStay
<1>1. IInv /\ [Next]_vars =>
        [\A p \in DOMAIN files :
           files[p].final => p \in DOMAIN files' /\ files'[p] = files[p]]_vars
  <2> SUFFICES ASSUME IInv, Next PROVE Kept(files, files')
    BY DEF Kept
  <2>1. CASE ThreadNext
    BY <2>1, ThreadFlights DEF IInv, Flights, Written
  <2>2. CASE ~ThreadNext
    <3>1. files' = files
      BY <2>2 DEF Next, StartRecording, StartRefused, StopRecording, Poll, OpenSession, CloseSession,
                  Quit, Leave, Draw, MapCompletes, threadVars
    <3> QED  BY <3>1 DEF Kept
  <2> QED  BY <2>1, <2>2
<1> QED  BY <1>1, Invariant, PTL DEF Spec, FinishedMoviesStay

(* A take that ended without an error left whole files, at least one, and  *)
(* the ones it says (recording/mod.rs: RecordingState::finish).            *)
THEOREM SavedIsWhole == Spec => []SavedMeansWhole
<1>1. IInv => SavedMeansWhole
  BY DEF IInv
<1> QED  BY <1>1, Invariant, PTL

(* Once a running take has been drawn, the picture on screen is its latest *)
(* one, or one was dropped for want of a buffer (recording/tap.rs).        *)
THEOREM ScreenGetsRecorded == Spec => []ScreenIsRecorded
<1>1. IInv => ScreenIsRecorded
  BY DEF IInv, TapFollows, ScreenIsRecorded
<1> QED  BY <1>1, Invariant, PTL

-----------------------------------------------------------------------------
(* RawStreamSink: the dump that is recorded beside the movies              *)

(* A finished file belongs to a take that is over; the armed take's number *)
(* is the newest, and none of its files is finished.                       *)
DumpFilesInv ==
  /\ \A file \in dumps : file[2] \in 1 .. dumpTakes
  /\ dumpTake # Dump!NoTake => \A k \in Kinds : <<k, dumpTake>> \notin dumps

(* A dump in a slot may still create or extend its file, which therefore   *)
(* is not finished, unless the dump was made between two takes.            *)
DumpSlotInv ==
  \A k \in Kinds \ late : slot[k].used => <<k, slot[k].number>> \notin dumps

(* A dump is numbered after a take that was armed; before the first take   *)
(* it is given that take's number.                                         *)
DumpNumberInv ==
  \A k \in Kinds : slot[k].used => slot[k].number \in 1 .. dumpTakes \/ slot[k].number = 1

(* Only a dump that exists is open. *)
DumpOpenInv == \A k \in Kinds : slot[k].open => slot[k].used

DumpInv ==
  /\ Dump!TypeOK /\ Dump!StopClosesWhatItOpened
  /\ DumpFilesInv /\ DumpSlotInv /\ DumpNumberInv /\ DumpOpenInv

-----------------------------------------------------------------------------
(* The dump of a stream: its type, and that no finished file has its name  *)
(* unless it was made between two takes.                                   *)
LEMMA DumpOfStream ==
  ASSUME DumpInv, NEW k \in Kinds
  PROVE  /\ Dump!SlotOf(k) \in Dump!Slots /\ Dump!SlotOf(k).used
         /\ Dump!SlotOf(k).number \in 1 .. dumpTakes \/ Dump!SlotOf(k).number = 1
         /\ dumpTake # Dump!NoTake /\ k \notin late => <<k, Dump!SlotOf(k).number>> \notin dumps
<1>1. CASE slot[k].used
  BY <1>1 DEF DumpInv, Dump!TypeOK, DumpNumberInv, DumpSlotInv, Dump!SlotOf
<1>2. CASE ~slot[k].used
  BY <1>2 DEF DumpInv, Dump!TypeOK, DumpFilesInv, Dump!SlotOf, Dump!Planned, Dump!NumberNow,
     Dump!NoTake, Dump!Slots
<1> QED  BY <1>1, <1>2

(* The initial state. *)
LEMMA InitDumpInv == Dump!Init => DumpInv
<1> SUFFICES ASSUME Dump!Init PROVE DumpInv
  OBVIOUS
<1>1. Dump!Empty \in Dump!Slots /\ ~Dump!Empty.used /\ ~Dump!Empty.open
  BY DEF Dump!Empty, Dump!Slots
<1>2. \A k \in Kinds : slot[k] = Dump!Empty
  BY DEF Dump!Init
<1>3. Dump!TypeOK
  BY <1>1 DEF Dump!Init, Dump!TypeOK, Dump!NoTake
<1>4. DumpFilesInv
  BY DEF Dump!Init, DumpFilesInv
<1> QED  BY <1>1, <1>2, <1>3, <1>4 DEF DumpInv, DumpSlotInv, DumpNumberInv, DumpOpenInv,
       Dump!StopClosesWhatItOpened

(* Arming keeps the invariant: the new number is above all finished ones. *)
LEMMA ArmingKeepsDumps == DumpInv /\ Dump!StartRecording => DumpInv'
<1> SUFFICES ASSUME DumpInv, Dump!StartRecording PROVE DumpInv'
  OBVIOUS
<1>1. /\ dumpTakes' = dumpTakes + 1 /\ dumpTake' = dumpTakes' /\ origin' = FALSE
      /\ UNCHANGED <<slot, failure, dumps, late>>
  BY DEF Dump!StartRecording
<1>2. dumpTake = Dump!NoTake
  BY DEF Dump!StartRecording
<1>3. dumpTakes \in Nat /\ dumpTakes' \in Nat
  BY <1>1 DEF DumpInv, Dump!TypeOK
<1>4. Dump!TypeOK'
  BY <1>1, <1>3 DEF DumpInv, Dump!TypeOK
<1>5. DumpFilesInv'
  BY <1>1, <1>3 DEF DumpInv, DumpFilesInv
<1>6. DumpSlotInv' /\ DumpOpenInv'
  BY <1>1 DEF DumpInv, DumpSlotInv, DumpOpenInv
<1>7. DumpNumberInv'
  BY <1>1, <1>3 DEF DumpInv, DumpNumberInv
<1>8. Dump!StopClosesWhatItOpened'
  BY <1>1, <1>2 DEF DumpInv, Dump!StopClosesWhatItOpened
<1> QED  BY <1>4, <1>5, <1>6, <1>7, <1>8 DEF DumpInv

(* The first frame changes nothing the invariant constrains. *)
LEMMA FirstFrameKeepsDumps == DumpInv /\ Dump!FirstFrame => DumpInv'
  BY DEF DumpInv, Dump!FirstFrame, Dump!TypeOK, DumpFilesInv, DumpSlotInv, DumpNumberInv,
     DumpOpenInv, Dump!StopClosesWhatItOpened

(* Disarming keeps the invariant: it empties the slots it finished, or     *)
(* leaves them unopened.                                                   *)
LEMMA DisarmingKeepsDumps == DumpInv /\ Dump!StopRecording => DumpInv'
<1> SUFFICES ASSUME DumpInv, Dump!StopRecording PROVE DumpInv'
  OBVIOUS
<1>1. /\ dumpTake # Dump!NoTake /\ dumpTake' = Dump!NoTake /\ origin' = FALSE
      /\ dumpTakes' = dumpTakes /\ late' = late
  BY DEF Dump!StopRecording
<1>2. CASE origin
  <2>1. PICK failed \in SUBSET {k \in Kinds : slot[k].open} :
          /\ slot' = [k \in Kinds |-> Dump!Empty]
          /\ dumps' = dumps \cup Dump!Closed(failed)
          /\ failure' = (failure \/ failed # {})
    BY <1>2 DEF Dump!StopRecording
  <2>2. \A k \in Kinds : ~slot'[k].used /\ ~slot'[k].open
    BY <2>1 DEF Dump!Empty
  <2>3. dumpTakes \in Nat \ {0}
    BY <1>1 DEF DumpInv, Dump!TypeOK, Dump!NoTake
  <2>4. \A file \in Dump!Closed(failed) : file \in Kinds \X Nat /\ file[2] \in 1 .. dumpTakes
    BY <2>3 DEF Dump!Closed, DumpInv, Dump!TypeOK, DumpNumberInv, DumpOpenInv, Dump!Slots
  <2>5. Dump!TypeOK'
    BY <1>1, <2>1, <2>4 DEF DumpInv, Dump!TypeOK, Dump!Empty, Dump!Slots
  <2>6. DumpFilesInv'
    BY <1>1, <2>1, <2>4 DEF DumpInv, DumpFilesInv
  <2> QED  BY <2>2, <2>5, <2>6 DEF DumpInv, DumpSlotInv, DumpNumberInv, DumpOpenInv,
         Dump!StopClosesWhatItOpened
<1>3. CASE ~origin
  <2>1. UNCHANGED <<slot, dumps, failure>>
    BY <1>3 DEF Dump!StopRecording
  <2> QED  BY <1>1, <1>3, <2>1 DEF DumpInv, Dump!TypeOK, DumpFilesInv, DumpSlotInv, DumpNumberInv,
         DumpOpenInv,
     Dump!StopClosesWhatItOpened
<1> QED  BY <1>2, <1>3

(* Describing a stream keeps the invariant: a dump it makes is the armed   *)
(* take's, or is made before any file is finished, or counts as late.      *)
LEMMA DescribingKeepsDumps == ASSUME DumpInv, NEW k \in Kinds, Dump!DescribeStream(k) PROVE DumpInv'
<1>1. /\ slot' = [slot EXCEPT ![k] = Dump!SlotOf(k)]
      /\ UNCHANGED <<dumpTakes, dumpTake, origin, failure, dumps>>
  BY DEF Dump!DescribeStream
<1>2. slot \in [Kinds -> Dump!Slots] /\ Dump!SlotOf(k) \in Dump!Slots /\ Dump!SlotOf(k).used
  BY DumpOfStream DEF DumpInv, Dump!TypeOK
<1>3. late \subseteq late' /\ late' \subseteq Kinds
  BY DEF Dump!DescribeStream, DumpInv, Dump!TypeOK
<1>4. Dump!TypeOK' /\ DumpFilesInv'
  BY <1>1, <1>2, <1>3 DEF DumpInv, Dump!TypeOK, DumpFilesInv
<1>5. k \notin late' => <<k, Dump!SlotOf(k).number>> \notin dumps
  <2>1. CASE dumpTake # Dump!NoTake
    BY <1>3, <2>1, DumpOfStream
  <2>2. CASE dumpTake = Dump!NoTake /\ slot[k].used
    BY <1>3, <2>2 DEF DumpInv, DumpSlotInv, Dump!SlotOf
  <2>3. CASE dumpTake = Dump!NoTake /\ ~slot[k].used
    BY <2>3 DEF Dump!DescribeStream, DumpInv, Dump!TypeOK, DumpFilesInv
  <2> QED  BY <2>1, <2>2, <2>3
<1>6. DumpSlotInv'
  BY <1>1, <1>2, <1>3, <1>5 DEF DumpInv, DumpSlotInv
<1>7. DumpNumberInv'
  BY <1>1, <1>2, DumpOfStream DEF DumpInv, DumpNumberInv
<1>8. Dump!SlotOf(k).open => slot[k].open
  BY DEF Dump!SlotOf, Dump!Planned
<1>9. DumpOpenInv' /\ Dump!StopClosesWhatItOpened'
  BY <1>1, <1>2, <1>8 DEF DumpInv, DumpOpenInv, Dump!StopClosesWhatItOpened
<1> QED  BY <1>4, <1>6, <1>7, <1>9 DEF DumpInv

(* Recording keeps the invariant: it opens the stream's file, which is no  *)
(* longer finished if it was, or gives the dump up.                        *)
LEMMA RecordingKeepsDumps == ASSUME DumpInv, NEW k \in Kinds, Dump!Record(k) PROVE DumpInv'
<1> DEFINE dump == Dump!SlotOf(k)
           opened == [dump EXCEPT !.open = TRUE]
<1>1. /\ dumpTake # Dump!NoTake /\ origin
      /\ UNCHANGED <<dumpTakes, dumpTake, origin, late>>
      /\ slot' \in {[slot EXCEPT ![k] = opened], [slot EXCEPT ![k] = Dump!Empty]}
      /\ dumps' \in {dumps, dumps \ {<<k, dump.number>>}}
      /\ slot' = [slot EXCEPT ![k] = opened] => dumps' = dumps \ {<<k, dump.number>>}
         \/ slot' = [slot EXCEPT ![k] = Dump!Empty]
      /\ failure' \in {failure, TRUE}
  BY DEF Dump!Record, Dump!Appends, Dump!AppendFails
<1>2. /\ slot \in [Kinds -> Dump!Slots] /\ dump \in Dump!Slots /\ dump.used
      /\ dump.number \in 1 .. dumpTakes \/ dump.number = 1
  BY DumpOfStream DEF DumpInv, Dump!TypeOK
<1>3. /\ opened \in Dump!Slots /\ opened.used /\ opened.number = dump.number
      /\ Dump!Empty \in Dump!Slots /\ ~Dump!Empty.used /\ ~Dump!Empty.open
  BY <1>2 DEF Dump!Slots, Dump!Empty
<1>4. Dump!TypeOK' /\ DumpFilesInv'
  BY <1>1, <1>2, <1>3 DEF DumpInv, Dump!TypeOK, DumpFilesInv
<1>5. \A j \in Kinds \ {k} : slot'[j] = slot[j]
  BY <1>1, <1>2
<1>6. \/ slot'[k] = Dump!Empty
      \/ slot'[k] = opened /\ <<k, dump.number>> \notin dumps'
  BY <1>1, <1>2
<1>7. DumpSlotInv'
  BY <1>1, <1>3, <1>5, <1>6 DEF DumpInv, DumpSlotInv
<1>8. DumpNumberInv' /\ DumpOpenInv'
  BY <1>1, <1>2, <1>3, <1>5, <1>6 DEF DumpInv, DumpNumberInv, DumpOpenInv
<1>9. Dump!StopClosesWhatItOpened'
  BY <1>1 DEF Dump!StopClosesWhatItOpened
<1> QED  BY <1>4, <1>7, <1>8, <1>9 DEF DumpInv

(* The invariant holds for ever. *)
THEOREM DumpInvariance == Dump!Spec => []DumpInv
<1>1. DumpInv /\ [Dump!Next]_Dump!vars => DumpInv'
  <2> SUFFICES ASSUME DumpInv, [Dump!Next]_Dump!vars PROVE DumpInv'
    OBVIOUS
  <2>1. CASE Dump!StartRecording
    BY <2>1, ArmingKeepsDumps
  <2>2. CASE Dump!FirstFrame
    BY <2>2, FirstFrameKeepsDumps
  <2>3. CASE Dump!StopRecording
    BY <2>3, DisarmingKeepsDumps
  <2>4. CASE \E k \in Kinds \cap Described : Dump!DescribeStream(k)
    BY <2>4, DescribingKeepsDumps
  <2>5. CASE \E k \in Kinds : Dump!Record(k)
    BY <2>5, RecordingKeepsDumps
  <2>6. CASE UNCHANGED Dump!vars
    BY <2>6 DEF Dump!vars, DumpInv, Dump!TypeOK, DumpFilesInv, DumpSlotInv, DumpNumberInv,
       DumpOpenInv, Dump!StopClosesWhatItOpened
  <2> QED  BY <2>1, <2>2, <2>3, <2>4, <2>5, <2>6 DEF Dump!Next
<1> QED  BY <1>1, InitDumpInv, PTL DEF Dump!Spec

(* Between takes, and before a take's first frame, no dump is open: the    *)
(* end of a take closes every file it opened, whatever fails.              *)
THEOREM TakesAreClosed == Dump!Spec => [](Dump!TypeOK /\ Dump!StopClosesWhatItOpened)
<1>1. DumpInv => Dump!TypeOK /\ Dump!StopClosesWhatItOpened
  BY DEF DumpInv
<1> QED  BY <1>1, DumpInvariance, PTL

(* A finished dump is never replaced, unless its stream was described anew *)
(* between two takes.                                                      *)
THEOREM DumpsStay == Dump!Spec => Dump!FinishedDumpsStay
<1>1. DumpInv /\ [Dump!Next]_Dump!vars => [\A file \in dumps : file \in dumps' \/ file[1] \in late]_Dump!vars
  <2> SUFFICES ASSUME DumpInv, [Dump!Next]_Dump!vars, NEW file \in dumps, file[1] \notin late
               PROVE  file \in dumps'
    OBVIOUS
  <2>1. ASSUME NEW k \in Kinds, Dump!Record(k) PROVE file \in dumps'
    <3>1. dumpTake # Dump!NoTake /\ dumps' \in {dumps, dumps \ {<<k, Dump!SlotOf(k).number>>}}
      BY <2>1 DEF Dump!Record, Dump!Appends, Dump!AppendFails
    <3>2. k \notin late => <<k, Dump!SlotOf(k).number>> \notin dumps
      BY <2>1, <3>1, DumpOfStream
    <3> QED  BY <3>1, <3>2
  <2>2. CASE Dump!StartRecording \/ Dump!FirstFrame \/ Dump!StopRecording
    BY <2>2 DEF Dump!StartRecording, Dump!FirstFrame, Dump!StopRecording
  <2>3. CASE \E k \in Kinds \cap Described : Dump!DescribeStream(k)
    BY <2>3 DEF Dump!DescribeStream
  <2>4. CASE UNCHANGED Dump!vars
    BY <2>4 DEF Dump!vars
  <2> QED  BY <2>1, <2>2, <2>3, <2>4 DEF Dump!Next
<1> QED  BY <1>1, DumpInvariance, PTL DEF Dump!Spec, Dump!FinishedDumpsStay
=============================================================================
