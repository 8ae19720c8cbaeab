-------------------------- MODULE RunReport_proofs --------------------------
(***************************************************************************)
(* The run report keeps its promises for every size of journal, page and   *)
(* buffer, every number of runs and every power cut: a replay prints the   *)
(* first lines of one run, and a report that says it is complete is.       *)
(***************************************************************************)
EXTENDS RunReport, SequenceTheorems, WellFoundedInduction, TLAPS

-----------------------------------------------------------------------------
(* Sequences one after the other                                            *)

(* A set of numbers that is not empty has a least one: the form of induction *)
(* the proofs of this module use.                                            *)
LEMMA Least ==
  ASSUME NEW T, T \subseteq Nat, T # {}
  PROVE  \E x \in T : \A y \in T : x <= y
<1> DEFINE R == OpToRel(<, Nat)
<1>1. R = {ss \in Nat \X Nat : ss[1] < ss[2]}
  BY DEF OpToRel
<1>2. IsWellFoundedOn(R, Nat)
  BY NatLessThanWellFounded
<1>3. PICK x \in T : \A y \in T : ~(<<y, x>> \in R)
  <2> HIDE DEF R
  <2> QED
    BY <1>2, WFMin
<1>4. ASSUME NEW y \in T PROVE x <= y
  <2>1. x \in Nat /\ y \in Nat
    BY <1>3
  <2>2. ~(y < x)
    BY <2>1, <1>1, <1>3
  <2> QED
    BY <2>1, <2>2
<1> QED
  BY <1>3, <1>4

\* f[i] is the first i sequences of d, one after the other.
Flat(f, d, n) == f = [i \in 1..n |-> IF i = 1 THEN d[1] ELSE f[i - 1] \o d[i]]

(* The recursive function inside FlattenSeq exists. *)
LEMMA FlatExists ==
  ASSUME NEW d, NEW n \in Nat
  PROVE  \E f : Flat(f, d, n)
<1> DEFINE T == {m \in Nat : ~\E f : Flat(f, d, m)}
<1> SUFFICES ASSUME T # {} PROVE FALSE
  OBVIOUS
<1>1. PICK x \in T : \A y \in T : x <= y
  <2>1. T \subseteq Nat
    OBVIOUS
  <2> QED
    BY <2>1, Least
<1>2. x \in Nat /\ ~\E f : Flat(f, d, x)
  BY <1>1
<1>3. CASE x = 0
  <2> DEFINE g == [i \in 1..0 |-> <<>>]
  <2>1. g = [i \in 1..0 |-> IF i = 1 THEN d[1] ELSE g[i - 1] \o d[i]]
    OBVIOUS
  <2>2. Flat(g, d, x)
    BY <2>1, <1>3 DEF Flat
  <2> QED
    BY <2>2, <1>2
<1>4. CASE x # 0
  <2>1. x - 1 \in Nat /\ ~(x <= x - 1)
    BY <1>2, <1>4
  <2>2. PICK f : Flat(f, d, x - 1)
    <3>1. ~(x - 1 \in T)
      BY <2>1, <1>1
    <3> QED
      BY <3>1, <2>1
  <2> DEFINE h == IF x = 1 THEN d[1] ELSE f[x - 1] \o d[x]
             g == [i \in 1..x |-> IF i = x THEN h ELSE f[i]]
  <2>3. g = [i \in 1..x |-> IF i = 1 THEN d[1] ELSE g[i - 1] \o d[i]]
    <3>1. ASSUME NEW i \in 1..x PROVE g[i] = IF i = 1 THEN d[1] ELSE g[i - 1] \o d[i]
      <4>1. CASE i = x
        <5>1. i # 1 => i - 1 \in 1..x /\ i - 1 # x
          BY <1>2
        <5> QED
          BY <5>1, <4>1, <1>2
      <4>2. CASE i # x
        <5>1. i \in 1..(x - 1) /\ (i # 1 => i - 1 \in 1..x /\ i - 1 # x)
          BY <4>2, <1>2
        <5>2. f[i] = IF i = 1 THEN d[1] ELSE f[i - 1] \o d[i]
          BY <5>1, <2>2 DEF Flat
        <5> QED
          BY <5>1, <5>2, <4>2
      <4> QED
        BY <4>1, <4>2
    <3> QED
      BY <3>1
  <2>4. Flat(g, d, x)
    BY <2>3 DEF Flat
  <2> QED
    BY <2>4, <1>2
<1> QED
  BY <1>3, <1>4

(* And what it computes depends on the sequences before alone. *)
LEMMA FlatUnique ==
  ASSUME NEW d, NEW f, NEW g, NEW m \in Nat, NEW n \in Nat, m <= n,
         Flat(f, d, m), Flat(g, d, n)
  PROVE  \A i \in 1..m : f[i] = g[i]
<1> DEFINE T == {i \in 1..m : f[i] # g[i]}
<1> SUFFICES ASSUME T # {} PROVE FALSE
  OBVIOUS
<1>1. PICK x \in T : \A y \in T : x <= y
  <2>1. T \subseteq Nat
    OBVIOUS
  <2> QED
    BY <2>1, Least
<1>2. x \in 1..m /\ f[x] # g[x]
  BY <1>1
<1> x \in 1..m /\ x \in 1..n
  BY <1>2
<1>3. f[x] = IF x = 1 THEN d[1] ELSE f[x - 1] \o d[x]
  <2>1. f = [i \in 1..m |-> IF i = 1 THEN d[1] ELSE f[i - 1] \o d[i]]
    BY DEF Flat
  <2> QED
    BY ONLY <2>1, x \in 1..m
<1>4. g[x] = IF x = 1 THEN d[1] ELSE g[x - 1] \o d[x]
  <2>1. g = [i \in 1..n |-> IF i = 1 THEN d[1] ELSE g[i - 1] \o d[i]]
    BY DEF Flat
  <2> QED
    BY ONLY <2>1, x \in 1..n
<1>5. x # 1
  BY <1>2, <1>3, <1>4
<1>6. x - 1 \in 1..m /\ ~(x <= x - 1)
  BY <1>2, <1>5
<1>7. f[x - 1] = g[x - 1]
  <2>1. ~(x - 1 \in T)
    BY <1>6, <1>1
  <2> QED
    BY <2>1, <1>6
<1> QED
  BY <1>2, <1>3, <1>4, <1>5, <1>7

LEMMA FlatAgree ==
  ASSUME NEW d, NEW e, NEW f, NEW g, NEW n \in Nat, n # 0,
         Flat(f, d, n + 1), Flat(g, e, n), \A i \in 1..n : e[i] = d[i]
  PROVE  f[n] = g[n]
<1>1. g = [i \in 1..n |-> IF i = 1 THEN e[1] ELSE g[i - 1] \o e[i]]
  BY DEF Flat
<1>2. \A i \in 1..n : e[i] = d[i] /\ e[1] = d[1]
  OBVIOUS
<1>3. g = [i \in 1..n |-> IF i = 1 THEN d[1] ELSE g[i - 1] \o d[i]]
  BY ONLY <1>1, <1>2
<1>4. Flat(g, d, n)
  BY <1>3 DEF Flat
<1>5. n \in Nat /\ n + 1 \in Nat /\ n <= n + 1 /\ n \in 1..n
  OBVIOUS
<1>6. \A i \in 1..n : g[i] = f[i]
  BY <1>4, <1>5, FlatUnique
<1> QED
  BY <1>5, <1>6

(* FlattenSeq by its function. *)
LEMMA FlattenIs ==
  ASSUME NEW S, NEW n \in Nat \ {0}, NEW d \in [1..n -> S]
  PROVE  \E f : Flat(f, d, n) /\ FlattenSeq(d) = f[n]
<1>1. Len(d) = n
  OBVIOUS
<1> DEFINE f == CHOOSE f : f = [i \in 1..n |-> IF i = 1 THEN d[i] ELSE f[i - 1] \o d[i]]
<1>2. f = [i \in 1..n |-> IF i = 1 THEN d[i] ELSE f[i - 1] \o d[i]]
  <2>1. PICK h : Flat(h, d, n)
    BY FlatExists
  <2>2. h = [i \in 1..n |-> IF i = 1 THEN d[i] ELSE h[i - 1] \o d[i]]
    BY <2>1 DEF Flat
  <2> QED
    BY <2>2
<1>3. FlattenSeq(d) = f[n]
  BY <1>1 DEF FlattenSeq
<1>4. Flat(f, d, n)
  <2> HIDE DEF f
  <2>1. f = [i \in 1..n |-> IF i = 1 THEN d[1] ELSE f[i - 1] \o d[i]]
    BY <1>2
  <2> QED
    BY <2>1 DEF Flat
<1> QED
  BY <1>3, <1>4

LEMMA FlattenTyped ==
  ASSUME NEW S, NEW n \in Nat, NEW d \in [1..n -> Seq(S)]
  PROVE  FlattenSeq(d) \in Seq(S)
<1>1. CASE n = 0
  <2>1. Len(d) = 0 /\ d \in Seq(S)
    BY <1>1
  <2> QED
    BY <2>1 DEF FlattenSeq
<1>2. CASE n # 0
  <2>1. PICK f : Flat(f, d, n) /\ FlattenSeq(d) = f[n]
    BY <1>2, FlattenIs
  <2>2. f = [i \in 1..n |-> IF i = 1 THEN d[1] ELSE f[i - 1] \o d[i]]
    BY <2>1 DEF Flat
  <2> DEFINE T == {i \in 1..n : f[i] \notin Seq(S)}
  <2>3. ASSUME T # {} PROVE FALSE
    <3>1. PICK x \in T : \A y \in T : x <= y
      <4>1. T \subseteq Nat
        OBVIOUS
      <4> QED
        BY <4>1, <2>3, Least
    <3>2. x \in 1..n /\ f[x] \notin Seq(S)
      BY <3>1
    <3>3. f[x] = IF x = 1 THEN d[1] ELSE f[x - 1] \o d[x]
      BY ONLY <2>2, <3>2
    <3>4. d[x] \in Seq(S)
      BY <3>2
    <3>5. x # 1
      BY <3>2, <3>3, <3>4
    <3>6. x - 1 \in 1..n /\ ~(x <= x - 1)
      BY <3>2, <3>5
    <3>7. f[x - 1] \in Seq(S)
      BY <3>1, <3>6
    <3>8. f[x - 1] \o d[x] \in Seq(S)
      BY ONLY <3>7, <3>4, ConcatProperties
    <3> QED
      BY <3>2, <3>3, <3>5, <3>8
  <2> QED
    BY <2>1, <2>3, <1>2
<1> QED
  BY <1>1, <1>2

(* One more sequence is appended to what the others are. *)
LEMMA FlattenStep ==
  ASSUME NEW S, NEW n \in Nat, NEW d, NEW e,
         d \in [1..(n + 1) -> Seq(S)], e \in [1..n -> Seq(S)],
         \A i \in 1..n : e[i] = d[i]
  PROVE  FlattenSeq(d) = FlattenSeq(e) \o d[n + 1]
<1>1. PICK f : Flat(f, d, n + 1) /\ FlattenSeq(d) = f[n + 1]
  <2>1. n + 1 \in Nat \ {0}
    OBVIOUS
  <2> QED
    BY <2>1, FlattenIs
<1>2. f[n + 1] = IF n + 1 = 1 THEN d[1] ELSE f[(n + 1) - 1] \o d[n + 1]
  <2>1. f = [i \in 1..(n + 1) |-> IF i = 1 THEN d[1] ELSE f[i - 1] \o d[i]]
    BY <1>1 DEF Flat
  <2>2. n + 1 \in 1..(n + 1)
    OBVIOUS
  <2> QED
    BY ONLY <2>1, <2>2
<1>3. CASE n = 0
  <2>1. Len(e) = 0 /\ e = <<>>
    BY <1>3
  <2>2. FlattenSeq(e) = <<>>
    BY <2>1 DEF FlattenSeq
  <2>3. d[1] \in Seq(S)
    BY <1>3
  <2>4. <<>> \o d[1] = d[1]
    BY <2>3, ConcatEmptySeq
  <2> QED
    BY <2>2, <2>4, <1>1, <1>2, <1>3
<1>4. CASE n # 0
  <2>1. PICK g : Flat(g, e, n) /\ FlattenSeq(e) = g[n]
    BY <1>4, FlattenIs
  <2>2. f[n] = g[n]
    <3>1. n # 0 /\ Flat(f, d, n + 1) /\ Flat(g, e, n)
      BY <1>1, <2>1, <1>4
    <3>2. \A i \in 1..n : e[i] = d[i]
      OBVIOUS
    <3> QED
      BY ONLY n \in Nat, <3>1, <3>2, FlatAgree
  <2>3. n + 1 # 1 /\ (n + 1) - 1 = n
    BY <1>4
  <2> QED
    BY <2>1, <2>2, <2>3, <1>1, <1>2, Zenon
<1> QED
  BY <1>3, <1>4

\* s is the beginning of t.
Begins(t, s) == Len(s) <= Len(t) /\ \A i \in 1..Len(s) : s[i] = t[i]

LEMMA BeginsConcat ==
  ASSUME NEW S, NEW s \in Seq(S), NEW t \in Seq(S), NEW u \in Seq(S), Begins(t, s)
  PROVE  Begins(t \o u, s)
<1>1. Len(s) \in Nat /\ Len(t) \in Nat /\ Len(u) \in Nat /\ Len(t \o u) = Len(t) + Len(u)
  BY ConcatProperties
<1>2. ASSUME NEW i \in 1..Len(s) PROVE s[i] = (t \o u)[i]
  <2>1. i \in 1..Len(t)
    BY <1>1 DEF Begins
  <2> QED
    BY <2>1 DEF Begins
<1> QED
  BY <1>1, <1>2 DEF Begins

(* Fewer of the sequences make a beginning of all of them. *)
LEMMA FlattenBegins ==
  ASSUME NEW S, NEW n \in Nat, NEW d \in [1..n -> Seq(S)], NEW m \in 0..n
  PROVE  Begins(FlattenSeq(d), FlattenSeq([i \in 1..m |-> d[i]]))
<1> DEFINE Part(k) == FlattenSeq([i \in 1..k |-> d[i]])
           T == {k \in m..n : ~Begins(Part(k), Part(m))}
<1>1. ASSUME NEW k \in 0..n PROVE [i \in 1..k |-> d[i]] \in [1..k -> Seq(S)] /\ Part(k) \in Seq(S)
  <2>1. k \in Nat /\ [i \in 1..k |-> d[i]] \in [1..k -> Seq(S)]
    OBVIOUS
  <2>2. Part(k) \in Seq(S)
    BY <2>1, FlattenTyped
  <2> QED
    BY <2>1, <2>2
<1>2. ASSUME NEW k \in 0..(n - 1) PROVE Part(k + 1) = Part(k) \o d[k + 1]
  <2> DEFINE a == [i \in 1..(k + 1) |-> d[i]]
             b == [i \in 1..k |-> d[i]]
  <2>1. a \in [1..(k + 1) -> Seq(S)] /\ b \in [1..k -> Seq(S)] /\ k \in Nat
    BY <1>1
  <2>2. (\A i \in 1..k : b[i] = a[i]) /\ a[k + 1] = d[k + 1]
    BY <2>1
  <2> HIDE DEF a, b
  <2>3. FlattenSeq(a) = FlattenSeq(b) \o a[k + 1]
    BY <2>1, <2>2, FlattenStep
  <2> QED
    BY <2>2, <2>3 DEF a, b
<1>3. d = [i \in 1..n |-> d[i]]
  OBVIOUS
<1>4. ASSUME T # {} PROVE FALSE
  <2>1. PICK x \in T : \A y \in T : x <= y
    <3>1. T \subseteq Nat
      OBVIOUS
    <3> QED
      BY <3>1, <1>4, Least
  <2>2. x \in m..n /\ ~Begins(Part(x), Part(m))
    BY <2>1
  <2> HIDE DEF Part
  <2>3. x # m
    <3>1. Len(Part(m)) \in Nat
      BY <1>1
    <3> QED
      BY <3>1, <2>2 DEF Begins
  <2>4. x - 1 \in m..n /\ x - 1 \in 0..(n - 1) /\ ~(x <= x - 1) /\ x - 1 \in 0..n /\ (x - 1) + 1 = x
        /\ x \in 1..n
    BY <2>2, <2>3
  <2>5. Begins(Part(x - 1), Part(m))
    BY <2>1, <2>4
  <2>6. Part(x) = Part(x - 1) \o d[x]
    BY <2>4, <1>2
  <2>7. Part(x - 1) \in Seq(S) /\ Part(m) \in Seq(S) /\ d[x] \in Seq(S)
    BY <2>4, <1>1
  <2> QED
    BY <2>2, <2>5, <2>6, <2>7, BeginsConcat
<1> QED
  <2>1. n \in m..n
    OBVIOUS
  <2>2. Begins(Part(n), Part(m))
    BY <2>1, <1>4
  <2> QED
    BY <2>2, <1>3

-----------------------------------------------------------------------------
(* The inductive invariant                                                  *)

PageSet == [magic : {"ERASED", "TORN", "START", "DATA", "END"}, index : Int, data : Seq(Text)]
FlashOK == flash \in [PageNumbers -> PageSet]

Saving == {"begin_checkpoint", "checkpoint", "finish_checkpoint"}
Closing == {"finish_checkpoint", "finish", "ended"}

\* The operation under way, and the pages it finds.
JobOK ==
  /\ job \in {"erase", "start"} => phase = "begin" /\ ~active /\ next = 0
  /\ job = "erase" => \A i \in PageNumbers : i \div SECTOR_PAGES < sector => flash[i] = Erased
  /\ job = "start" => \A i \in PageNumbers : flash[i] = Erased
  /\ job = "append" => active /\ phase \in Saving
  /\ job = "finish" => active /\ phase = "finish"
  /\ job # "none" => answer = "none"
  /\ job # "append" => rest = <<>>

\* An open journal is a start page, pages of text, and nothing behind them.
PagesOK ==
  active => /\ next \in 1..(PAGE_COUNT - 1)
            /\ RunFound /\ Emitted = 1..(next - 1)
            /\ \A i \in next..(PAGE_COUNT - 1) : flash[i] = Erased

\* s is the lines of run r that follow its first n.
LinesFrom(s, r, n) == \A i \in 1..Len(s) : s[i] = <<r, n + i>>

\* Journal, snapshot and buffer are one stream of the run's lines, without a gap, and
\* all of them until one was not recorded.
Recording == active \/ phase \in {"boot", "begin"}
Kept == IF active THEN Len(Replayed) ELSE 0
StreamOK ==
  Recording =>
    /\ LinesFrom(rest, run, Kept) /\ LinesFrom(pending, run, Kept + Len(rest))
    /\ ~failed => Kept + Len(rest) + Len(pending) = reported[run]
JournalOK ==
  /\ active => LinesFrom(Replayed, run, 0)
  /\ \E r \in 1..RUNS : LinesFrom(Replayed, r, 0)
  /\ SaysComplete => \E r \in 1..run :
       Len(Replayed) = reported[r] /\ LinesFrom(Replayed, r, 0) /\ (r = run => closed)

\* How far main() has come, and what it may rely on there.
PhaseOK ==
  /\ closed <=> phase \in Closing
  /\ phase \in {"boot", "begin"} => ~reportActive
  /\ phase = "boot" => ~active /\ job = "none"
  /\ phase = "begin" =>
       /\ active => job = "none" /\ answer = "ok" /\ Replayed = <<>>
       /\ answer = "ok" => active
  /\ phase \in Saving \cup {"running", "finish"} /\ ~failed => reportActive
  /\ phase = "running" /\ ~failed => active
  /\ phase = "stopping" => failed

\* What a checkpoint that goes well answers for.
SnapshotOK ==
  /\ snapshotAt <= reported[run]
  /\ \A r \in 1..RUNS : r > run => reported[r] = 0
  /\ closed => snapshotAt = reported[run] /\ (reportActive => pending = <<>>)
  /\ phase \in {"boot", "begin", "begin_checkpoint", "unrecorded"} => savedTo = 0
  /\ savedTo <= Len(Replayed)
  /\ phase \in Saving /\ ~failed /\ answer # "failed" =>
       active /\ Len(Replayed) + Len(rest) = snapshotAt
  /\ job = "finish" => Len(Replayed) = reported[run] /\ closed

IInv ==
  /\ ReportTypes /\ FlashOK /\ JobOK /\ PagesOK /\ StreamOK /\ JournalOK /\ PhaseOK /\ SnapshotOK

-----------------------------------------------------------------------------
(* What a replay prints                                                     *)

\* The replay finds a run and stops behind page n.
StopsAt(n) ==
  /\ Emitted = 1..n
  /\ RunFound => \A j \in 1..n : DataPage(j)
  /\ RunFound /\ n + 1 < PAGE_COUNT => ~DataPage(n + 1)
  /\ ~RunFound => n = 0
EmittedOK == FlashOK => \E n \in 0..(PAGE_COUNT - 1) : StopsAt(n)

LEMMA PageCount ==
  /\ PAGE_COUNT \in Nat /\ PAGE_COUNT >= 3 /\ PageNumbers = 0..(PAGE_COUNT - 1)
  /\ 0 \in PageNumbers /\ PAGE_COUNT - 1 \in Nat
BY StoreAssumed DEF StoreAssumption, PageNumbers

LEMMA EmittedIs == EmittedOK
<1> SUFFICES ASSUME FlashOK PROVE \E n \in 0..(PAGE_COUNT - 1) : StopsAt(n)
  BY DEF EmittedOK
<1> USE PageCount
<1>1. CASE ~RunFound
  <2>1. Emitted = 1..0
    BY <1>1 DEF Emitted
  <2> QED
    BY <2>1, <1>1 DEF StopsAt
<1>2. CASE RunFound
  <2> DEFINE T == {i \in 1..(PAGE_COUNT - 1) : ~DataPage(i)}
  <2>1. Emitted = {i \in PageNumbers \ {0} : \A j \in 1..i : DataPage(j)}
    BY <1>2 DEF Emitted
  <2>2. CASE T = {}
    <3>1. \A j \in 1..(PAGE_COUNT - 1) : DataPage(j)
      BY <2>2
    <3>2. Emitted = 1..(PAGE_COUNT - 1)
      <4> HIDE DEF DataPage
      <4> QED
        BY <2>1, <3>1
    <3> QED
      BY <3>1, <3>2, <1>2 DEF StopsAt
  <2>3. CASE T # {}
    <3>1. PICK x \in T : \A y \in T : x <= y
      <4>1. T \subseteq Nat
        OBVIOUS
      <4> QED
        BY <4>1, <2>3, Least
    <3>2. x \in 1..(PAGE_COUNT - 1) /\ ~DataPage(x)
      BY <3>1
    <3>3. \A j \in 1..(x - 1) : DataPage(j)
      <4>1. ASSUME NEW j \in 1..(x - 1) PROVE DataPage(j)
        <5>1. j \in 1..(PAGE_COUNT - 1) /\ ~(x <= j)
          BY <3>2
        <5> QED
          BY <5>1, <3>1
      <4> QED
        BY <4>1
    <3>4. Emitted = 1..(x - 1)
      BY <2>1, <3>2, <3>3
    <3>5. x - 1 \in 0..(PAGE_COUNT - 1) /\ (x - 1) + 1 = x
      BY <3>2
    <3> QED
      BY <3>2, <3>3, <3>4, <3>5, <1>2 DEF StopsAt
  <2> QED
    BY <2>2, <2>3
<1> QED
  BY <1>1, <1>2

LEMMA EmittedIsNext == EmittedOK'
BY EmittedIs, PTL

\* The texts of pages 1 to n.
Texts(n) == [i \in 1..n |-> flash[i].data]
ReplayOK ==
  FlashOK => \A n \in 0..(PAGE_COUNT - 1) :
    Emitted = 1..n => /\ Texts(n) \in [1..n -> Seq(Text)]
                      /\ Replayed = FlattenSeq(Texts(n)) /\ Replayed \in Seq(Text)

LEMMA ReplayIs == ReplayOK
<1> SUFFICES ASSUME FlashOK, NEW n \in 0..(PAGE_COUNT - 1), Emitted = 1..n
             PROVE  /\ Texts(n) \in [1..n -> Seq(Text)]
                    /\ Replayed = FlattenSeq(Texts(n)) /\ Replayed \in Seq(Text)
  BY DEF ReplayOK
<1> USE PageCount
<1>1. Texts(n) \in [1..n -> Seq(Text)]
  BY DEF FlashOK, PageSet, Texts
<1>2. Replayed = FlattenSeq(Texts(n))
  BY DEF Replayed, Texts
<1>3. FlattenSeq(Texts(n)) \in Seq(Text)
  <2>1. n \in Nat
    OBVIOUS
  <2> QED
    BY <2>1, <1>1, FlattenTyped
<1> QED
  BY <1>1, <1>2, <1>3

LEMMA ReplayIsNext == ReplayOK'
BY ReplayIs, PTL

(* While the flash is untouched a replay stays what it is. *)
LEMMA SameReplay ==
  ASSUME UNCHANGED flash
  PROVE  /\ Replayed' = Replayed /\ Emitted' = Emitted
         /\ (RunFound' <=> RunFound) /\ (SaysComplete' <=> SaysComplete) /\ (FlashOK' <=> FlashOK)
<1>1. \A i, magic : Valid(i, magic)' <=> Valid(i, magic)
  BY DEF Valid
<1>2. RunFound' <=> RunFound
  BY <1>1 DEF RunFound
<1>3. \A i : DataPage(i)' <=> DataPage(i)
  BY DEF DataPage, Valid
<1>4. Emitted' = Emitted
  BY <1>2, <1>3 DEF Emitted
<1>5. Replayed' = Replayed
  BY <1>4 DEF Replayed
<1>6. SaysComplete' <=> SaysComplete
  BY <1>1, <1>2, <1>4 DEF SaysComplete
<1>7. FlashOK' <=> FlashOK
  BY DEF FlashOK
<1> QED
  BY <1>2, <1>4, <1>5, <1>6, <1>7

(* Without a start page nothing is printed. *)
LEMMA NoReplay ==
  ASSUME FlashOK, ~RunFound
  PROVE  Emitted = 1..0 /\ Replayed = <<>> /\ ~SaysComplete
<1>1. Emitted = 1..0 /\ ~SaysComplete
  BY DEF Emitted, SaysComplete
<1>2. Replayed = FlattenSeq(Texts(0))
  <2>1. 0 \in 0..(PAGE_COUNT - 1)
    BY PageCount
  <2> QED
    BY <2>1, <1>1, ReplayIs DEF ReplayOK
<1>3. Len(Texts(0)) = 0 /\ Texts(0) = <<>>
  BY DEF Texts
<1> QED
  BY <1>1, <1>2, <1>3 DEF FlattenSeq

NoReplayOK == FlashOK /\ ~RunFound => Emitted = 1..0 /\ Replayed = <<>> /\ ~SaysComplete
LEMMA NoReplayIs == NoReplayOK
BY NoReplay DEF NoReplayOK
LEMMA NoReplayNext == NoReplayOK'
BY NoReplayIs, PTL

LEMMA SameEnd ==
  ASSUME NEW m \in Nat \ {0}, NEW n \in Nat \ {0}, 1..(m - 1) = 1..(n - 1)
  PROVE  m = n
<1>1. m - 1 = 0 \/ m - 1 \in 1..(n - 1)
  OBVIOUS
<1>2. n - 1 = 0 \/ n - 1 \in 1..(m - 1)
  OBVIOUS
<1> QED
  BY <1>1, <1>2

(* What main() has written is an open journal: it says nothing of being complete. *)
LEMMA OpenIsIncomplete ==
  ASSUME FlashOK, next \in 1..(PAGE_COUNT - 1), Emitted = 1..(next - 1),
         \A i \in next..(PAGE_COUNT - 1) : flash[i] = Erased
  PROVE  ~SaysComplete
<1> USE PageCount
<1> SUFFICES ASSUME NEW i \in PageNumbers \ {0}, Valid(i, "END"), Emitted = 1..(i - 1)
             PROVE  FALSE
  BY DEF SaysComplete
<1>1. i = next
  BY SameEnd
<1>2. flash[i] = Erased
  BY <1>1
<1> QED
  BY <1>2 DEF Valid, Erased, Page

EmittedToOK ==
  RunFound => \A n \in 0..(PAGE_COUNT - 1) :
    (\A j \in 1..n : DataPage(j)) /\ (n + 1 \in PageNumbers => ~DataPage(n + 1)) => Emitted = 1..n
LEMMA EmittedTo == EmittedToOK
<1> SUFFICES ASSUME RunFound, NEW n \in 0..(PAGE_COUNT - 1), \A j \in 1..n : DataPage(j),
                    n + 1 \in PageNumbers => ~DataPage(n + 1)
             PROVE  Emitted = 1..n
  BY DEF EmittedToOK
<1> USE PageCount
<1>1. Emitted = {i \in PageNumbers \ {0} : \A j \in 1..i : DataPage(j)}
  BY DEF Emitted
<1>2. ASSUME NEW i \in PageNumbers \ {0} PROVE (\A j \in 1..i : DataPage(j)) <=> i \in 1..n
  <2>1. CASE i \in 1..n
    BY <2>1
  <2>2. CASE i \notin 1..n
    <3>1. n + 1 \in 1..i /\ n + 1 \in PageNumbers
      BY <2>2
    <3> QED
      BY <3>1, <2>2
  <2> QED
    BY <2>1, <2>2
<1>3. 1..n \subseteq PageNumbers \ {0}
  OBVIOUS
<1> QED
  BY <1>1, <1>2, <1>3
LEMMA EmittedToNext == EmittedToOK'
BY EmittedTo, PTL

\* An open journal, up to page n.
Opened(n) ==
  /\ RunFound /\ Emitted = 1..(n - 1)
  /\ \A i \in n..(PAGE_COUNT - 1) : flash[i] = Erased

(* What programming the page behind an open journal does to any other page. *)
LEMMA OtherPages ==
  ASSUME FlashOK, NEW n \in 1..(PAGE_COUNT - 1), Opened(n),
         NEW page \in PageSet, flash' = [flash EXCEPT ![n] = page]
  PROVE  /\ FlashOK' /\ RunFound' /\ flash'[n] = page
         /\ \A i \in PageNumbers \ {n} : flash'[i] = flash[i]
         /\ \A i \in 1..(n - 1) : DataPage(i)'
<1> USE PageCount DEF Opened
<1>1. n \in PageNumbers /\ n # 0
  OBVIOUS
<1>2. FlashOK' /\ flash'[n] = page /\ \A i \in PageNumbers \ {n} : flash'[i] = flash[i]
  BY <1>1 DEF FlashOK
<1>3. RunFound'
  BY <1>1, <1>2 DEF RunFound, Valid
<1>4. ASSUME NEW i \in 1..(n - 1) PROVE DataPage(i)'
  <2>1. i \in Emitted /\ i \in 1..i /\ i \in PageNumbers \ {n}
    OBVIOUS
  <2>2. DataPage(i)
    BY <2>1 DEF Emitted
  <2>3. flash'[i] = flash[i]
    BY <1>2, <2>1
  <2> QED
    BY <2>2, <2>3 DEF DataPage, Valid
<1> QED
  BY <1>2, <1>3, <1>4

(* A page of text adds its text to the replay. *)
LEMMA PageAdded ==
  ASSUME FlashOK, NEW n \in 1..(PAGE_COUNT - 1), Opened(n), NEW data \in Seq(Text), data # <<>>,
         flash' = [flash EXCEPT ![n] = Page("DATA", n, data)]
  PROVE  /\ FlashOK' /\ RunFound' /\ Emitted' = 1..n /\ Replayed' = Replayed \o data
         /\ ~SaysComplete'
         /\ flash'[n] = Page("DATA", n, data)
         /\ \A i \in PageNumbers \ {n} : flash'[i] = flash[i]
<1> USE PageCount
<1> DEFINE page == Page("DATA", n, data)
<1>1. page \in PageSet
  BY DEF Page, PageSet
<1>2. /\ FlashOK' /\ RunFound' /\ flash'[n] = page
      /\ \A i \in PageNumbers \ {n} : flash'[i] = flash[i]
      /\ \A i \in 1..(n - 1) : DataPage(i)'
  BY <1>1, OtherPages
<1>3. DataPage(n)'
  BY <1>2 DEF DataPage, Valid, Page
<1>4. n + 1 \in PageNumbers => ~DataPage(n + 1)'
  <2>1. n + 1 \in PageNumbers => flash'[n + 1] = Erased
    BY <1>2 DEF Opened
  <2> QED
    BY <2>1 DEF DataPage, Valid, Erased, Page
<1>5. Emitted' = 1..n
  <2>1. \A j \in 1..n : DataPage(j)'
    <3> HIDE DEF page
    <3>1. \A j \in 1..n : j = n \/ j \in 1..(n - 1)
      OBVIOUS
    <3> QED
      BY <3>1, <1>2, <1>3
  <2>2. n \in 0..(PAGE_COUNT - 1)
    OBVIOUS
  <2> QED
    BY <2>1, <2>2, <1>2, <1>4, EmittedToNext DEF EmittedToOK
<1>6. Texts(n)' \in [1..n -> Seq(Text)] /\ Replayed' = FlattenSeq(Texts(n)')
  <2>1. n \in 0..(PAGE_COUNT - 1) /\ FlashOK'
    BY <1>2
  <2> QED
    BY <2>1, <1>5, ReplayIsNext DEF ReplayOK
<1>7. Texts(n - 1) \in [1..(n - 1) -> Seq(Text)] /\ Replayed = FlattenSeq(Texts(n - 1))
  <2>1. n - 1 \in 0..(PAGE_COUNT - 1)
    OBVIOUS
  <2> QED
    BY <2>1, ReplayIs DEF ReplayOK, Opened
<1>8. FlattenSeq(Texts(n)') = FlattenSeq(Texts(n - 1)) \o (Texts(n)')[n]
  <2>1. \A i \in 1..(n - 1) : Texts(n - 1)[i] = (Texts(n)')[i]
    BY <1>2 DEF Texts
  <2>2. n - 1 \in Nat /\ (n - 1) + 1 = n
    OBVIOUS
  <2> QED
    BY <2>1, <2>2, <1>6, <1>7, FlattenStep
<1>9. (Texts(n)')[n] = data
  BY <1>2 DEF Texts, Page
<1>10. ~SaysComplete'
  <2> SUFFICES ASSUME NEW i \in PageNumbers \ {0}, Valid(i, "END")', Emitted' = 1..(i - 1)
               PROVE  FALSE
    BY DEF SaysComplete
  <2>1. i = n + 1
    <3>1. i \in Nat \ {0} /\ n + 1 \in Nat \ {0} /\ (n + 1) - 1 = n /\ 1..(i - 1) = 1..((n + 1) - 1)
      BY <1>5
    <3> QED
      BY <3>1, SameEnd
  <2>2. flash'[i] = Erased
    BY <2>1, <1>2 DEF Opened
  <2> QED
    BY <2>2 DEF Valid, Erased, Page
<1> QED
  BY <1>2, <1>5, <1>6, <1>7, <1>8, <1>9, <1>10

LEMMA EmptyPages ==
  /\ Torn \in PageSet /\ Erased \in PageSet
  /\ \A n \in Int : Page("START", n, <<>>) \in PageSet /\ Page("END", n, <<>>) \in PageSet
<1>1. <<>> \in Seq(Text)
  BY EmptySeq
<1> QED
  BY <1>1 DEF Torn, Erased, Page, PageSet

(* A page that is no text ends the replay where it was; only an end marker makes it *)
(* complete.                                                                        *)
LEMMA PageMarked ==
  ASSUME FlashOK, NEW n \in 1..(PAGE_COUNT - 1), Opened(n), NEW page \in {Torn, Page("END", n, <<>>)},
         flash' = [flash EXCEPT ![n] = page]
  PROVE  /\ FlashOK' /\ RunFound' /\ Emitted' = Emitted /\ Replayed' = Replayed
         /\ page = Torn => ~SaysComplete'
         /\ page # Torn => SaysComplete'
         /\ flash'[n] = page /\ \A i \in PageNumbers \ {n} : flash'[i] = flash[i]
<1> USE PageCount
<1>1. page \in PageSet
  BY EmptyPages
<1>2. /\ FlashOK' /\ RunFound' /\ flash'[n] = page
      /\ \A i \in PageNumbers \ {n} : flash'[i] = flash[i]
      /\ \A i \in 1..(n - 1) : DataPage(i)'
  BY <1>1, OtherPages
<1>3. ~DataPage(n)'
  BY <1>2 DEF DataPage, Valid, Page, Torn
<1>4. Emitted' = 1..(n - 1) /\ Emitted = 1..(n - 1)
  <2>1. n - 1 \in 0..(PAGE_COUNT - 1) /\ (n - 1) + 1 = n
    OBVIOUS
  <2> QED
    BY <2>1, <1>2, <1>3, EmittedToNext DEF EmittedToOK, Opened
<1>5. Replayed' = Replayed
  <2>1. n - 1 \in 0..(PAGE_COUNT - 1) /\ FlashOK'
    BY <1>2
  <2>2. Replayed' = FlattenSeq(Texts(n - 1)')
    BY <2>1, <1>4, ReplayIsNext DEF ReplayOK
  <2>3. Replayed = FlattenSeq(Texts(n - 1))
    BY <2>1, <1>4, ReplayIs DEF ReplayOK
  <2>4. Texts(n - 1)' = Texts(n - 1)
    <3>1. \A i \in 1..(n - 1) : flash'[i] = flash[i]
      BY <1>2
    <3> QED
      BY <3>1 DEF Texts
  <2> QED
    BY <2>2, <2>3, <2>4
<1>6. ASSUME page = Torn PROVE ~SaysComplete'
  <2> SUFFICES ASSUME NEW i \in PageNumbers \ {0}, Valid(i, "END")', Emitted' = 1..(i - 1)
               PROVE  FALSE
    BY DEF SaysComplete
  <2>1. i = n
    BY <1>4, SameEnd
  <2> QED
    BY <2>1, <1>2, <1>6 DEF Valid, Torn, Page
<1>7. ASSUME page # Torn PROVE SaysComplete'
  <2>1. Valid(n, "END")'
    BY <1>2, <1>7 DEF Valid, Page
  <2>2. n \in PageNumbers \ {0}
    OBVIOUS
  <2> QED
    BY <2>1, <2>2, <1>2, <1>4 DEF SaysComplete
<1> QED
  BY <1>2, <1>4, <1>5, <1>6, <1>7

(* The first page programmed after an erase. *)
LEMMA FirstPage ==
  ASSUME FlashOK, \A i \in PageNumbers : flash[i] = Erased,
         NEW page \in {Torn, Page("START", 0, <<>>)}, flash' = [flash EXCEPT ![0] = page]
  PROVE  /\ FlashOK' /\ Emitted' = 1..0 /\ Replayed' = <<>> /\ ~SaysComplete'
         /\ page = Torn => ~RunFound'
         /\ page # Torn => RunFound'
         /\ \A i \in 1..(PAGE_COUNT - 1) : flash'[i] = Erased
         /\ ~RunFound
<1> USE PageCount
<1>1. FlashOK' /\ flash'[0] = page
  <2>1. page \in PageSet
    BY EmptyPages
  <2> QED
    BY <2>1 DEF FlashOK
<1>2. \A i \in 1..(PAGE_COUNT - 1) : flash'[i] = Erased
  OBVIOUS
<1>3. ~RunFound
  BY DEF RunFound, Valid, Erased, Page
<1>4. CASE page = Torn
  <2>1. ~RunFound'
    BY <1>1, <1>4 DEF RunFound, Valid, Torn, Page
  <2>2. Emitted' = 1..0 /\ Replayed' = <<>> /\ ~SaysComplete'
    BY <2>1, <1>1, NoReplayNext DEF NoReplayOK
  <2> QED
    BY <2>1, <2>2, <1>1, <1>2, <1>3, <1>4
<1>5. CASE page # Torn
  <2>1. RunFound'
    BY <1>1, <1>5 DEF RunFound, Valid, Page
  <2>2. ~DataPage(1)'
    BY <1>2 DEF DataPage, Valid, Erased, Page
  <2>3. Emitted' = 1..0
    <3>1. 0 \in 0..(PAGE_COUNT - 1) /\ 0 + 1 = 1 /\ \A j \in 1..0 : DataPage(j)'
      OBVIOUS
    <3> QED
      BY <2>1, <2>2, <3>1, EmittedToNext DEF EmittedToOK
  <2>4. Replayed' = FlattenSeq(Texts(0)')
    <3>1. 0 \in 0..(PAGE_COUNT - 1)
      OBVIOUS
    <3> QED
      BY <3>1, <2>3, <1>1, ReplayIsNext DEF ReplayOK
  <2>5. Texts(0)' = <<>>
    BY DEF Texts
  <2>6. FlattenSeq(<<>>) = <<>>
    BY DEF FlattenSeq
  <2>7. ~SaysComplete'
    <3> SUFFICES ASSUME NEW i \in PageNumbers \ {0}, Valid(i, "END")' PROVE FALSE
      BY DEF SaysComplete
    <3>1. flash'[i] = Erased
      BY <1>2
    <3> QED
      BY <3>1 DEF Valid, Erased, Page
  <2> QED
    BY <2>1, <2>3, <2>4, <2>5, <2>6, <2>7, <1>1, <1>2, <1>3, <1>5
<1> QED
  BY <1>4, <1>5

LEMMA ReplayTyped ==
  ASSUME FlashOK
  PROVE  Replayed \in Seq(Text)
<1>1. PICK n \in 0..(PAGE_COUNT - 1) : StopsAt(n)
  BY EmittedIs DEF EmittedOK
<1> QED
  BY <1>1, ReplayIs DEF ReplayOK, StopsAt

(* However an erase is cut short, what a replay still prints is a beginning of what *)
(* it printed before.                                                               *)
LEMMA PagesErased ==
  ASSUME FlashOK, flash' \in [PageNumbers -> PageSet],
         \A i \in PageNumbers : flash'[i] = flash[i] \/ flash'[i] = Erased \/ flash'[i] = Torn
  PROVE  /\ FlashOK' /\ Begins(Replayed, Replayed') /\ Replayed' \in Seq(Text)
         /\ RunFound' => RunFound
         /\ SaysComplete' => SaysComplete /\ Replayed' = Replayed
<1> USE PageCount
<1>1. FlashOK'
  BY DEF FlashOK
<1>2. RunFound' => RunFound
  BY DEF RunFound, Valid, Erased, Torn, Page
<1>3. ASSUME NEW j \in PageNumbers, DataPage(j)' PROVE DataPage(j) /\ flash'[j] = flash[j]
  BY <1>3 DEF DataPage, Valid, Erased, Torn, Page
<1>4. Replayed \in Seq(Text)
  BY ReplayTyped
<1>5. CASE ~RunFound'
  <2>1. Replayed' = <<>> /\ ~SaysComplete'
    BY <1>1, <1>5, NoReplayNext DEF NoReplayOK
  <2>2. Begins(Replayed, Replayed') /\ Replayed' \in Seq(Text)
    BY <2>1, <1>4, EmptySeq DEF Begins
  <2> QED
    BY <2>1, <2>2, <1>1, <1>2
<1>6. CASE RunFound'
  <2>1. PICK n \in 0..(PAGE_COUNT - 1) : StopsAt(n)
    BY EmittedIs DEF EmittedOK
  <2>2. PICK m \in 0..(PAGE_COUNT - 1) : StopsAt(m)'
    BY <1>1, EmittedIsNext DEF EmittedOK
  <2>3. Emitted = 1..n /\ Emitted' = 1..m /\ \A j \in 1..m : DataPage(j)'
    BY <2>1, <2>2, <1>6 DEF StopsAt
  <2>4. \A j \in 1..m : DataPage(j) /\ flash'[j] = flash[j]
    <3>1. 1..m \subseteq PageNumbers
      OBVIOUS
    <3> QED
      BY <3>1, <2>3, <1>3
  <2>5. m <= n
    <3> SUFFICES ASSUME n < m PROVE FALSE
      OBVIOUS
    <3>1. n + 1 \in 1..m /\ n + 1 < PAGE_COUNT
      OBVIOUS
    <3> QED
      BY <3>1, <2>1, <2>4, <1>2, <1>6 DEF StopsAt
  <2>6. Texts(n) \in [1..n -> Seq(Text)] /\ Replayed = FlattenSeq(Texts(n))
    BY <2>3, ReplayIs DEF ReplayOK
  <2>7. Replayed' = FlattenSeq(Texts(m)') /\ Replayed' \in Seq(Text)
    BY <2>3, <1>1, ReplayIsNext DEF ReplayOK
  <2>8. Texts(m)' = [i \in 1..m |-> Texts(n)[i]]
    <3>1. \A i \in 1..m : i \in 1..n /\ flash'[i] = flash[i]
      BY <2>4, <2>5
    <3> QED
      BY <3>1 DEF Texts
  <2>9. Begins(Replayed, Replayed')
    <3>1. m \in 0..n /\ n \in Nat
      BY <2>5
    <3>2. Begins(FlattenSeq(Texts(n)), FlattenSeq([i \in 1..m |-> Texts(n)[i]]))
      BY <3>1, <2>6, FlattenBegins
    <3> QED
      BY <3>2, <2>6, <2>7, <2>8
  <2>10. ASSUME SaysComplete' PROVE SaysComplete /\ Replayed' = Replayed
    <3>1. PICK i \in PageNumbers \ {0} : Valid(i, "END")' /\ Emitted' = 1..(i - 1)
      BY <2>10 DEF SaysComplete
    <3>2. m + 1 = i
      <4>1. m + 1 \in Nat \ {0} /\ i \in Nat \ {0} /\ (m + 1) - 1 = m /\ 1..((m + 1) - 1) = 1..(i - 1)
        BY <3>1, <2>3
      <4> QED
        BY <4>1, SameEnd
    <3>3. Valid(i, "END")
      BY <3>1 DEF Valid, Erased, Torn, Page
    <3>4. ~DataPage(m + 1)
      BY <3>2, <3>3 DEF DataPage, Valid
    <3>5. n = m
      <4> SUFFICES ASSUME m < n PROVE FALSE
        BY <2>5
      <4>1. m + 1 \in 1..n
        OBVIOUS
      <4> QED
        BY <4>1, <3>4, <2>1, <1>2, <1>6 DEF StopsAt
    <3>6. SaysComplete
      BY <3>1, <3>3, <3>5, <2>3, <1>2, <1>6 DEF SaysComplete
    <3>7. Texts(m)' = Texts(n)
      BY <2>8, <3>5 DEF Texts
    <3> QED
      BY <3>6, <3>7, <2>6, <2>7
  <2> QED
    BY <2>7, <2>9, <2>10, <1>1, <1>2
<1> QED
  BY <1>5, <1>6

-----------------------------------------------------------------------------
(* The invariant holds at first                                             *)

LEMMA Sectors ==
  /\ PAGE_COUNT \div SECTOR_PAGES \in Nat \ {0}
  /\ \A i \in PageNumbers : i \div SECTOR_PAGES \in 0..(PAGE_COUNT \div SECTOR_PAGES - 1)
<1> DEFINE n == SECTOR_PAGES
           q == PAGE_COUNT \div n
<1>1. n \in Nat \ {0} /\ PAGE_COUNT \in Nat /\ PAGE_COUNT >= 3 /\ PAGE_COUNT % n = 0
  BY StoreAssumed DEF StoreAssumption
<1>2. ASSUME NEW a \in Nat, NEW b \in Nat, a < b PROVE n * a + n <= n * b
  <2>1. b - a - 1 \in Nat /\ n \in Nat
    BY <1>1, <1>2
  <2>2. n * (b - a - 1) \in Nat
    BY <2>1
  <2>3. n * b = n * a + n + n * (b - a - 1)
    BY <2>1
  <2> QED
    BY <2>1, <2>2, <2>3
<1>3. q \in Nat /\ PAGE_COUNT = n * q
  BY <1>1
<1>4. q # 0
  BY <1>1, <1>3
<1>5. ASSUME NEW i \in PageNumbers PROVE i \div n \in 0..(q - 1)
  <2>1. i \in Nat /\ i < PAGE_COUNT
    BY PageCount
  <2>2. i \div n \in Nat /\ n * (i \div n) <= i /\ n * (i \div n) \in Nat
    BY <1>1, <2>1
  <2>3. ASSUME q <= i \div n PROVE FALSE
    <3>1. n * q <= n * (i \div n)
      <4>1. CASE q = i \div n
        BY <4>1, <1>1, <1>3, <2>2
      <4>2. CASE q < i \div n
        <5>1. n * q + n <= n * (i \div n)
          BY <1>2, <1>3, <2>2, <4>2
        <5> QED
          BY <5>1, <1>1, <1>3, <2>2
      <4> QED
        BY <4>1, <4>2, <2>3, <2>2, <1>3
    <3>2. PAGE_COUNT <= n * (i \div n)
      BY <3>1, <1>3
    <3> QED
      BY <3>2, <2>1, <2>2, <1>1
  <2> QED
    BY <2>2, <2>3, <1>3
<1> QED
  BY <1>3, <1>4, <1>5

\* StoreTypeOK and ReportTypes in parts.
PageTyped(i) ==
  \/ flash[i] \in {Erased, Torn}
  \/ flash[i].magic = "DATA" /\ flash[i].index = i /\ flash[i].data \in Seq(Text) \ {<<>>}
  \/ flash[i].magic \in {"START", "END"} /\ flash[i].index = i /\ flash[i].data = <<>>
Phases == {"boot", "begin", "begin_checkpoint", "running", "checkpoint", "stopping",
           "unrecorded", "finish_checkpoint", "finish", "ended"}
StoreTypesOK ==
  /\ \A i \in PageNumbers : PageTyped(i)
  /\ next \in 0..PAGE_COUNT /\ active \in BOOLEAN
  /\ job \in {"none", "erase", "start", "append", "finish"}
  /\ sector \in 0..(PAGE_COUNT \div SECTOR_PAGES - 1)
  /\ rest \in Seq(Text) /\ (job = "append" => rest # <<>>)
  /\ answer \in {"none", "ok", "failed"}
LEMMA StoreTypes == StoreTypesOK <=> StoreTypeOK
BY Zenon DEF StoreTypesOK, StoreTypeOK, PageTyped
LEMMA StoreTypesNext == StoreTypesOK' <=> StoreTypeOK'
BY StoreTypes, PTL

LEMMA InitHolds == Init => IInv
<1> SUFFICES ASSUME Init PROVE IInv
  OBVIOUS
<1> USE PageCount DEF Init, StoreInit
<1>1. \A i \in PageNumbers : flash[i] = Erased
  OBVIOUS
<1>2. FlashOK
  BY EmptyPages DEF FlashOK
<1>3. ~RunFound
  BY <1>1 DEF RunFound, Valid, Erased, Page
<1>4. Emitted = 1..0 /\ Replayed = <<>> /\ ~SaysComplete
  BY <1>2, <1>3, NoReplay
<1>5. 1 \in 1..RUNS /\ RUNS \in Nat /\ MAX_LINES \in Nat /\ REPORT_CAPACITY \in Nat
  BY ReportAssumed DEF ReportAssumption
<1>6. StoreTypeOK
  <2>1. \A i \in PageNumbers : PageTyped(i)
    BY <1>1 DEF PageTyped
  <2>2. active \in BOOLEAN /\ answer \in {"none", "ok", "failed"}
        /\ job \in {"none", "erase", "start", "append", "finish"}
    OBVIOUS
  <2>3. next \in 0..PAGE_COUNT /\ sector \in 0..(PAGE_COUNT \div SECTOR_PAGES - 1)
    BY Sectors
  <2>4. rest \in Seq(Text) /\ job # "append"
    BY EmptySeq
  <2> QED
    BY <2>1, <2>2, <2>3, <2>4, StoreTypes DEF StoreTypesOK
<1>7. ReportTypes
  <2>1. pending \in Seq(Text) /\ Len(pending) = 0
    BY EmptySeq
  <2>2. reportActive \in BOOLEAN /\ failed \in BOOLEAN /\ closed \in BOOLEAN
    OBVIOUS
  <2>3. run \in 1..RUNS /\ reported \in [1..RUNS -> 0..MAX_LINES]
        /\ snapshotAt \in 0..MAX_LINES /\ savedTo \in 0..snapshotAt
    BY <1>5
  <2>4. phase \in Phases
    BY DEF Phases
  <2> QED
    BY <1>5, <1>6, <2>1, <2>2, <2>3, <2>4 DEF ReportTypes, Phases
<1>8. JobOK /\ PagesOK /\ PhaseOK
  BY DEF JobOK, PagesOK, PhaseOK, Saving, Closing
<1>9. SnapshotOK
  BY <1>4, <1>5 DEF SnapshotOK, Saving
<1>10. StreamOK
  BY <1>5 DEF StreamOK, LinesFrom, Kept
<1>11. JournalOK
  BY <1>4, <1>5 DEF JournalOK, LinesFrom
<1> QED
  BY <1>2, <1>7, <1>8, <1>9, <1>10, <1>11 DEF IInv

-----------------------------------------------------------------------------
(* Lines in order                                                           *)

LEMMA LinesConcat ==
  ASSUME NEW S, NEW s \in Seq(S), NEW t \in Seq(S), NEW r, NEW k \in Nat,
         LinesFrom(s, r, k), LinesFrom(t, r, k + Len(s))
  PROVE  LinesFrom(s \o t, r, k)
<1>1. Len(s) \in Nat /\ Len(t) \in Nat /\ Len(s \o t) = Len(s) + Len(t)
  BY ConcatProperties
<1>2. ASSUME NEW i \in 1..Len(s \o t) PROVE (s \o t)[i] = <<r, k + i>>
  <2>1. CASE i \in 1..Len(s)
    <3>1. (s \o t)[i] = s[i]
      BY <2>1
    <3> QED
      BY <2>1, <3>1 DEF LinesFrom
  <2>2. CASE i \notin 1..Len(s)
    <3>1. i - Len(s) \in 1..Len(t) /\ (k + Len(s)) + (i - Len(s)) = k + i
      BY <1>1, <2>2
    <3>2. (s \o t)[i] = t[i - Len(s)]
      BY <1>1, <2>2
    <3>3. t[i - Len(s)] = <<r, (k + Len(s)) + (i - Len(s))>>
      BY <3>1 DEF LinesFrom
    <3> QED
      BY <3>1, <3>2, <3>3
  <2> QED
    BY <2>1, <2>2
<1> QED
  BY <1>2 DEF LinesFrom

LEMMA LinesSplit ==
  ASSUME NEW S, NEW s \in Seq(S), NEW r, NEW k \in Nat, NEW m \in 0..Len(s), LinesFrom(s, r, k)
  PROVE  /\ SubSeq(s, 1, m) \in Seq(S) /\ Len(SubSeq(s, 1, m)) = m
         /\ LinesFrom(SubSeq(s, 1, m), r, k)
         /\ SubSeq(s, m + 1, Len(s)) \in Seq(S) /\ Len(SubSeq(s, m + 1, Len(s))) = Len(s) - m
         /\ LinesFrom(SubSeq(s, m + 1, Len(s)), r, k + m)
<1>1. Len(s) \in Nat /\ m \in Nat
  OBVIOUS
<1>2. /\ SubSeq(s, 1, m) \in Seq(S) /\ Len(SubSeq(s, 1, m)) = m
      /\ \A i \in 1..m : SubSeq(s, 1, m)[i] = s[i]
  OBVIOUS
<1>3. /\ SubSeq(s, m + 1, Len(s)) \in Seq(S) /\ Len(SubSeq(s, m + 1, Len(s))) = Len(s) - m
      /\ \A i \in 1..(Len(s) - m) : SubSeq(s, m + 1, Len(s))[i] = s[m + i]
  OBVIOUS
<1>4. LinesFrom(SubSeq(s, 1, m), r, k)
  BY <1>1, <1>2 DEF LinesFrom
<1>5. ASSUME NEW i \in 1..(Len(s) - m) PROVE SubSeq(s, m + 1, Len(s))[i] = <<r, (k + m) + i>>
  <2>1. m + i \in 1..Len(s) /\ k + (m + i) = (k + m) + i
    BY <1>1
  <2>2. s[m + i] = <<r, k + (m + i)>>
    BY <2>1 DEF LinesFrom
  <2> QED
    BY <2>1, <2>2, <1>3
<1>6. LinesFrom(SubSeq(s, m + 1, Len(s)), r, k + m)
  BY <1>3, <1>5 DEF LinesFrom
<1> QED
  BY <1>2, <1>3, <1>4, <1>6

LEMMA LinesBegin ==
  ASSUME NEW S, NEW s \in Seq(S), NEW t \in Seq(S), NEW r, Begins(t, s), LinesFrom(t, r, 0)
  PROVE  LinesFrom(s, r, 0)
<1>1. \A i \in 1..Len(s) : i \in 1..Len(t) /\ s[i] = t[i]
  BY DEF Begins
<1> QED
  BY <1>1 DEF LinesFrom

LEMMA LinesAppend ==
  ASSUME NEW S, NEW s \in Seq(S), NEW r, NEW k \in Nat, NEW line \in S, LinesFrom(s, r, k),
         line = <<r, k + Len(s) + 1>>
  PROVE  /\ Append(s, line) \in Seq(S) /\ Len(Append(s, line)) = Len(s) + 1
         /\ LinesFrom(Append(s, line), r, k)
<1>1. Append(s, line) \in Seq(S) /\ Len(Append(s, line)) = Len(s) + 1 /\ Len(s) \in Nat
  OBVIOUS
<1>2. ASSUME NEW i \in 1..(Len(s) + 1) PROVE Append(s, line)[i] = <<r, k + i>>
  <2>1. CASE i = Len(s) + 1
    <3>1. Append(s, line)[i] = line /\ k + i = k + Len(s) + 1
      BY <2>1, <1>1
    <3> QED
      BY <3>1
  <2>2. CASE i # Len(s) + 1
    <3>1. i \in 1..Len(s)
      BY <2>2, <1>1
    <3>2. Append(s, line)[i] = s[i]
      BY <3>1
    <3> QED
      BY <3>1, <3>2 DEF LinesFrom
  <2> QED
    BY <2>1, <2>2
<1> QED
  BY <1>1, <1>2 DEF LinesFrom

-----------------------------------------------------------------------------
(* Steps in RAM                                                             *)

LEMMA RunsAssumed ==
  /\ RUNS \in Nat \ {0} /\ MAX_LINES \in Nat /\ REPORT_CAPACITY \in Nat \ {0}
  /\ Text = (1..RUNS) \X (1..MAX_LINES)
BY ReportAssumed DEF ReportAssumption

LEMMA Counts ==
  ASSUME IInv
  PROVE  /\ Replayed \in Seq(Text) /\ Len(Replayed) \in Nat /\ Kept \in Nat
         /\ rest \in Seq(Text) /\ Len(rest) \in Nat
         /\ pending \in Seq(Text) /\ Len(pending) \in Nat
         /\ run \in 1..RUNS /\ reported \in [1..RUNS -> 0..MAX_LINES] /\ reported[run] \in 0..MAX_LINES
<1>1. Replayed \in Seq(Text)
  BY ReplayTyped DEF IInv
<1>2. rest \in Seq(Text) /\ pending \in Seq(Text)
  BY DEF IInv, ReportTypes, StoreTypeOK
<1>3. run \in 1..RUNS /\ reported \in [1..RUNS -> 0..MAX_LINES]
  BY DEF IInv, ReportTypes
<1>4. Len(Replayed) \in Nat /\ Len(rest) \in Nat /\ Len(pending) \in Nat /\ reported[run] \in 0..MAX_LINES
  BY <1>1, <1>2, <1>3
<1>5. Kept \in Nat
  BY <1>4 DEF Kept
<1> QED
  BY <1>1, <1>2, <1>3, <1>4, <1>5

(* What holds of the journal while a step leaves it alone. *)
LEMMA StoreStays ==
  ASSUME IInv, UNCHANGED <<flash, next, active>>
  PROVE  /\ FlashOK' /\ PagesOK' /\ Replayed' = Replayed /\ Kept' = Kept
         /\ (SaysComplete' <=> SaysComplete) /\ \A i \in PageNumbers : PageTyped(i)'
<1>1. /\ Replayed' = Replayed /\ Emitted' = Emitted
      /\ (RunFound' <=> RunFound) /\ (SaysComplete' <=> SaysComplete) /\ (FlashOK' <=> FlashOK)
  BY SameReplay
<1>2. Kept' = Kept
  BY <1>1 DEF Kept
<1>3. FlashOK' /\ PagesOK'
  BY <1>1 DEF IInv, PagesOK
<1>4. \A i \in PageNumbers : PageTyped(i)
  BY StoreTypes DEF IInv, ReportTypes, StoreTypesOK
<1>5. \A i \in PageNumbers : PageTyped(i)'
  BY <1>4 DEF PageTyped
<1> QED
  BY <1>1, <1>2, <1>3, <1>5

LEMMA StoreTypesStay ==
  ASSUME IInv, UNCHANGED <<flash, storeVars>>
  PROVE  StoreTypeOK'
BY DEF IInv, ReportTypes, StoreTypeOK, storeVars

LEMMA ReportFormat ==
  ASSUME IInv, NEW oversized \in BOOLEAN, report_format(oversized)
  PROVE  IInv'
<1> USE DEF storeVars
<1>1. /\ ~closed /\ reported[run] < MAX_LINES
      /\ reported' = [reported EXCEPT ![run] = @ + 1]
      /\ UNCHANGED <<flash, storeVars, reportActive, closed, phase, run, snapshotAt, savedTo>>
  BY DEF report_format
<1>2. \/ failed' = TRUE /\ pending' = pending
      \/ failed' = failed /\ failed /\ pending' = pending
      \/ /\ failed' = failed /\ ~failed /\ pending' = Append(pending, <<run, reported'[run]>>)
         /\ Len(pending) + 1 <= REPORT_CAPACITY
  <2>1. CASE oversized \/ Len(pending) + 1 > REPORT_CAPACITY
    BY <2>1 DEF report_format
  <2>2. CASE ~(oversized \/ Len(pending) + 1 > REPORT_CAPACITY)
    <3>1. Len(pending) + 1 <= REPORT_CAPACITY
      BY <2>2, Counts, RunsAssumed
    <3> QED
      BY <2>2, <3>1 DEF report_format
  <2> QED
    BY <2>1, <2>2
<1>3. /\ FlashOK' /\ PagesOK' /\ Replayed' = Replayed /\ Kept' = Kept
      /\ (SaysComplete' <=> SaysComplete)
  BY <1>1, StoreStays
<1>4. reported' \in [1..RUNS -> 0..MAX_LINES] /\ reported'[run] = reported[run] + 1
      /\ reported'[run] \in 1..MAX_LINES
      /\ \A r \in 1..RUNS : r # run => reported'[r] = reported[r]
  BY <1>1, Counts, RunsAssumed
<1>5. <<run, reported'[run]>> \in Text
  BY <1>4, Counts, RunsAssumed
<1>6. pending' \in Seq(Text) /\ Len(pending') <= REPORT_CAPACITY
  <2>1. pending \in Seq(Text) /\ Len(pending) <= REPORT_CAPACITY
    BY DEF IInv, ReportTypes
  <2>2. ASSUME NEW line \in Text
        PROVE  Append(pending, line) \in Seq(Text) /\ Len(Append(pending, line)) = Len(pending) + 1
    BY <2>1, AppendProperties
  <2>3. CASE pending' = pending
    BY <2>1, <2>3
  <2>4. CASE pending' # pending
    <3>1. pending' = Append(pending, <<run, reported'[run]>>) /\ Len(pending) + 1 <= REPORT_CAPACITY
      BY <1>2, <2>4
    <3> QED
      BY <3>1, <2>2, <1>5
  <2> QED
    BY <2>3, <2>4
<1>7. ReportTypes'
  <2>1. StoreTypeOK'
    BY <1>1, StoreTypesStay
  <2>2. failed' \in BOOLEAN
    BY <1>2 DEF IInv, ReportTypes
  <2>3. /\ reportActive' \in BOOLEAN /\ closed' \in BOOLEAN /\ phase' \in Phases
        /\ run' \in 1..RUNS /\ snapshotAt' \in 0..MAX_LINES /\ savedTo' \in 0..snapshotAt'
    BY <1>1 DEF IInv, ReportTypes, Phases
  <2> QED
    BY <1>4, <1>6, <2>1, <2>2, <2>3 DEF ReportTypes, Phases
<1>8. JobOK'
  BY <1>1 DEF IInv, JobOK
<1>9. StreamOK'
  <2> SUFFICES ASSUME Recording
               PROVE  /\ LinesFrom(rest, run, Kept) /\ LinesFrom(pending', run, Kept + Len(rest))
                      /\ ~failed' => Kept + Len(rest) + Len(pending') = reported'[run]
    BY <1>1, <1>3 DEF StreamOK, Recording
  <2>1. /\ LinesFrom(rest, run, Kept) /\ LinesFrom(pending, run, Kept + Len(rest))
        /\ ~failed => Kept + Len(rest) + Len(pending) = reported[run]
    BY DEF IInv, StreamOK
  <2>2. CASE failed' /\ pending' = pending
    BY <2>1, <2>2
  <2>3. CASE failed' = failed /\ ~failed /\ pending' = Append(pending, <<run, reported'[run]>>)
    <3>1. reported'[run] = (Kept + Len(rest)) + Len(pending) + 1 /\ Kept + Len(rest) \in Nat
      BY <1>4, <2>1, <2>3, Counts
    <3>2. Len(pending') = Len(pending) + 1 /\ LinesFrom(pending', run, Kept + Len(rest))
      <4>1. <<run, reported'[run]>> = <<run, (Kept + Len(rest)) + Len(pending) + 1>>
        BY <3>1
      <4> QED
        BY <4>1, <3>1, <1>5, <2>1, <2>3, Counts, LinesAppend
    <3> QED
      BY <2>1, <3>1, <3>2, Counts
  <2> QED
    BY <1>2, <2>2, <2>3
<1>10. JournalOK'
  <2>1. /\ active => LinesFrom(Replayed, run, 0)
        /\ \E r \in 1..RUNS : LinesFrom(Replayed, r, 0)
    BY DEF IInv, JournalOK
  <2>2. ASSUME SaysComplete
        PROVE  \E r \in 1..run :
                 Len(Replayed) = reported'[r] /\ LinesFrom(Replayed, r, 0) /\ (r = run => closed)
    <3>1. PICK r \in 1..run :
                 Len(Replayed) = reported[r] /\ LinesFrom(Replayed, r, 0) /\ (r = run => closed)
      BY <2>2 DEF IInv, JournalOK
    <3>2. r # run /\ r \in 1..RUNS
      <4>1. run \in 1..RUNS /\ RUNS \in Nat
        BY Counts, RunsAssumed
      <4>2. r # run
        BY <3>1, <1>1
      <4> QED
        BY <4>1, <4>2
    <3> QED
      BY <3>1, <3>2, <1>4
  <2> QED
    BY <1>1, <1>3, <2>1, <2>2 DEF JournalOK
<1>11. PhaseOK'
  <2>1. failed => failed'
    BY <1>2
  <2> QED
    BY <1>1, <1>3, <2>1 DEF IInv, PhaseOK
<1>12. SnapshotOK'
  <2>1. failed => failed'
    BY <1>2
  <2>2. job # "finish"
    BY <1>1 DEF IInv, SnapshotOK
  <2>3. snapshotAt <= reported'[run]
    BY <1>4, Counts DEF IInv, SnapshotOK, ReportTypes
  <2>4. \A r \in 1..RUNS : r > run => reported'[r] = 0
    BY <1>4, Counts DEF IInv, SnapshotOK
  <2> QED
    BY <1>1, <1>3, <2>1, <2>2, <2>3, <2>4 DEF IInv, SnapshotOK
<1> QED
  BY <1>3, <1>7, <1>8, <1>9, <1>10, <1>11, <1>12 DEF IInv

(* report_checkpoint hands the buffer over: what was pending is the rest to write. *)
LEMMA CheckpointBegins ==
  ASSUME IInv, BeginCheckpoint, job = "none", phase \in {"begin", "running", "stopping"},
         phase' \in Saving, (phase' = "begin_checkpoint") => (phase = "begin"),
         reportActive' \in BOOLEAN, failed' \in BOOLEAN, closed' \in BOOLEAN,
         (~failed') => (active /\ reportActive'), failed => failed',
         closed' <=> (phase' \in Closing),
         UNCHANGED <<run, reported, savedTo>>
  PROVE  IInv'
<1>1. UNCHANGED <<flash, next, active, sector>>
  BY DEF BeginCheckpoint, report_store_append
<1>2. /\ FlashOK' /\ PagesOK' /\ Replayed' = Replayed /\ Kept' = Kept
      /\ (SaysComplete' <=> SaysComplete) /\ \A i \in PageNumbers : PageTyped(i)'
  BY <1>1, StoreStays
<1>3. rest = <<>> /\ snapshotAt' = reported[run] /\ ~closed
  BY DEF IInv, JobOK, PhaseOK, BeginCheckpoint, Closing
<1>4. \/ /\ reportActive' /\ pending # <<>> /\ active
         /\ job' = "append" /\ rest' = pending /\ answer' = "none" /\ pending' = <<>>
      \/ /\ reportActive' /\ ~active /\ failed'
         /\ job' = "none" /\ rest' = <<>> /\ answer' = "failed" /\ pending' = <<>>
      \/ /\ reportActive' /\ pending = <<>>
         /\ job' = "none" /\ rest' = <<>> /\ answer' = "ok" /\ pending' = <<>>
      \/ /\ ~reportActive' /\ failed'
         /\ job' = "none" /\ rest' = <<>> /\ answer' = "ok" /\ pending' = pending
  BY <1>3 DEF BeginCheckpoint, report_store_append
<1>5. active' = active /\ (active \/ ~active) /\ active \in BOOLEAN
  BY <1>1 DEF IInv, ReportTypes, StoreTypeOK
<1>6. StoreTypeOK'
  <2>1. rest' \in Seq(Text) /\ (job' = "append" => rest' # <<>>)
    BY <1>4, Counts, EmptySeq
  <2>2. job' \in {"none", "erase", "start", "append", "finish"} /\ answer' \in {"none", "ok", "failed"}
    BY <1>4
  <2>3. next' \in 0..PAGE_COUNT /\ active' \in BOOLEAN
        /\ sector' \in 0..(PAGE_COUNT \div SECTOR_PAGES - 1)
    BY <1>1 DEF IInv, ReportTypes, StoreTypeOK
  <2> QED
    BY <1>2, <2>1, <2>2, <2>3, StoreTypesNext DEF StoreTypesOK
<1>7. ReportTypes'
  <2>1. pending' \in Seq(Text) /\ Len(pending') <= REPORT_CAPACITY
    <3>1. pending \in Seq(Text) /\ Len(pending) <= REPORT_CAPACITY
      BY DEF IInv, ReportTypes
    <3>2. <<>> \in Seq(Text) /\ Len(<<>>) = 0
      BY EmptySeq
    <3>3. 0 <= REPORT_CAPACITY
      BY RunsAssumed
    <3>4. pending' = pending \/ pending' = <<>>
      BY <1>4
    <3>5. CASE pending' = pending
      BY <3>1, <3>5
    <3>6. CASE pending' = <<>>
      BY ONLY <3>2, <3>3, <3>6
    <3> QED
      BY <3>4, <3>5, <3>6
  <2>2. run' \in 1..RUNS /\ reported' \in [1..RUNS -> 0..MAX_LINES]
    BY Counts
  <2>3. snapshotAt' \in 0..MAX_LINES /\ savedTo' \in 0..snapshotAt'
    <3>1. snapshotAt <= reported[run] /\ savedTo \in 0..snapshotAt /\ snapshotAt \in 0..MAX_LINES
      BY DEF IInv, SnapshotOK, ReportTypes
    <3>2. reported[run] \in 0..MAX_LINES /\ MAX_LINES \in Nat
      BY Counts, RunsAssumed
    <3> QED
      BY <1>3, <3>1, <3>2
  <2>4. phase' \in Phases
    BY DEF Saving, Phases
  <2> QED
    BY <1>6, <2>1, <2>2, <2>3, <2>4 DEF ReportTypes, Phases
<1>8. JobOK'
  BY <1>4, <1>5 DEF JobOK
<1>9. StreamOK'
  <2> SUFFICES ASSUME active
               PROVE  /\ LinesFrom(rest', run, Kept) /\ LinesFrom(pending', run, Kept + Len(rest'))
                      /\ ~failed' => Kept + Len(rest') + Len(pending') = reported[run]
    BY <1>2, <1>5 DEF StreamOK, Recording, Saving
  <2>1. /\ LinesFrom(pending, run, Kept + Len(rest))
        /\ ~failed => Kept + Len(rest) + Len(pending) = reported[run]
    BY DEF IInv, StreamOK, Recording
  <2>2. Len(rest) = 0 /\ Kept + Len(rest) = Kept /\ Len(pending) \in Nat /\ Kept \in Nat
        /\ Len(<<>>) = 0 /\ Kept + 0 = Kept
    BY <1>3, Counts
  <2>3. LinesFrom(pending, run, Kept) /\ (~failed' => Kept + Len(pending) = reported[run])
    BY <2>1, <2>2
  <2>4. \A k : LinesFrom(<<>>, run, k)
    BY DEF LinesFrom
  <2>5. CASE rest' = pending /\ pending' = <<>>
    BY <2>2, <2>3, <2>4, <2>5
  <2>6. CASE rest' = <<>> /\ pending' = pending
    BY <2>2, <2>3, <2>4, <2>6
  <2> QED
    BY <1>4, <2>5, <2>6
<1>10. JournalOK'
  <2>1. /\ active => LinesFrom(Replayed, run, 0)
        /\ \E r \in 1..RUNS : LinesFrom(Replayed, r, 0)
        /\ SaysComplete => \E r \in 1..run :
             Len(Replayed) = reported[r] /\ LinesFrom(Replayed, r, 0) /\ (r = run => closed)
    BY DEF IInv, JournalOK
  <2> QED
    BY <1>2, <1>3, <1>5, <2>1 DEF JournalOK
<1>11. PhaseOK'
  BY DEF PhaseOK, Saving
<1>12. SnapshotOK'
  <2>1. snapshotAt' <= reported'[run']
    BY <1>3, Counts
  <2>2. \A r \in 1..RUNS : r > run' => reported'[r] = 0
    BY DEF IInv, SnapshotOK
  <2>3. reportActive' => pending' = <<>>
    BY <1>4
  <2>4. savedTo' <= Len(Replayed') /\ (phase' = "begin_checkpoint" => savedTo' = 0)
    BY <1>2 DEF IInv, SnapshotOK
  <2>5. ASSUME ~failed', answer' # "failed" PROVE active' /\ Len(Replayed') + Len(rest') = snapshotAt'
    <3>1. active /\ reportActive' /\ ~failed /\ Kept = Len(Replayed)
      BY <2>5 DEF Kept
    <3>2. Len(Replayed) + Len(rest) + Len(pending) = reported[run]
      BY <3>1 DEF IInv, StreamOK, Recording
    <3>3. Len(rest) = 0 /\ Len(pending) \in Nat /\ Len(Replayed) \in Nat
      BY <1>3, Counts
    <3>4. rest' = pending
      BY <1>4, <3>1, <2>5
    <3> QED
      BY <1>2, <1>3, <1>5, <3>1, <3>2, <3>3, <3>4
  <2>6. job' # "finish"
    BY <1>4
  <2> QED
    BY <1>3, <2>1, <2>2, <2>3, <2>4, <2>5, <2>6 DEF SnapshotOK, Saving
<1> QED
  BY <1>2, <1>7, <1>8, <1>9, <1>10, <1>11, <1>12 DEF IInv

LEMMA ReportBegins ==
  ASSUME IInv, report_begin
  PROVE  IInv'
<1>1. /\ phase = "boot" /\ phase' = "begin" /\ ~active /\ job = "none" /\ rest = <<>>
      /\ active' = FALSE /\ next' = 0 /\ job' = "erase" /\ sector' = 0 /\ answer' = "none"
      /\ UNCHANGED <<flash, rest, pending, reportActive, failed, closed, run, reported,
                     snapshotAt, savedTo>>
  BY DEF report_begin, report_store_begin, reportVars, ghostVars, IInv, PhaseOK, JobOK
<1>2. /\ Replayed' = Replayed
      /\ (SaysComplete' <=> SaysComplete) /\ (FlashOK' <=> FlashOK)
  BY <1>1, SameReplay
<1>3. Kept' = Kept /\ Kept = 0
  BY <1>1 DEF Kept
<1>4. StoreTypeOK'
  <2>1. \A i \in PageNumbers : PageTyped(i)
    BY StoreTypes DEF IInv, ReportTypes, StoreTypesOK
  <2>2. \A i \in PageNumbers : PageTyped(i)'
    BY <1>1, <2>1 DEF PageTyped
  <2>3. next' \in 0..PAGE_COUNT /\ sector' \in 0..(PAGE_COUNT \div SECTOR_PAGES - 1)
    BY <1>1, PageCount, Sectors
  <2>4. active' \in BOOLEAN /\ job' \in {"none", "erase", "start", "append", "finish"}
        /\ answer' \in {"none", "ok", "failed"}
    BY <1>1
  <2>5. rest' \in Seq(Text) /\ job' # "append"
    BY <1>1, Counts
  <2> QED
    BY <2>2, <2>3, <2>4, <2>5, StoreTypesNext DEF StoreTypesOK
<1>5. ReportTypes'
  BY <1>1, <1>4 DEF IInv, ReportTypes
<1>6. JobOK'
  <2>1. \A i \in PageNumbers : ~(i \div SECTOR_PAGES < 0)
    BY Sectors
  <2> QED
    BY <1>1, <2>1 DEF JobOK
<1>7. PagesOK' /\ PhaseOK'
  BY <1>1 DEF IInv, PagesOK, PhaseOK, Saving, Closing
<1>8. StreamOK'
  BY <1>1, <1>3 DEF IInv, StreamOK, Recording
<1>9. JournalOK'
  BY <1>1, <1>2 DEF IInv, JournalOK
<1>10. SnapshotOK'
  BY <1>1, <1>2 DEF IInv, SnapshotOK, Saving
<1> QED
  BY <1>2, <1>5, <1>6, <1>7, <1>8, <1>9, <1>10 DEF IInv

LEMMA ReportBegunKeeps ==
  ASSUME IInv, ReportBegun
  PROVE  IInv'
<1>1. /\ phase = "begin" /\ job = "none" /\ answer # "none" /\ phase' = "begin_checkpoint"
      /\ reportActive' = (answer = "ok") /\ failed' = (failed \/ answer = "failed")
      /\ BeginCheckpoint /\ UNCHANGED <<closed, run, reported, savedTo>>
  BY DEF ReportBegun, Answered
<1>2. reportActive' \in BOOLEAN /\ failed' \in BOOLEAN /\ closed' \in BOOLEAN /\ (failed => failed')
  BY <1>1 DEF IInv, ReportTypes
<1>3. ~failed' => active /\ reportActive'
  BY <1>1 DEF IInv, ReportTypes, StoreTypeOK, PhaseOK
<1>4. (closed' <=> phase' \in Closing) /\ phase' \in Saving
  BY <1>1 DEF IInv, PhaseOK, Closing, Saving
<1> QED
  BY <1>1, <1>2, <1>3, <1>4, CheckpointBegins

LEMMA SavesKeep ==
  ASSUME IInv, report_checkpoint \/ report_finish
  PROVE  IInv'
<1>1. /\ phase \in {"running", "stopping"} /\ BeginCheckpoint /\ phase' # "begin_checkpoint"
      /\ phase' \in Saving /\ (closed' <=> phase' \in Closing) /\ closed' \in BOOLEAN
      /\ UNCHANGED <<reportActive, failed, run, reported, savedTo>>
  <2>1. closed <=> phase \in Closing
    BY DEF IInv, PhaseOK
  <2>2. CASE report_checkpoint
    <3>1. phase = "running" /\ phase' = "checkpoint" /\ BeginCheckpoint
          /\ UNCHANGED <<reportActive, failed, closed, run, reported, savedTo>>
      BY <2>2 DEF report_checkpoint
    <3>2. ~(phase \in Closing) /\ ~(phase' \in Closing) /\ phase' \in Saving
      BY <3>1 DEF Closing, Saving
    <3>3. ~closed /\ closed' \in BOOLEAN
      BY <2>1, <3>1, <3>2 DEF IInv, ReportTypes
    <3> QED
      BY <3>1, <3>2, <3>3
  <2>3. CASE report_finish
    <3>1. phase \in {"running", "stopping"} /\ phase' = "finish_checkpoint" /\ closed' = TRUE
          /\ BeginCheckpoint /\ UNCHANGED <<reportActive, failed, run, reported, savedTo>>
      BY <2>3 DEF report_finish
    <3>2. phase' \in Closing /\ phase' \in Saving
      BY <3>1 DEF Closing, Saving
    <3> QED
      BY <3>1, <3>2
  <2> QED
    BY <2>2, <2>3
<1>2. reportActive' \in BOOLEAN /\ failed' \in BOOLEAN /\ (failed => failed')
  BY <1>1 DEF IInv, ReportTypes
<1>3. ~failed' => active /\ reportActive'
  BY <1>1 DEF IInv, PhaseOK
<1>4. job = "none"
  BY <1>1 DEF IInv, JobOK, Saving, ReportTypes, StoreTypeOK
<1> QED
  BY <1>1, <1>2, <1>3, <1>4, CheckpointBegins

(* A step of main() that leaves the journal's state alone. *)
LEMMA ChecksReturn ==
  ASSUME IInv, CheckpointReturns
  PROVE  IInv'
<1>1. /\ phase \in {"begin_checkpoint", "checkpoint"} /\ job = "none" /\ answer # "none"
      /\ failed' = (failed \/ answer = "failed")
      /\ savedTo' = IF failed' THEN savedTo ELSE snapshotAt
      /\ phase' = IF ~failed' THEN "running"
                  ELSE IF phase = "begin_checkpoint" THEN "unrecorded" ELSE "stopping"
      /\ UNCHANGED <<flash, next, active, job, sector, rest, answer, pending, reportActive, closed,
                     run, reported, snapshotAt>>
  BY DEF CheckpointReturns, CheckpointFailed, Answered, storeVars
<1>2. /\ FlashOK' /\ PagesOK' /\ Replayed' = Replayed /\ Kept' = Kept
      /\ (SaysComplete' <=> SaysComplete)
  BY <1>1, StoreStays
<1>3. failed' \in BOOLEAN /\ (failed => failed') /\ (~failed' => ~failed /\ answer # "failed")
  BY <1>1 DEF IInv, ReportTypes
<1>4. ~failed' => active /\ reportActive /\ Len(Replayed) + Len(rest) = snapshotAt
  BY <1>1, <1>3 DEF IInv, SnapshotOK, PhaseOK, Saving
<1>5. rest = <<>> /\ Len(rest) = 0 /\ Len(Replayed) \in Nat
  BY <1>1, Counts DEF IInv, JobOK
<1>6. ReportTypes'
  <2>1. StoreTypeOK'
    BY <1>1, StoreTypesStay DEF storeVars
  <2>2. savedTo' \in 0..snapshotAt'
    BY <1>1 DEF IInv, ReportTypes
  <2>3. phase' \in Phases
    BY <1>1 DEF Phases
  <2> QED
    BY <1>1, <1>3, <2>1, <2>2, <2>3 DEF IInv, ReportTypes, Phases
<1>7. JobOK'
  BY <1>1 DEF IInv, JobOK
<1>8. StreamOK'
  BY <1>1, <1>2, <1>3 DEF IInv, StreamOK, Recording
<1>9. JournalOK'
  BY <1>1, <1>2 DEF IInv, JournalOK
<1>10. PhaseOK'
  BY <1>1, <1>3, <1>4 DEF IInv, PhaseOK, Saving, Closing
<1>11. SnapshotOK'
  <2>1. ~closed
    BY <1>1 DEF IInv, PhaseOK, Closing
  <2>2. savedTo' <= Len(Replayed')
    BY <1>1, <1>2, <1>4, <1>5 DEF IInv, SnapshotOK
  <2> QED
    BY <1>1, <2>1, <2>2 DEF IInv, SnapshotOK, Saving
<1> QED
  BY <1>2, <1>6, <1>7, <1>8, <1>9, <1>10, <1>11 DEF IInv

LEMMA FinishKeeps ==
  ASSUME IInv, FinishCheckpointed
  PROVE  IInv'
<1>1. /\ phase = "finish_checkpoint" /\ job = "none" /\ answer # "none"
      /\ failed' = (failed \/ answer = "failed")
      /\ UNCHANGED <<flash, next, active, sector, rest, pending, closed, run, reported, snapshotAt,
                     savedTo>>
  BY DEF FinishCheckpointed, CheckpointFailed, Answered, storeVars, report_store_finish, ghostVars
<1>2. /\ FlashOK' /\ PagesOK' /\ Replayed' = Replayed /\ Kept' = Kept
      /\ (SaysComplete' <=> SaysComplete) /\ \A i \in PageNumbers : PageTyped(i)'
  BY <1>1, StoreStays
<1>3. failed' \in BOOLEAN /\ (failed => failed') /\ (~failed' => ~failed /\ answer # "failed")
  BY <1>1 DEF IInv, ReportTypes
<1>4. closed /\ snapshotAt = reported[run]
  BY <1>1 DEF IInv, PhaseOK, SnapshotOK, Closing
<1>5. ~failed' => active /\ reportActive /\ Len(Replayed) + Len(rest) = snapshotAt
  BY <1>1, <1>3 DEF IInv, SnapshotOK, PhaseOK, Saving
<1>6. rest = <<>> /\ Len(rest) = 0 /\ Len(Replayed) \in Nat
  BY <1>1, Counts DEF IInv, JobOK
<1>7. \/ /\ failed' /\ phase' = "ended" /\ reportActive' = FALSE /\ UNCHANGED <<job, answer>>
      \/ /\ ~failed' /\ phase' = "finish" /\ reportActive' = reportActive
         /\ job' = "finish" /\ answer' = "none"
  BY <1>5 DEF FinishCheckpointed, report_store_finish, storeVars
<1>8. ReportTypes'
  <2>1. job' \in {"none", "erase", "start", "append", "finish"} /\ answer' \in {"none", "ok", "failed"}
        /\ job' # "append"
    BY <1>1, <1>7 DEF IInv, ReportTypes, StoreTypeOK
  <2>2. next' \in 0..PAGE_COUNT /\ active' \in BOOLEAN /\ rest' \in Seq(Text)
        /\ sector' \in 0..(PAGE_COUNT \div SECTOR_PAGES - 1)
    BY <1>1 DEF IInv, ReportTypes, StoreTypeOK
  <2>3. StoreTypeOK'
    BY <1>2, <2>1, <2>2, StoreTypesNext DEF StoreTypesOK
  <2>4. phase' \in Phases /\ reportActive' \in BOOLEAN
    BY <1>7 DEF Phases, IInv, ReportTypes
  <2> QED
    BY <1>1, <1>3, <2>3, <2>4 DEF IInv, ReportTypes, Phases
<1>9. JobOK'
  BY <1>1, <1>5, <1>6, <1>7 DEF JobOK
<1>10. StreamOK'
  BY <1>1, <1>2, <1>3, <1>7 DEF IInv, StreamOK, Recording
<1>11. JournalOK'
  BY <1>1, <1>2 DEF IInv, JournalOK
<1>12. PhaseOK'
  BY <1>1, <1>4, <1>5, <1>7 DEF PhaseOK, Saving, Closing
<1>13. SnapshotOK'
  <2>1. job' = "finish" => Len(Replayed') = reported'[run'] /\ closed'
    BY <1>1, <1>2, <1>4, <1>5, <1>6, <1>7
  <2> QED
    BY <1>1, <1>2, <1>4, <1>7, <2>1 DEF IInv, SnapshotOK, Saving
<1> QED
  BY <1>2, <1>8, <1>9, <1>10, <1>11, <1>12, <1>13 DEF IInv

LEMMA FinishedKeeps ==
  ASSUME IInv, Finished
  PROVE  IInv'
<1>1. /\ phase = "finish" /\ job = "none" /\ phase' = "ended" /\ reportActive' = FALSE
      /\ failed' = (failed \/ answer = "failed")
      /\ UNCHANGED <<flash, next, active, job, sector, rest, answer, pending, closed, run, reported,
                     snapshotAt, savedTo>>
  BY DEF Finished, Answered, storeVars, ghostVars
<1>2. /\ FlashOK' /\ PagesOK' /\ Replayed' = Replayed /\ Kept' = Kept
      /\ (SaysComplete' <=> SaysComplete)
  BY <1>1, StoreStays
<1>3. failed' \in BOOLEAN /\ (failed => failed')
  BY <1>1 DEF IInv, ReportTypes
<1>4. ReportTypes'
  <2>1. StoreTypeOK'
    BY <1>1, StoreTypesStay DEF storeVars
  <2>2. reportActive' \in BOOLEAN
    BY <1>1
  <2> QED
    BY <1>1, <1>3, <2>1, <2>2 DEF IInv, ReportTypes
<1>5. JobOK' /\ PhaseOK'
  BY <1>1 DEF IInv, JobOK, PhaseOK, Saving, Closing
<1>6. StreamOK'
  BY <1>1, <1>2, <1>3 DEF IInv, StreamOK, Recording
<1>7. JournalOK' /\ SnapshotOK'
  BY <1>1, <1>2 DEF IInv, JournalOK, SnapshotOK, Saving
<1> QED
  BY <1>2, <1>4, <1>5, <1>6, <1>7 DEF IInv

-----------------------------------------------------------------------------
(* Steps on the flash                                                       *)

LEMMA ShrunkKeeps ==
  ASSUME IInv, Begins(Replayed, Replayed'), Replayed' \in Seq(Text),
         SaysComplete' => SaysComplete /\ Replayed' = Replayed,
         ~active', reported' = reported, (run' = run /\ closed' = closed) \/ run' = run + 1
  PROVE  JournalOK'
<1>1. Replayed \in Seq(Text) /\ run \in 1..RUNS /\ RUNS \in Nat
  BY Counts, RunsAssumed
<1>2. PICK r \in 1..RUNS : LinesFrom(Replayed, r, 0)
  BY DEF IInv, JournalOK
<1>3. LinesFrom(Replayed', r, 0)
  BY <1>1, <1>2, LinesBegin
<1>4. ASSUME SaysComplete'
      PROVE  \E o \in 1..run' :
               Len(Replayed') = reported'[o] /\ LinesFrom(Replayed', o, 0) /\ (o = run' => closed')
  <2>1. PICK o \in 1..run : Len(Replayed) = reported[o] /\ LinesFrom(Replayed, o, 0) /\ (o = run => closed)
    BY <1>4 DEF IInv, JournalOK
  <2>2. o \in 1..run' /\ (o = run' => run' = run)
    BY <1>1
  <2> QED
    BY <1>4, <2>1, <2>2
<1> QED
  BY <1>3, <1>4 DEF JournalOK

Frame == UNCHANGED <<pending, reportActive, failed, closed, phase, run, reported, snapshotAt, savedTo>>

(* The report's own variables have their types whatever the store does. *)
LEMMA TypesKept ==
  ASSUME IInv, Frame, StoreTypesOK'
  PROVE  ReportTypes'
BY StoreTypesNext DEF Frame, IInv, ReportTypes

LEMMA PagesTyped ==
  ASSUME IInv
  PROVE  \A i \in PageNumbers : PageTyped(i)
BY StoreTypes DEF IInv, ReportTypes, StoreTypesOK

LEMMA EraseKeeps ==
  ASSUME IInv, EraseSector, Frame
  PROVE  IInv'
<1>1. /\ job = "erase" /\ phase = "begin" /\ ~active /\ next = 0 /\ answer = "none" /\ rest = <<>>
      /\ UNCHANGED <<next, active, rest>> /\ flash' \in {flash, ErasedSector}
  BY DEF EraseSector, IInv, JobOK
<1>2. \/ /\ flash' = ErasedSector /\ job' = "start" /\ LastSector /\ sector' = sector /\ answer' = "none"
      \/ /\ flash' = ErasedSector /\ job' = "erase" /\ ~LastSector /\ sector' = sector + 1
         /\ answer' = "none"
      \/ job' = "none" /\ answer' = "failed" /\ sector' = sector
  BY <1>1 DEF EraseSector
<1>3. \A i \in PageNumbers : flash'[i] = flash[i] \/ flash'[i] = Erased
  BY <1>1 DEF ErasedSector
<1>4. flash' \in [PageNumbers -> PageSet]
  <2>1. flash \in [PageNumbers -> PageSet]
    BY DEF IInv, FlashOK
  <2>2. ErasedSector \in [PageNumbers -> PageSet]
    BY <2>1, EmptyPages DEF ErasedSector
  <2> QED
    BY <1>1, <2>1, <2>2
<1>5. /\ FlashOK' /\ Begins(Replayed, Replayed') /\ Replayed' \in Seq(Text)
      /\ SaysComplete' => SaysComplete /\ Replayed' = Replayed
  BY <1>3, <1>4, PagesErased DEF IInv
<1>6. sector \in 0..(PAGE_COUNT \div SECTOR_PAGES - 1) /\ PAGE_COUNT \div SECTOR_PAGES \in Nat
  BY Sectors DEF IInv, ReportTypes, StoreTypeOK
<1>7. ReportTypes'
  <2>1. \A i \in PageNumbers : PageTyped(i)'
    BY <1>3, PagesTyped DEF PageTyped
  <2>2. sector' \in 0..(PAGE_COUNT \div SECTOR_PAGES - 1)
    BY <1>2, <1>6 DEF LastSector
  <2>3. next' \in 0..PAGE_COUNT /\ active' \in BOOLEAN
    BY <1>1 DEF IInv, ReportTypes, StoreTypeOK
  <2>4. job' \in {"none", "erase", "start", "append", "finish"} /\ job' # "append"
        /\ answer' \in {"none", "ok", "failed"}
    BY <1>2
  <2>5. rest' \in Seq(Text)
    BY <1>1, Counts
  <2> QED
    BY <2>1, <2>2, <2>3, <2>4, <2>5, TypesKept DEF StoreTypesOK
<1>8. JobOK'
  <2>1. ASSUME flash' = ErasedSector, NEW i \in PageNumbers, i \div SECTOR_PAGES <= sector
        PROVE  flash'[i] = Erased
    <3>1. i \div SECTOR_PAGES \in Int
      BY Sectors
    <3>2. CASE i \div SECTOR_PAGES = sector
      BY <2>1, <3>2 DEF ErasedSector, InSector
    <3>3. CASE i \div SECTOR_PAGES < sector
      BY <1>1, <1>3, <3>3 DEF IInv, JobOK
    <3> QED
      BY <2>1, <3>1, <3>2, <3>3, <1>6
  <2>2. job' = "start" => \A i \in PageNumbers : flash'[i] = Erased
    <3> SUFFICES ASSUME job' = "start", NEW i \in PageNumbers PROVE flash'[i] = Erased
      OBVIOUS
    <3>1. flash' = ErasedSector /\ sector + 1 = PAGE_COUNT \div SECTOR_PAGES
      BY <1>2 DEF LastSector
    <3>2. i \div SECTOR_PAGES <= sector
      BY <3>1, <1>6, Sectors
    <3> QED
      BY <2>1, <3>1, <3>2
  <2>3. job' = "erase" => \A i \in PageNumbers : i \div SECTOR_PAGES < sector' => flash'[i] = Erased
    <3> SUFFICES ASSUME job' = "erase", NEW i \in PageNumbers, i \div SECTOR_PAGES < sector'
                 PROVE  flash'[i] = Erased
      OBVIOUS
    <3>1. flash' = ErasedSector /\ sector' = sector + 1
      BY <1>2
    <3>2. i \div SECTOR_PAGES <= sector
      BY <3>1, <1>6, Sectors
    <3> QED
      BY <2>1, <3>1, <3>2
  <2>4. job' \in {"start", "erase", "none"} /\ (job' # "none" => answer' = "none")
    BY <1>2
  <2> QED
    BY <1>1, <2>2, <2>3, <2>4 DEF JobOK, Frame
<1>9. Kept = 0 /\ Kept' = 0
  BY <1>1 DEF Kept
<1>10. StreamOK' /\ PagesOK'
  BY <1>1, <1>9 DEF IInv, StreamOK, Recording, Frame, PagesOK
<1>11. JournalOK'
  BY <1>1, <1>5, ShrunkKeeps DEF Frame
<1>12. PhaseOK'
  BY <1>1, <1>2 DEF IInv, PhaseOK, Frame, Saving
<1>13. SnapshotOK'
  <2>1. savedTo' <= Len(Replayed') /\ job' # "finish"
    BY <1>1, <1>2, <1>5 DEF IInv, SnapshotOK, Frame
  <2> QED
    BY <1>1, <2>1 DEF IInv, SnapshotOK, Frame, Saving
<1> QED
  BY <1>5, <1>7, <1>8, <1>10, <1>11, <1>12, <1>13 DEF IInv

LEMMA StartKeeps ==
  ASSUME IInv, WriteStart, Frame
  PROVE  IInv'
<1> USE PageCount
<1> DEFINE start == Page("START", 0, <<>>)
<1>1. /\ job = "start" /\ phase = "begin" /\ ~active /\ next = 0 /\ rest = <<>> /\ sector' = sector
      /\ \A i \in PageNumbers : flash[i] = Erased
  BY DEF WriteStart, IInv, JobOK
<1>2. /\ job' = "none" /\ rest' = <<>>
      /\ \/ /\ flash' = [flash EXCEPT ![0] = start]
            /\ next' = 1 /\ active' = TRUE /\ answer' = "ok"
         \/ /\ flash' = flash \/ flash' = [flash EXCEPT ![0] = Torn] \/ flash' = [flash EXCEPT ![0] = start]
            /\ next' = next /\ active' = active /\ answer' = "failed"
  BY <1>1 DEF WriteStart, Page_written, Page_failed, Return
<1>3. ~RunFound /\ Replayed = <<>> /\ ~SaysComplete
  <2>1. ~RunFound
    BY <1>1 DEF RunFound, Valid, Erased, Page
  <2> QED
    BY <2>1, NoReplay DEF IInv
<1>4. /\ FlashOK' /\ Replayed' = <<>> /\ ~SaysComplete'
      /\ \A i \in 1..(PAGE_COUNT - 1) : flash'[i] = Erased
      /\ flash'[0] = Erased \/ flash'[0] = Torn \/ flash'[0] = start
  <2>1. CASE flash' = flash
    BY <1>1, <1>3, <2>1, SameReplay DEF IInv
  <2>2. CASE \E page \in {Torn, start} : flash' = [flash EXCEPT ![0] = page]
    <3>1. PICK page \in {Torn, start} : flash' = [flash EXCEPT ![0] = page]
      BY <2>2
    <3>2. flash'[0] = page
      BY <3>1 DEF IInv, FlashOK
    <3> QED
      BY <3>1, <3>2, <1>1, FirstPage DEF IInv
  <2> QED
    BY <1>2, <2>1, <2>2
<1>5. active' => RunFound' /\ Emitted' = 1..0
  <2> SUFFICES ASSUME active' PROVE RunFound' /\ Emitted' = 1..0
    OBVIOUS
  <2>1. flash' = [flash EXCEPT ![0] = start] /\ start \in {Torn, start} /\ start # Torn
    BY <1>1, <1>2 DEF Page, Torn
  <2> QED
    BY <2>1, <1>1, FirstPage DEF IInv
<1>6. ReportTypes'
  <2>1. \A i \in PageNumbers : PageTyped(i)'
    <3>1. \A i \in PageNumbers : i = 0 \/ i \in 1..(PAGE_COUNT - 1)
      OBVIOUS
    <3>2. PageTyped(0)'
      BY <1>4 DEF PageTyped, Page
    <3>3. \A i \in 1..(PAGE_COUNT - 1) : PageTyped(i)'
      BY <1>4 DEF PageTyped
    <3> QED
      BY <3>1, <3>2, <3>3
  <2>2. next' \in 0..PAGE_COUNT
    BY <1>1, <1>2
  <2>3. active' \in BOOLEAN
    BY <1>2 DEF IInv, ReportTypes, StoreTypeOK
  <2>4. sector' \in 0..(PAGE_COUNT \div SECTOR_PAGES - 1)
    BY <1>1 DEF IInv, ReportTypes, StoreTypeOK
  <2>5. job' \in {"none", "erase", "start", "append", "finish"} /\ job' # "append"
        /\ answer' \in {"none", "ok", "failed"}
    BY <1>2
  <2>6. rest' \in Seq(Text)
    BY <1>2, EmptySeq
  <2> QED
    BY <2>1, <2>2, <2>3, <2>4, <2>5, <2>6, TypesKept DEF StoreTypesOK
<1>7. JobOK'
  BY <1>2 DEF JobOK
<1>8. PagesOK'
  <2> SUFFICES ASSUME active'
               PROVE  /\ next' \in 1..(PAGE_COUNT - 1) /\ RunFound' /\ Emitted' = 1..(next' - 1)
                      /\ \A i \in next'..(PAGE_COUNT - 1) : flash'[i] = Erased
    BY DEF PagesOK
  <2>1. next' = 1
    BY <1>1, <1>2, Zenon
  <2>2. next' - 1 = 0 /\ 1 \in 1..(PAGE_COUNT - 1)
    BY <2>1
  <2> QED
    BY <2>1, <2>2, <1>4, <1>5
<1>9. Kept = 0 /\ Kept' = 0
  BY <1>1, <1>4 DEF Kept
<1>10. StreamOK'
  BY <1>1, <1>2, <1>9 DEF IInv, StreamOK, Recording, Frame
<1>11. JournalOK'
  <2>1. \A r : LinesFrom(<<>>, r, 0)
    BY DEF LinesFrom
  <2>2. 1 \in 1..RUNS
    BY RunsAssumed
  <2> QED
    BY <1>4, <2>1, <2>2 DEF JournalOK
<1>12. PhaseOK'
  BY <1>1, <1>2, <1>4 DEF IInv, PhaseOK, Frame, Saving
<1>13. SnapshotOK'
  <2>1. savedTo' <= Len(Replayed') /\ job' # "finish"
    BY <1>1, <1>2, <1>4 DEF IInv, SnapshotOK, Frame
  <2> QED
    BY <1>1, <2>1 DEF IInv, SnapshotOK, Frame, Saving
<1> QED
  BY <1>4, <1>6, <1>7, <1>8, <1>10, <1>11, <1>12, <1>13 DEF IInv

LEMMA ChunkOf ==
  ASSUME IInv, job = "append"
  PROVE  /\ Chunk \in Seq(Text) /\ Chunk # <<>> /\ Len(Chunk) \in Nat
         /\ AfterChunk \in Seq(Text) /\ Len(AfterChunk) \in Nat
         /\ Len(Chunk) + Len(AfterChunk) = Len(rest)
         /\ LinesFrom(Replayed, run, 0) /\ LinesFrom(Chunk, run, Len(Replayed))
         /\ LinesFrom(AfterChunk, run, Len(Replayed) + Len(Chunk))
<1> DEFINE m == Smaller(Len(rest), REPORT_PAGE_DATA)
<1>1. active /\ rest # <<>> /\ rest \in Seq(Text)
  BY DEF IInv, JobOK, ReportTypes, StoreTypeOK
<1>2. REPORT_PAGE_DATA \in Nat \ {0}
  BY StoreAssumed DEF StoreAssumption
<1>3. Len(rest) \in Nat /\ Len(rest) # 0
  BY <1>1
<1>4. m \in 0..Len(rest) /\ m # 0
  BY <1>2, <1>3 DEF Smaller
<1>5. LinesFrom(Replayed, run, 0) /\ LinesFrom(rest, run, Len(Replayed)) /\ Len(Replayed) \in Nat
  BY <1>1, Counts DEF IInv, JournalOK, StreamOK, Recording, Kept
<1> HIDE DEF m
<1>6. /\ SubSeq(rest, 1, m) \in Seq(Text) /\ Len(SubSeq(rest, 1, m)) = m
      /\ LinesFrom(SubSeq(rest, 1, m), run, Len(Replayed))
      /\ SubSeq(rest, m + 1, Len(rest)) \in Seq(Text)
      /\ Len(SubSeq(rest, m + 1, Len(rest))) = Len(rest) - m
      /\ LinesFrom(SubSeq(rest, m + 1, Len(rest)), run, Len(Replayed) + m)
  BY <1>1, <1>4, <1>5, LinesSplit
<1>7. Chunk = SubSeq(rest, 1, m) /\ Len(Chunk) = m
  BY <1>6 DEF Chunk, m
<1>8. AfterChunk = SubSeq(rest, m + 1, Len(rest))
  BY <1>7 DEF AfterChunk
<1>9. Chunk # <<>>
  <2>1. Len(<<>>) = 0
    OBVIOUS
  <2> QED
    BY <2>1, <1>4, <1>7
<1>10. m \in Nat /\ Len(rest) - m \in Nat /\ m + (Len(rest) - m) = Len(rest)
  BY <1>3, <1>4
<1> QED
  BY <1>5, <1>6, <1>7, <1>8, <1>9, <1>10

LEMMA OpenJournal ==
  ASSUME IInv, active, NEW n, n = next
  PROVE  n \in 1..(PAGE_COUNT - 1) /\ Opened(n) /\ FlashOK /\ ~SaysComplete
<1>1. n \in 1..(PAGE_COUNT - 1) /\ Opened(n) /\ FlashOK
  BY DEF IInv, PagesOK, Opened
<1>2. ~SaysComplete
  BY OpenIsIncomplete DEF IInv, PagesOK
<1> QED
  BY <1>1, <1>2

LEMMA DataProgrammed ==
  ASSUME IInv, job = "append", NEW n, n = next, flash' = [flash EXCEPT ![n] = Page("DATA", n, Chunk)]
  PROVE  /\ FlashOK' /\ RunFound' /\ Emitted' = 1..n /\ ~SaysComplete'
         /\ Replayed' = Replayed \o Chunk /\ Replayed' \in Seq(Text)
         /\ Len(Replayed') = Len(Replayed) + Len(Chunk)
         /\ LinesFrom(Replayed', run, 0)
         /\ \A i \in PageNumbers : PageTyped(i)'
         /\ \A i \in (n + 1)..(PAGE_COUNT - 1) : flash'[i] = Erased
<1> USE PageCount
<1>1. active
  BY DEF IInv, JobOK
<1>2. n \in 1..(PAGE_COUNT - 1) /\ Opened(n) /\ FlashOK
  BY <1>1, OpenJournal
<1>3. /\ Chunk \in Seq(Text) /\ Chunk # <<>> /\ Len(Chunk) \in Nat
      /\ LinesFrom(Replayed, run, 0) /\ LinesFrom(Chunk, run, Len(Replayed))
  BY ChunkOf
<1>4. PICK text \in Seq(Text) : text = Chunk
  BY <1>3
<1>5. /\ FlashOK' /\ RunFound' /\ Emitted' = 1..n /\ Replayed' = Replayed \o text
      /\ ~SaysComplete' /\ flash'[n] = Page("DATA", n, text)
      /\ \A i \in PageNumbers \ {n} : flash'[i] = flash[i]
  BY <1>2, <1>3, <1>4, PageAdded
<1>6. Replayed \in Seq(Text) /\ Len(Replayed) \in Nat
  BY Counts
<1>7. Replayed' \in Seq(Text) /\ Len(Replayed') = Len(Replayed) + Len(Chunk)
  BY <1>4, <1>5, <1>6, ConcatProperties
<1>8. LinesFrom(Replayed', run, 0)
  <2>1. 0 + Len(Replayed) = Len(Replayed) /\ 0 \in Nat
    BY <1>6
  <2>2. LinesFrom(text, run, 0 + Len(Replayed))
    BY <2>1, <1>3, <1>4
  <2>3. LinesFrom(Replayed \o text, run, 0)
    BY <2>1, <2>2, <1>3, <1>6, LinesConcat
  <2> QED
    BY <2>3, <1>5
<1>9. \A i \in PageNumbers : PageTyped(i)'
  <2>1. PageTyped(n)'
    BY <1>3, <1>4, <1>5 DEF PageTyped, Page
  <2>2. \A i \in PageNumbers \ {n} : PageTyped(i)'
    BY <1>5, PagesTyped DEF PageTyped
  <2> QED
    BY <2>1, <2>2
<1>10. \A i \in (n + 1)..(PAGE_COUNT - 1) : flash'[i] = Erased
  BY <1>2, <1>5 DEF Opened
<1> QED
  BY <1>4, <1>5, <1>7, <1>8, <1>9, <1>10

LEMMA MarkProgrammed ==
  ASSUME IInv, active, NEW n, n = next, NEW page \in {Torn, Page("END", n, <<>>)},
         flash' = [flash EXCEPT ![n] = page]
  PROVE  /\ FlashOK' /\ RunFound' /\ Replayed' = Replayed
         /\ page = Torn => ~SaysComplete'
         /\ page # Torn => SaysComplete'
         /\ \A i \in PageNumbers : PageTyped(i)'
<1> USE PageCount
<1>1. n \in 1..(PAGE_COUNT - 1) /\ Opened(n) /\ FlashOK
  BY OpenJournal
<1>2. /\ FlashOK' /\ RunFound' /\ Emitted' = Emitted /\ Replayed' = Replayed
      /\ page = Torn => ~SaysComplete'
      /\ page # Torn => SaysComplete'
      /\ flash'[n] = page /\ \A i \in PageNumbers \ {n} : flash'[i] = flash[i]
  BY <1>1, PageMarked
<1>3. \A i \in PageNumbers : PageTyped(i)'
  <2>1. PageTyped(n)'
    BY <1>2 DEF PageTyped, Page
  <2>2. \A i \in PageNumbers \ {n} : PageTyped(i)'
    BY <1>2, PagesTyped DEF PageTyped
  <2> QED
    BY <2>1, <2>2
<1> QED
  BY <1>2, <1>3

LEMMA ChunkKeeps ==
  ASSUME IInv, WriteChunk, Frame
  PROVE  IInv'
<1> USE PageCount
<1>1. PICK n : n = next
  OBVIOUS
<1>2. /\ job = "append" /\ active /\ phase \in Saving /\ answer = "none" /\ sector' = sector
      /\ n \in 1..(PAGE_COUNT - 1)
  BY <1>1 DEF WriteChunk, IInv, JobOK, PagesOK
<1> DEFINE Written == flash' = [flash EXCEPT ![n] = Page("DATA", n, Chunk)]
<1>3. \/ /\ Written /\ n < PAGE_COUNT - 1 /\ next' = n + 1 /\ active' = active /\ rest' = AfterChunk
         /\ \/ AfterChunk = <<>> /\ job' = "none" /\ answer' = "ok"
            \/ AfterChunk # <<>> /\ job' = "append" /\ answer' = "none"
      \/ /\ Written \/ flash' = flash \/ flash' = [flash EXCEPT ![n] = Torn]
         /\ next' = next /\ active' = FALSE /\ rest' = <<>> /\ job' = "none" /\ answer' = "failed"
  <2>1. CASE /\ RoomForData /\ Page_written("DATA", Chunk)
             /\ UNCHANGED active
             /\ IF AfterChunk = <<>> THEN Return("ok")
                                     ELSE rest' = AfterChunk /\ UNCHANGED <<job, answer>>
    <3>1. n < PAGE_COUNT - 1 /\ Written /\ next' = n + 1 /\ active' = active
      BY <2>1, <1>1 DEF RoomForData, Page_written
    <3>2. /\ rest' = AfterChunk
          /\ \/ AfterChunk = <<>> /\ job' = "none" /\ answer' = "ok"
             \/ AfterChunk # <<>> /\ job' = "append" /\ answer' = "none"
      BY <2>1, <1>2 DEF Return
    <3> QED
      BY <3>1, <3>2
  <2>2. CASE /\ IF RoomForData THEN Page_failed("DATA", Chunk) ELSE UNCHANGED <<flash, next>>
             /\ active' = FALSE /\ Return("failed")
    <3>1. Written \/ flash' = flash \/ flash' = [flash EXCEPT ![n] = Torn]
      BY <2>2, <1>1 DEF Page_failed
    <3>2. next' = next
      BY <2>2 DEF Page_failed
    <3> QED
      BY <2>2, <3>1, <3>2 DEF Return
  <2> QED
    BY <2>1, <2>2 DEF WriteChunk
<1>4. /\ Replayed \in Seq(Text) /\ Len(Replayed) \in Nat /\ Kept = Len(Replayed)
      /\ Len(rest) \in Nat /\ Len(pending) \in Nat
  BY <1>2, Counts DEF Kept
<1>5. /\ Chunk \in Seq(Text) /\ Len(Chunk) \in Nat
      /\ AfterChunk \in Seq(Text) /\ Len(AfterChunk) \in Nat
      /\ Len(Chunk) + Len(AfterChunk) = Len(rest)
      /\ LinesFrom(Replayed, run, 0)
      /\ LinesFrom(AfterChunk, run, Len(Replayed) + Len(Chunk))
  BY <1>2, ChunkOf
<1>6. Written => /\ FlashOK' /\ RunFound' /\ Emitted' = 1..n /\ ~SaysComplete'
                 /\ Replayed' \in Seq(Text) /\ Len(Replayed') = Len(Replayed) + Len(Chunk)
                 /\ LinesFrom(Replayed', run, 0)
                 /\ \A i \in PageNumbers : PageTyped(i)'
                 /\ \A i \in (n + 1)..(PAGE_COUNT - 1) : flash'[i] = Erased
  BY <1>1, <1>2, DataProgrammed
<1>7. ~SaysComplete
  BY <1>1, <1>2, OpenJournal
<1>8. ~Written => /\ FlashOK' /\ Replayed' = Replayed /\ ~SaysComplete'
                  /\ \A i \in PageNumbers : PageTyped(i)'
  <2>1. CASE flash' = flash
    <3>1. \A i \in PageNumbers : PageTyped(i)'
      BY <2>1, PagesTyped DEF PageTyped
    <3> QED
      BY <2>1, <3>1, <1>7, SameReplay DEF IInv
  <2>2. CASE flash' = [flash EXCEPT ![n] = Torn]
    BY <2>2, <1>1, <1>2, MarkProgrammed
  <2> QED
    BY <1>3, <2>1, <2>2
<1>9. /\ FlashOK' /\ ~SaysComplete' /\ LinesFrom(Replayed', run, 0) /\ \A i \in PageNumbers : PageTyped(i)'
      /\ Len(Replayed') \in Nat /\ Len(Replayed') >= Len(Replayed)
  BY <1>4, <1>5, <1>6, <1>8
<1> HIDE DEF Written
<1>10. ReportTypes'
  <2>1. next' \in 0..PAGE_COUNT
    <3>1. next' = n \/ next' = n + 1
      BY <1>1, <1>3
    <3> QED
      BY <3>1, <1>2
  <2>2. active' \in BOOLEAN
    BY <1>3 DEF IInv, ReportTypes, StoreTypeOK
  <2>3. sector' \in 0..(PAGE_COUNT \div SECTOR_PAGES - 1)
    BY <1>2 DEF IInv, ReportTypes, StoreTypeOK
  <2>4. job' \in {"none", "erase", "start", "append", "finish"} /\ answer' \in {"none", "ok", "failed"}
        /\ (job' = "append" => rest' # <<>>)
    BY <1>3
  <2>5. rest' \in Seq(Text)
    BY <1>3, <1>5, EmptySeq
  <2> QED
    BY <1>9, <2>1, <2>2, <2>3, <2>4, <2>5, TypesKept DEF StoreTypesOK
<1>11. CASE /\ Written /\ n < PAGE_COUNT - 1 /\ next' = n + 1 /\ active' = active /\ rest' = AfterChunk
            /\ \/ AfterChunk = <<>> /\ job' = "none" /\ answer' = "ok"
               \/ AfterChunk # <<>> /\ job' = "append" /\ answer' = "none"
  <2>1. active'
    BY <1>2, <1>11
  <2>2. JobOK'
    <3>1. job' # "append" => rest' = <<>>
      BY <1>11
    <3> QED
      BY <1>2, <1>11, <2>1, <3>1 DEF JobOK, Frame
  <2>3. PagesOK'
    <3>1. next' = n + 1 /\ next' - 1 = n /\ next' \in 1..(PAGE_COUNT - 1)
      BY <1>2, <1>11
    <3>2. RunFound' /\ Emitted' = 1..n /\ \A i \in (n + 1)..(PAGE_COUNT - 1) : flash'[i] = Erased
      BY <1>6, <1>11
    <3> QED
      BY <3>1, <3>2 DEF PagesOK
  <2>4. Len(Replayed') = Len(Replayed) + Len(Chunk) /\ Kept' = Len(Replayed')
    BY <1>6, <1>11, <2>1 DEF Kept
  <2>5. Kept' + Len(rest') = Kept + Len(rest) /\ LinesFrom(rest', run, Kept')
    BY <1>4, <1>5, <1>11, <2>4
  <2>6. StreamOK'
    <3>1. /\ LinesFrom(pending, run, Kept + Len(rest))
          /\ ~failed => Kept + Len(rest) + Len(pending) = reported[run]
      BY <1>2 DEF IInv, StreamOK, Recording
    <3> QED
      BY <2>5, <3>1 DEF StreamOK, Frame
  <2>7. JournalOK'
    BY <1>9, Counts DEF JournalOK, Frame
  <2>8. PhaseOK'
    BY <1>2, <2>1 DEF IInv, PhaseOK, Frame, Saving
  <2>9. SnapshotOK'
    <3>1. ~failed => Len(Replayed') + Len(rest') = snapshotAt
      BY <1>2, <1>4, <2>4, <2>5 DEF IInv, SnapshotOK
    <3>2. savedTo <= Len(Replayed')
      <4>1. savedTo <= Len(Replayed) /\ savedTo \in Nat
        <5>1. savedTo \in 0..snapshotAt /\ snapshotAt \in 0..MAX_LINES
          BY DEF IInv, ReportTypes
        <5> QED
          BY <5>1 DEF IInv, SnapshotOK
      <4> QED
        BY <4>1, <1>4, <1>9
    <3> QED
      BY <1>2, <1>11, <2>1, <3>1, <3>2 DEF IInv, SnapshotOK, Frame
  <2> QED
    BY <1>9, <1>10, <2>2, <2>3, <2>6, <2>7, <2>8, <2>9 DEF IInv
<1>12. CASE next' = next /\ active' = FALSE /\ rest' = <<>> /\ job' = "none" /\ answer' = "failed"
  <2>1. JobOK' /\ PagesOK'
    BY <1>12 DEF JobOK, PagesOK
  <2>2. StreamOK'
    BY <1>2, <1>12 DEF StreamOK, Recording, Frame, Saving
  <2>3. JournalOK'
    BY <1>9, <1>12, Counts DEF JournalOK, Frame
  <2>4. PhaseOK'
    BY <1>2, <1>12 DEF IInv, PhaseOK, Frame, Saving
  <2>5. SnapshotOK'
    <3>1. savedTo <= Len(Replayed')
      <4>1. savedTo <= Len(Replayed) /\ savedTo \in Nat
        <5>1. savedTo \in 0..snapshotAt /\ snapshotAt \in 0..MAX_LINES
          BY DEF IInv, ReportTypes
        <5> QED
          BY <5>1 DEF IInv, SnapshotOK
      <4> QED
        BY <4>1, <1>4, <1>9
    <3> QED
      BY <1>2, <1>12, <3>1 DEF IInv, SnapshotOK, Frame
  <2> QED
    BY <1>9, <1>10, <2>1, <2>2, <2>3, <2>4, <2>5 DEF IInv
<1> QED
  BY <1>3, <1>11, <1>12

LEMMA EndKeeps ==
  ASSUME IInv, WriteEnd, Frame
  PROVE  IInv'
<1> USE PageCount
<1>1. PICK n : n = next
  OBVIOUS
<1> DEFINE end == Page("END", n, <<>>)
<1>2. /\ job = "finish" /\ active /\ phase = "finish" /\ answer = "none" /\ rest = <<>>
      /\ sector' = sector /\ n \in 1..(PAGE_COUNT - 1) /\ active' = FALSE
      /\ Len(Replayed) = reported[run] /\ closed
  BY <1>1 DEF WriteEnd, IInv, JobOK, PagesOK, SnapshotOK
<1>3. /\ job' = "none" /\ rest' = <<>> /\ answer' \in {"ok", "failed"}
      /\ next' = n \/ next' = n + 1
      /\ flash' = flash \/ flash' = [flash EXCEPT ![n] = Torn] \/ flash' = [flash EXCEPT ![n] = end]
  BY <1>1 DEF WriteEnd, Page_written, Page_failed, Return
<1>4. LinesFrom(Replayed, run, 0) /\ run \in 1..RUNS /\ RUNS \in Nat
  BY <1>2, Counts, RunsAssumed DEF IInv, JournalOK
<1>5. FlashOK' /\ Replayed' = Replayed /\ \A i \in PageNumbers : PageTyped(i)'
  <2>1. CASE flash' = flash
    <3>1. \A i \in PageNumbers : PageTyped(i)'
      BY <2>1, PagesTyped DEF PageTyped
    <3> QED
      BY <2>1, <3>1, SameReplay DEF IInv
  <2>2. CASE \E page \in {Torn, end} : flash' = [flash EXCEPT ![n] = page]
    BY <2>2, <1>1, <1>2, MarkProgrammed
  <2> QED
    BY <1>3, <2>1, <2>2
<1>6. ReportTypes'
  <2>1. next' \in 0..PAGE_COUNT
    BY <1>2, <1>3
  <2>2. active' \in BOOLEAN
    BY <1>2
  <2>3. sector' \in 0..(PAGE_COUNT \div SECTOR_PAGES - 1)
    BY <1>2 DEF IInv, ReportTypes, StoreTypeOK
  <2>4. job' \in {"none", "erase", "start", "append", "finish"} /\ answer' \in {"none", "ok", "failed"}
        /\ job' # "append"
    BY <1>3
  <2>5. rest' \in Seq(Text)
    BY <1>3, EmptySeq
  <2> QED
    BY <1>5, <2>1, <2>2, <2>3, <2>4, <2>5, TypesKept DEF StoreTypesOK
<1>7. JobOK' /\ PagesOK'
  BY <1>2, <1>3 DEF JobOK, PagesOK
<1>8. StreamOK'
  BY <1>2 DEF StreamOK, Recording, Frame
<1>9. JournalOK'
  <2>1. run \in 1..run /\ Len(Replayed') = reported[run] /\ LinesFrom(Replayed', run, 0) /\ closed
    BY <1>2, <1>4, <1>5
  <2> QED
    BY <1>2, <1>4, <2>1 DEF JournalOK, Frame
<1>10. PhaseOK'
  BY <1>2, <1>3 DEF IInv, PhaseOK, Frame, Saving
<1>11. SnapshotOK'
  BY <1>2, <1>3, <1>5 DEF IInv, SnapshotOK, Frame, Saving
<1> QED
  BY <1>5, <1>6, <1>7, <1>8, <1>9, <1>10, <1>11 DEF IInv

(* What a power cut leaves in the flash is what some step could have left there. *)
LEMMA PowerLeaves ==
  ASSUME IInv, LosePower
  PROVE  /\ FlashOK' /\ \A i \in PageNumbers : PageTyped(i)'
         /\ \/ /\ Begins(Replayed, Replayed') /\ Replayed' \in Seq(Text)
               /\ SaysComplete' => SaysComplete /\ Replayed' = Replayed
               /\ job = "erase" \/ Replayed' = Replayed
               /\ (job \in {"erase", "start"}) \/ (RunFound' <=> RunFound)
               /\ job = "start" => ~RunFound
               /\ job = "erase" => (RunFound' => RunFound)
               /\ job = "erase" \/ (SaysComplete' <=> SaysComplete)
            \/ /\ job = "append" /\ ~SaysComplete' /\ RunFound' /\ RunFound
               /\ Replayed' = Replayed \o Chunk /\ LinesFrom(Replayed', run, 0)
               /\ ~SaysComplete
            \/ /\ job = "finish" /\ SaysComplete' /\ ~SaysComplete /\ RunFound' /\ RunFound
               /\ Replayed' = Replayed
<1> USE PageCount
<1>1. PICK n : n = next
  OBVIOUS
<1>2. Replayed \in Seq(Text) /\ Begins(Replayed, Replayed) /\ FlashOK
  BY Counts DEF Begins, IInv
<1>3. CASE flash' = flash
  <2>1. \A i \in PageNumbers : PageTyped(i)'
    BY <1>3, PagesTyped DEF PageTyped
  <2>2. /\ Replayed' = Replayed
        /\ (RunFound' <=> RunFound) /\ (SaysComplete' <=> SaysComplete) /\ (FlashOK' <=> FlashOK)
    BY <1>3, SameReplay
  <2>3. job = "start" => ~RunFound
    BY DEF IInv, JobOK, RunFound, Valid, Erased, Page
  <2> QED
    BY <2>1, <2>2, <2>3, <1>2
<1>4. CASE \E left \in UnderProgram : flash' = [flash EXCEPT ![n] = left]
  <2>1. PICK left \in UnderProgram : flash' = [flash EXCEPT ![n] = left]
    BY <1>4
  <2>2. CASE job = "start"
    <3>1. n = 0 /\ \A i \in PageNumbers : flash[i] = Erased
      BY <2>2, <1>1 DEF IInv, JobOK
    <3>2. left \in {Torn, Page("START", 0, <<>>)}
      BY <2>1, <2>2, <3>1, <1>1 DEF UnderProgram
    <3>3. /\ FlashOK' /\ Replayed' = <<>> /\ ~SaysComplete' /\ ~RunFound
          /\ \A i \in 1..(PAGE_COUNT - 1) : flash'[i] = Erased
      BY <3>1, <3>2, <2>1, <1>2, FirstPage
    <3>4. Replayed = <<>> /\ ~SaysComplete
      BY <3>3, <1>2, NoReplay
    <3>5. \A i \in PageNumbers : PageTyped(i)'
      <4>1. flash'[0] = left
        BY <2>1, <3>1 DEF IInv, FlashOK
      <4>2. PageTyped(0)'
        BY <4>1, <3>2 DEF PageTyped, Page
      <4>3. \A i \in 1..(PAGE_COUNT - 1) : PageTyped(i)'
        BY <3>3 DEF PageTyped
      <4>4. \A i \in PageNumbers : i = 0 \/ i \in 1..(PAGE_COUNT - 1)
        OBVIOUS
      <4> QED
        BY <4>2, <4>3, <4>4
    <3> QED
      BY <2>2, <3>3, <3>4, <3>5, <1>2
  <2>3. CASE job = "append"
    <3>1. active /\ left \in {Torn, Page("DATA", n, Chunk)}
      BY <2>1, <2>3, <1>1 DEF UnderProgram, IInv, JobOK
    <3>2. RunFound /\ ~SaysComplete
      BY <3>1, <1>1, OpenJournal DEF Opened
    <3>3. CASE left = Torn
      <4>1. /\ FlashOK' /\ RunFound' /\ Replayed' = Replayed /\ ~SaysComplete'
            /\ \A i \in PageNumbers : PageTyped(i)'
        BY <3>1, <3>3, <2>1, <1>1, MarkProgrammed
      <4> QED
        BY <2>3, <3>2, <4>1, <1>2
    <3>4. CASE left = Page("DATA", n, Chunk)
      <4>1. /\ FlashOK' /\ RunFound' /\ ~SaysComplete' /\ Replayed' = Replayed \o Chunk
            /\ LinesFrom(Replayed', run, 0) /\ \A i \in PageNumbers : PageTyped(i)'
        BY <3>4, <2>1, <2>3, <1>1, DataProgrammed
      <4> QED
        BY <2>3, <3>2, <4>1
    <3> QED
      BY <3>1, <3>3, <3>4
  <2>4. CASE job = "finish"
    <3>1. active /\ left \in {Torn, Page("END", n, <<>>)}
      BY <2>1, <2>4, <1>1 DEF UnderProgram, IInv, JobOK
    <3>2. RunFound /\ ~SaysComplete
      BY <3>1, <1>1, OpenJournal DEF Opened
    <3>3. /\ FlashOK' /\ RunFound' /\ Replayed' = Replayed /\ \A i \in PageNumbers : PageTyped(i)'
          /\ (left = Torn => ~SaysComplete') /\ (left # Torn => SaysComplete')
      BY <3>1, <2>1, <1>1, MarkProgrammed
    <3> QED
      BY <2>4, <3>2, <3>3, <1>2
  <2> QED
    BY <2>1, <2>2, <2>3, <2>4 DEF UnderProgram
<1>5. CASE /\ job = "erase"
           /\ \E left \in [{i \in PageNumbers : InSector(i)} -> {"old", "erased", "torn"}] :
                flash' = [i \in PageNumbers |->
                            IF ~InSector(i) \/ left[i] = "old" THEN flash[i]
                            ELSE IF left[i] = "erased" THEN Erased ELSE Torn]
  <2>1. PICK left : flash' = [i \in PageNumbers |->
                       IF ~InSector(i) \/ left[i] = "old" THEN flash[i]
                       ELSE IF left[i] = "erased" THEN Erased ELSE Torn]
    BY <1>5
  <2>2. \A i \in PageNumbers : flash'[i] = flash[i] \/ flash'[i] = Erased \/ flash'[i] = Torn
    BY <2>1
  <2>3. flash' \in [PageNumbers -> PageSet]
    <3>1. \A i \in PageNumbers : flash[i] \in PageSet
      BY <1>2 DEF FlashOK
    <3> HIDE DEF PageNumbers
    <3> QED
      BY <2>1, <3>1, EmptyPages
  <2>4. /\ FlashOK' /\ Begins(Replayed, Replayed') /\ Replayed' \in Seq(Text)
        /\ RunFound' => RunFound
        /\ SaysComplete' => SaysComplete /\ Replayed' = Replayed
    BY <2>2, <2>3, <1>2, PagesErased
  <2>5. \A i \in PageNumbers : PageTyped(i)'
    BY <2>2, PagesTyped DEF PageTyped
  <2> QED
    BY <1>5, <2>4, <2>5
<1> QED
  BY <1>1, <1>3, <1>4, <1>5 DEF LosePower

LEMMA PowerKeeps ==
  ASSUME IInv, PowerCut
  PROVE  IInv'
<1> USE PageCount
<1>1. /\ run < RUNS /\ run' = run + 1 /\ LosePower
      /\ pending' = <<>> /\ reportActive' = FALSE /\ failed' = FALSE /\ closed' = FALSE
      /\ phase' = "boot" /\ snapshotAt' = 0 /\ savedTo' = 0 /\ reported' = reported
  BY DEF PowerCut
<1>2. /\ next' = 0 /\ active' = FALSE /\ job' = "none" /\ sector' = 0 /\ rest' = <<>>
      /\ answer' = "none"
  BY <1>1 DEF LosePower
<1>3. /\ run \in 1..RUNS /\ RUNS \in Nat /\ MAX_LINES \in Nat /\ run' \in 1..RUNS
      /\ reported \in [1..RUNS -> 0..MAX_LINES] /\ REPORT_CAPACITY \in Nat
  BY <1>1, RunsAssumed, ReportAssumed DEF IInv, ReportTypes, ReportAssumption
<1>4. reported[run'] = 0
  BY <1>1, <1>3 DEF IInv, SnapshotOK
<1>5. FlashOK' /\ \A i \in PageNumbers : PageTyped(i)'
  BY <1>1, PowerLeaves
<1>6. ReportTypes'
  <2>1. StoreTypeOK'
    <3>1. next' \in 0..PAGE_COUNT /\ sector' \in 0..(PAGE_COUNT \div SECTOR_PAGES - 1)
      BY <1>2, Sectors
    <3>2. active' \in BOOLEAN /\ job' \in {"none", "erase", "start", "append", "finish"}
          /\ answer' \in {"none", "ok", "failed"} /\ job' # "append"
      BY <1>2
    <3>3. rest' \in Seq(Text)
      BY <1>2, EmptySeq
    <3> QED
      BY <1>5, <3>1, <3>2, <3>3, StoreTypesNext DEF StoreTypesOK
  <2>2. pending' \in Seq(Text) /\ Len(pending') <= REPORT_CAPACITY
    BY <1>1, <1>3, EmptySeq
  <2>3. reportActive' \in BOOLEAN /\ failed' \in BOOLEAN /\ closed' \in BOOLEAN
    BY <1>1
  <2>4. snapshotAt' \in 0..MAX_LINES /\ savedTo' \in 0..snapshotAt'
    BY <1>1, <1>3
  <2> QED
    BY <1>1, <1>3, <2>1, <2>2, <2>3, <2>4 DEF ReportTypes
<1>7. JobOK' /\ PagesOK'
  BY <1>2 DEF JobOK, PagesOK
<1>8. StreamOK'
  <2>1. Len(rest') = 0 /\ Len(pending') = 0 /\ Kept' = 0
    BY <1>1, <1>2 DEF Kept
  <2> QED
    BY <1>1, <1>4, <2>1 DEF StreamOK, LinesFrom
<1>9. Replayed \in Seq(Text) /\ run \in 1..run' /\ run # run'
  BY <1>1, <1>3, Counts
<1>10. JournalOK'
  <2>1. CASE /\ Begins(Replayed, Replayed') /\ Replayed' \in Seq(Text)
             /\ SaysComplete' => SaysComplete /\ Replayed' = Replayed
    BY <2>1, <1>1, <1>2, ShrunkKeeps
  <2>2. CASE ~SaysComplete' /\ LinesFrom(Replayed', run, 0)
    BY <2>2, <1>2, <1>3 DEF JournalOK
  <2>3. CASE job = "finish" /\ Replayed' = Replayed
    <3>1. Len(Replayed) = reported[run] /\ LinesFrom(Replayed, run, 0)
      BY <2>3 DEF IInv, SnapshotOK, JobOK, JournalOK
    <3> QED
      BY <2>3, <3>1, <1>1, <1>2, <1>3, <1>9 DEF JournalOK
  <2> QED
    BY <2>1, <2>2, <2>3, <1>1, PowerLeaves
<1>11. PhaseOK'
  BY <1>1, <1>2 DEF PhaseOK, Saving, Closing
<1>12. SnapshotOK'
  <2>1. 0 <= Len(Replayed')
    <3>1. Replayed' \in Seq(Text)
      BY <1>5, EmittedIsNext, ReplayIsNext DEF EmittedOK, ReplayOK, StopsAt
    <3> QED
      BY <3>1
  <2>2. \A r \in 1..RUNS : r > run' => reported[r] = 0
    BY <1>1, <1>3 DEF IInv, SnapshotOK
  <2> QED
    BY <1>1, <1>2, <1>4, <2>1, <2>2 DEF SnapshotOK, Saving
<1> QED
  BY <1>5, <1>6, <1>7, <1>8, <1>10, <1>11, <1>12 DEF IInv

LEMMA StutterKeeps ==
  ASSUME IInv, UNCHANGED vars
  PROVE  IInv'
<1>1. UNCHANGED <<flash, next, active, job, sector, rest, answer, pending, reportActive, failed, closed,
                  phase, run, reported, snapshotAt, savedTo>>
  BY DEF vars, storeVars, reportVars, ghostVars
<1>2. /\ FlashOK' /\ PagesOK' /\ Replayed' = Replayed /\ Kept' = Kept
      /\ (SaysComplete' <=> SaysComplete)
  BY <1>1, StoreStays
<1>3. ReportTypes'
  BY <1>1, StoreTypesStay DEF storeVars, IInv, ReportTypes
<1>4. JobOK' /\ PhaseOK'
  BY <1>1, <1>2 DEF IInv, JobOK, PhaseOK
<1>5. StreamOK' /\ JournalOK' /\ SnapshotOK'
  BY <1>1, <1>2 DEF IInv, StreamOK, Recording, JournalOK, SnapshotOK
<1> QED
  BY <1>2, <1>3, <1>4, <1>5 DEF IInv

LEMMA NextKeeps ==
  ASSUME IInv, [Next]_vars
  PROVE  IInv'
<1>1. CASE \E oversized \in BOOLEAN : report_format(oversized)
  BY <1>1, ReportFormat
<1>2. CASE Foreground
  BY <1>2, ReportBegins, ReportBegunKeeps, SavesKeep, ChecksReturn, FinishKeeps, FinishedKeeps
     DEF Foreground
<1>3. CASE StoreRuns
  <2>1. Frame /\ StoreStep
    BY <1>3 DEF StoreRuns, Frame, reportVars, ghostVars
  <2> QED
    BY <2>1, EraseKeeps, StartKeeps, ChunkKeeps, EndKeeps DEF StoreStep
<1>4. CASE PowerCut
  BY <1>4, PowerKeeps
<1>5. CASE UNCHANGED vars
  BY <1>5, StutterKeeps
<1> QED
  BY <1>1, <1>2, <1>3, <1>4, <1>5 DEF Next

(* The strengthening that the properties of this module follow from: what the     *)
(* journal, the operation under way and main() know of each other at every step,  *)
(* power cuts and failed writes included (report_store.c and run_report.c).       *)
THEOREM ReportInvariance == Spec => []IInv
<1>1. Init => IInv
  BY InitHolds
<1>2. IInv /\ [Next]_vars => IInv'
  BY NextKeeps
<1> QED
  BY <1>1, <1>2, PTL DEF Spec

(* For every size of journal, page and buffer: nothing overflows, the journal holds *)
(* records only where they belong, and the page of the end marker is free as long   *)
(* as the journal accepts text (report_store.c:75).                                 *)
THEOREM ReportInvHolds == Spec => []ReportInv
<1>1. IInv => ReportInv
  <2> SUFFICES ASSUME IInv PROVE ReportInv
    OBVIOUS
  <2>1. ReportTypes
    BY DEF IInv
  <2>2. active => next \in 1..(PAGE_COUNT - 1) /\ \A i \in next..(PAGE_COUNT - 1) : flash[i] = Erased
    BY DEF IInv, PagesOK
  <2>3. EndHasRoom
    BY <2>2, PageCount DEF EndHasRoom
  <2> QED
    BY <2>1, <2>3 DEF ReportInv
<1> QED
  BY <1>1, ReportInvariance, PTL

(* However often the power is cut and in the middle of whatever, report_store_replay *)
(* prints the first lines of one run, in order and each once.                        *)
THEOREM ReplayIsPrefix == Spec => []ReplayIsPrefixOfOneRun
<1>1. IInv => ReplayIsPrefixOfOneRun
  <2> SUFFICES ASSUME IInv PROVE ReplayIsPrefixOfOneRun
    OBVIOUS
  <2>1. Replayed \in Seq(Text)
    BY Counts
  <2>2. PICK r \in 1..RUNS : LinesFrom(Replayed, r, 0)
    BY DEF IInv, JournalOK
  <2>3. \A k \in DOMAIN Replayed : Replayed[k] = <<r, k>>
    <3> SUFFICES ASSUME NEW k \in DOMAIN Replayed PROVE Replayed[k] = <<r, k>>
      OBVIOUS
    <3>1. k \in 1..Len(Replayed) /\ 0 + k = k
      BY <2>1
    <3> QED
      BY <2>2, <3>1 DEF LinesFrom
  <2> QED
    BY <2>2, <2>3 DEF ReplayIsPrefixOfOneRun
<1> QED
  BY <1>1, ReportInvariance, PTL

(* A replay that says "COMPLETE" prints every line that its run reported until     *)
(* report_finish closed it, in whichever boot it is read.                          *)
THEOREM CompleteMeansAll == Spec => []CompleteIsEverything
<1>1. IInv => CompleteIsEverything
  <2> SUFFICES ASSUME IInv, SaysComplete
               PROVE  \E r \in 1..RUNS : /\ Len(Replayed) = reported[r]
                                         /\ \A k \in DOMAIN Replayed : Replayed[k][1] = r
    BY DEF CompleteIsEverything
  <2>1. Replayed \in Seq(Text) /\ run \in 1..RUNS /\ RUNS \in Nat
    BY Counts, RunsAssumed
  <2>2. PICK r \in 1..run : Len(Replayed) = reported[r] /\ LinesFrom(Replayed, r, 0)
    BY DEF IInv, JournalOK
  <2>3. r \in 1..RUNS
    BY <2>1
  <2>4. \A k \in DOMAIN Replayed : Replayed[k][1] = r
    <3> SUFFICES ASSUME NEW k \in DOMAIN Replayed PROVE Replayed[k][1] = r
      OBVIOUS
    <3>1. k \in 1..Len(Replayed)
      BY <2>1
    <3>2. Replayed[k] = <<r, 0 + k>>
      BY <2>2, <3>1 DEF LinesFrom
    <3> QED
      BY <3>2
  <2> QED
    BY <2>2, <2>3, <2>4
<1> QED
  BY <1>1, ReportInvariance, PTL

(* A checkpoint that returned true stays true: its lines are in every later replay of *)
(* that boot, whatever fails after it (report_checkpoint, run_report.c).              *)
THEOREM CheckpointHolds == Spec => []CheckpointIsDurable
<1>1. IInv => CheckpointIsDurable
  <2> SUFFICES ASSUME IInv PROVE CheckpointIsDurable
    OBVIOUS
  <2>1. Len(Replayed) \in Nat /\ savedTo <= Len(Replayed)
    BY Counts DEF IInv, SnapshotOK
  <2>2. savedTo \in Int
    BY DEF IInv, ReportTypes
  <2> QED
    BY <2>1, <2>2 DEF CheckpointIsDurable
<1> QED
  BY <1>1, ReportInvariance, PTL

-----------------------------------------------------------------------------
(* The journal keeps the promise of module Journal                          *)

\* A step of the notebook, or none.
NotebookStep == [Notebook!JournalNext]_<<Notebook!shown, job = "erase">>

JudgedOK == RunFound \in BOOLEAN /\ SaysComplete \in BOOLEAN
LEMMA Judged == JudgedOK
BY DEF JudgedOK, RunFound, Valid, SaysComplete
LEMMA JudgedNext == JudgedOK'
BY Judged, PTL

LEMMA NothingShown ==
  ASSUME Replayed' = Replayed, RunFound' <=> RunFound, SaysComplete' <=> SaysComplete,
         (job' = "erase") <=> (job = "erase")
  PROVE  NotebookStep
<1>1. RunFound' = RunFound /\ SaysComplete' = SaysComplete /\ (job' = "erase") = (job = "erase")
  OBVIOUS
<1> QED
  BY <1>1 DEF NotebookStep, Notebook!shown

LEMMA RunOpened ==
  ASSUME Replayed' = Replayed, ~RunFound, RunFound', SaysComplete' <=> SaysComplete,
         job # "erase", job' # "erase"
  PROVE  NotebookStep
<1>1. SaysComplete' = SaysComplete /\ (job' = "erase") = (job = "erase") /\ RunFound' = TRUE
  OBVIOUS
<1>2. Notebook!NewRun
  BY <1>1 DEF Notebook!NewRun
<1> QED
  BY <1>2 DEF NotebookStep, Notebook!JournalNext

LEMMA RunCompleted ==
  ASSUME Replayed' = Replayed, RunFound, RunFound', ~SaysComplete, SaysComplete',
         job # "erase", job' # "erase"
  PROVE  NotebookStep
<1>1. RunFound' = RunFound /\ (job' = "erase") = (job = "erase") /\ SaysComplete' = TRUE
  OBVIOUS
<1>2. Notebook!Completes
  BY <1>1 DEF Notebook!Completes
<1> QED
  BY <1>2 DEF NotebookStep, Notebook!JournalNext

LEMMA LinesAdded ==
  ASSUME IInv, job = "append", job' # "erase", Replayed' = Replayed \o Chunk,
         LinesFrom(Replayed', run, 0), RunFound, RunFound', ~SaysComplete, ~SaysComplete'
  PROVE  NotebookStep
<1>1. /\ Chunk \in Seq(Text) /\ Chunk # <<>> /\ Replayed \in Seq(Text) /\ run \in 1..RUNS
      /\ Len(Replayed) \in Nat /\ Len(Chunk) \in Nat
  BY ChunkOf, Counts
<1>2. Len(Chunk) # 0
  BY <1>1
<1>3. Replayed' \in Seq(Text) /\ Len(Replayed') = Len(Replayed) + Len(Chunk)
  BY <1>1, ConcatProperties
<1>4. Len(Replayed') > Len(Replayed) /\ Replayed' # <<>> /\ 1 \in 1..Len(Replayed')
  BY <1>1, <1>2, <1>3
<1>5. Replayed'[1][1] = run
  BY <1>4 DEF LinesFrom
<1>6. Replayed # <<>> => Replayed[1][1] = run
  <2>1. Replayed # <<>> => 1 \in 1..Len(Replayed)
    BY <1>1
  <2>2. LinesFrom(Replayed, run, 0)
    BY ChunkOf
  <2> QED
    BY <2>1, <2>2 DEF LinesFrom
<1>7. RunFound' = RunFound /\ SaysComplete' = SaysComplete /\ (job' = "erase") = (job = "erase")
  <2>1. (job' = "erase") = FALSE /\ (job = "erase") = FALSE
    OBVIOUS
  <2>2. RunFound' = RunFound /\ SaysComplete' = SaysComplete
    BY Judged, JudgedNext, Zenon DEF JudgedOK
  <2> QED
    BY <2>1, <2>2, Zenon
<1>8. (IF Replayed' = <<>> THEN 0 ELSE Replayed'[1][1])
        \in IF (IF Replayed = <<>> THEN 0 ELSE Replayed[1][1]) = 0
             THEN 1..RUNS ELSE {IF Replayed = <<>> THEN 0 ELSE Replayed[1][1]}
  BY <1>1, <1>4, <1>5, <1>6
<1>9. Notebook!Adds
  BY <1>4, <1>7, <1>8 DEF Notebook!Adds
<1> QED
  BY <1>9 DEF NotebookStep, Notebook!JournalNext

LEMMA PagesTorn ==
  ASSUME IInv, job = "erase", Begins(Replayed, Replayed'), Replayed' \in Seq(Text),
         RunFound' => RunFound, SaysComplete' => SaysComplete
  PROVE  NotebookStep
<1>1. /\ Len(Replayed') <= Len(Replayed) /\ \A i \in 1..Len(Replayed') : Replayed'[i] = Replayed[i]
  BY DEF Begins
<1>2. Replayed \in Seq(Text) /\ Len(Replayed) \in Nat /\ Len(Replayed') \in Nat
  BY Counts
<1>3. Len(Replayed') \in 0..Len(Replayed) /\ (Len(Replayed') = 0 <=> Replayed' = <<>>)
  BY <1>1, <1>2
<1>4. Replayed' # <<>> => Replayed # <<>> /\ Replayed'[1] = Replayed[1]
  <2> SUFFICES ASSUME Replayed' # <<>> PROVE Replayed # <<>> /\ Replayed'[1] = Replayed[1]
    OBVIOUS
  <2>1. 1 \in 1..Len(Replayed')
    BY <1>2, <1>3
  <2>2. Len(Replayed) # 0
    BY <2>1, <1>1, <1>2
  <2> QED
    BY <2>1, <2>2, <1>1
<1>5. RunFound' \in {RunFound, FALSE} /\ SaysComplete' \in {SaysComplete, FALSE} /\ (job' = "erase") \in BOOLEAN
  <2>1. RunFound' = RunFound \/ RunFound' = FALSE
    BY Judged, JudgedNext, Zenon DEF JudgedOK
  <2>2. SaysComplete' = SaysComplete \/ SaysComplete' = FALSE
    BY Judged, JudgedNext, Zenon DEF JudgedOK
  <2>3. (job' = "erase") = TRUE \/ (job' = "erase") = FALSE
    OBVIOUS
  <2> QED
    BY <2>1, <2>2, <2>3, Zenon
<1>6. (IF Replayed' = <<>> THEN 0 ELSE Replayed'[1][1])
        = (IF Len(Replayed') = 0 THEN 0 ELSE IF Replayed = <<>> THEN 0 ELSE Replayed[1][1])
  BY <1>3, <1>4
<1>7. Notebook!TearsOut
  BY <1>3, <1>5, <1>6, Zenon DEF Notebook!TearsOut
<1> QED
  BY <1>7 DEF NotebookStep, Notebook!JournalNext

\* Nothing that main() does between two operations of the journal shows.
LEMMA QuietRefines ==
  ASSUME IInv, UNCHANGED flash, (job' = "erase") <=> (job = "erase")
  PROVE  NotebookStep
<1>1. Replayed' = Replayed /\ (RunFound' <=> RunFound) /\ (SaysComplete' <=> SaysComplete)
  BY SameReplay
<1> QED
  BY <1>1, NothingShown

LEMMA BeginRefines ==
  ASSUME IInv, report_begin
  PROVE  NotebookStep
<1>1. flash' = flash /\ job = "none" /\ job' = "erase"
  BY DEF report_begin, report_store_begin, IInv, PhaseOK
<1>2. Replayed' = Replayed /\ (RunFound' <=> RunFound) /\ (SaysComplete' <=> SaysComplete)
  BY <1>1, SameReplay
<1>3. RunFound' = RunFound /\ SaysComplete' = SaysComplete
  BY <1>2, Judged, JudgedNext, Zenon DEF JudgedOK
<1>4. ~(job = "erase") /\ (job' = "erase") = TRUE
  BY <1>1
<1>5. Notebook!StartsOver
  BY <1>2, <1>3, <1>4 DEF Notebook!StartsOver, Notebook!shown
<1> QED
  BY <1>5 DEF NotebookStep, Notebook!JournalNext

LEMMA ForegroundRefines ==
  ASSUME IInv, Foreground
  PROVE  NotebookStep
<1>1. CASE report_begin
  BY <1>1, BeginRefines
<1>2. CASE ReportBegun
  <2>1. flash' = flash /\ job = "none" /\ job' # "erase"
    BY <1>2 DEF ReportBegun, Answered, BeginCheckpoint, report_store_append
  <2> QED
    BY <2>1, QuietRefines
<1>3. CASE report_checkpoint \/ report_finish
  <2>1. phase \in {"running", "stopping"} /\ BeginCheckpoint
    BY <1>3 DEF report_checkpoint, report_finish
  <2>2. job # "erase"
    BY <2>1 DEF IInv, JobOK
  <2>3. flash' = flash /\ job' # "erase"
    BY <2>1, <2>2 DEF BeginCheckpoint, report_store_append
  <2> QED
    BY <2>2, <2>3, QuietRefines
<1>4. CASE CheckpointReturns
  <2>1. flash' = flash /\ job' = job
    BY <1>4 DEF CheckpointReturns, storeVars
  <2> QED
    BY <2>1, QuietRefines
<1>5. CASE FinishCheckpointed
  <2>1. flash' = flash /\ job = "none" /\ job' # "erase"
    BY <1>5 DEF FinishCheckpointed, Answered, report_store_finish, storeVars
  <2> QED
    BY <2>1, QuietRefines
<1>6. CASE Finished
  <2>1. flash' = flash /\ job' = job
    BY <1>6 DEF Finished, storeVars
  <2> QED
    BY <2>1, QuietRefines
<1> QED
  BY <1>1, <1>2, <1>3, <1>4, <1>5, <1>6 DEF Foreground

LEMMA EraseRefines ==
  ASSUME IInv, EraseSector
  PROVE  NotebookStep
<1>1. job = "erase" /\ flash' \in {flash, ErasedSector}
  BY DEF EraseSector
<1>2. \A i \in PageNumbers : flash'[i] = flash[i] \/ flash'[i] = Erased
  BY <1>1 DEF ErasedSector
<1>3. flash' \in [PageNumbers -> PageSet]
  <2>1. flash \in [PageNumbers -> PageSet]
    BY DEF IInv, FlashOK
  <2>2. ErasedSector \in [PageNumbers -> PageSet]
    BY <2>1, EmptyPages DEF ErasedSector
  <2> QED
    BY <1>1, <2>1, <2>2
<1>4. /\ Begins(Replayed, Replayed') /\ Replayed' \in Seq(Text) /\ (RunFound' => RunFound)
      /\ SaysComplete' => SaysComplete /\ Replayed' = Replayed
  BY <1>2, <1>3, PagesErased DEF IInv
<1> QED
  BY <1>1, <1>4, PagesTorn

LEMMA StartRefines ==
  ASSUME IInv, WriteStart
  PROVE  NotebookStep
<1>1. /\ job = "start" /\ next = 0 /\ \A i \in PageNumbers : flash[i] = Erased
  BY DEF WriteStart, IInv, JobOK
<1>2. /\ job' = "none"
      /\ flash' = flash \/ \E page \in {Torn, Page("START", 0, <<>>)} : flash' = [flash EXCEPT ![0] = page]
  BY <1>1 DEF WriteStart, Page_written, Page_failed, Return
<1>3. CASE flash' = flash
  BY <1>1, <1>2, <1>3, QuietRefines
<1>4. CASE \E page \in {Torn, Page("START", 0, <<>>)} : flash' = [flash EXCEPT ![0] = page]
  <2>1. ~RunFound /\ Replayed' = <<>> /\ ~SaysComplete'
    BY <1>1, <1>4, FirstPage DEF IInv
  <2>2. Replayed = <<>> /\ ~SaysComplete
    BY <2>1, NoReplay DEF IInv
  <2>3. CASE RunFound'
    BY <1>1, <1>2, <2>1, <2>2, <2>3, RunOpened
  <2>4. CASE ~RunFound'
    BY <1>1, <1>2, <2>1, <2>2, <2>4, NothingShown
  <2> QED
    BY <2>3, <2>4
<1> QED
  BY <1>2, <1>3, <1>4

LEMMA ChunkRefines ==
  ASSUME IInv, WriteChunk
  PROVE  NotebookStep
<1>1. PICK n : n = next
  OBVIOUS
<1>2. job = "append" /\ active /\ job' # "erase"
  BY DEF WriteChunk, Return, IInv, JobOK
<1>3. \/ flash' = flash
      \/ flash' = [flash EXCEPT ![n] = Torn]
      \/ flash' = [flash EXCEPT ![n] = Page("DATA", n, Chunk)]
  BY <1>1 DEF WriteChunk, Page_written, Page_failed
<1>4. RunFound /\ ~SaysComplete
  BY <1>1, <1>2, OpenJournal DEF Opened
<1>5. CASE flash' = flash
  BY <1>2, <1>5, QuietRefines
<1>6. CASE flash' = [flash EXCEPT ![n] = Torn]
  <2>1. RunFound' /\ Replayed' = Replayed /\ ~SaysComplete'
    BY <1>1, <1>2, <1>6, MarkProgrammed
  <2> QED
    BY <1>2, <1>4, <2>1, NothingShown
<1>7. CASE flash' = [flash EXCEPT ![n] = Page("DATA", n, Chunk)]
  <2>1. /\ RunFound' /\ ~SaysComplete' /\ Replayed' = Replayed \o Chunk
        /\ LinesFrom(Replayed', run, 0)
    BY <1>1, <1>2, <1>7, DataProgrammed
  <2> QED
    BY <1>2, <1>4, <2>1, LinesAdded
<1> QED
  BY <1>3, <1>5, <1>6, <1>7

LEMMA EndRefines ==
  ASSUME IInv, WriteEnd
  PROVE  NotebookStep
<1>1. PICK n : n = next
  OBVIOUS
<1>2. job = "finish" /\ active /\ job' = "none"
  BY DEF WriteEnd, Return, IInv, JobOK
<1>3. flash' = flash \/ \E page \in {Torn, Page("END", n, <<>>)} : flash' = [flash EXCEPT ![n] = page]
  BY <1>1 DEF WriteEnd, Page_written, Page_failed
<1>4. RunFound /\ ~SaysComplete
  BY <1>1, <1>2, OpenJournal DEF Opened
<1>5. CASE flash' = flash
  BY <1>2, <1>5, QuietRefines
<1>6. CASE \E page \in {Torn, Page("END", n, <<>>)} : flash' = [flash EXCEPT ![n] = page]
  <2>1. RunFound' /\ Replayed' = Replayed
    BY <1>1, <1>2, <1>6, MarkProgrammed
  <2>2. CASE SaysComplete'
    BY <1>2, <1>4, <2>1, <2>2, RunCompleted
  <2>3. CASE ~SaysComplete'
    BY <1>2, <1>4, <2>1, <2>3, NothingShown
  <2> QED
    BY <2>2, <2>3
<1> QED
  BY <1>3, <1>5, <1>6

LEMMA PowerRefines ==
  ASSUME IInv, PowerCut
  PROVE  NotebookStep
<1>1. LosePower /\ job' = "none"
  BY DEF PowerCut, LosePower
<1>2. CASE /\ Begins(Replayed, Replayed') /\ Replayed' \in Seq(Text)
           /\ SaysComplete' => SaysComplete /\ Replayed' = Replayed
           /\ job = "erase" \/ Replayed' = Replayed
           /\ (job \in {"erase", "start"}) \/ (RunFound' <=> RunFound)
           /\ job = "start" => ~RunFound
           /\ job = "erase" => (RunFound' => RunFound)
           /\ job = "erase" \/ (SaysComplete' <=> SaysComplete)
  <2>1. CASE job = "erase"
    <3>1. (RunFound' => RunFound) /\ (SaysComplete' => SaysComplete)
      BY <1>2, <2>1
    <3> QED
      BY <1>2, <2>1, <3>1, PagesTorn
  <2>2. CASE job = "start"
    <3>1. ~RunFound /\ Replayed' = Replayed /\ (SaysComplete' <=> SaysComplete)
      BY <1>2, <2>2
    <3>2. CASE RunFound'
      BY <1>1, <2>2, <3>1, <3>2, RunOpened
    <3>3. CASE ~RunFound'
      BY <1>1, <2>2, <3>1, <3>3, NothingShown
    <3> QED
      BY <3>2, <3>3
  <2>3. CASE job \notin {"erase", "start"}
    <3>1. Replayed' = Replayed /\ (RunFound' <=> RunFound) /\ (SaysComplete' <=> SaysComplete)
      BY <1>2, <2>3
    <3> QED
      BY <1>1, <2>3, <3>1, NothingShown
  <2> QED
    BY <2>1, <2>2, <2>3
<1>3. CASE /\ job = "append" /\ ~SaysComplete' /\ RunFound' /\ RunFound
           /\ Replayed' = Replayed \o Chunk /\ LinesFrom(Replayed', run, 0)
           /\ ~SaysComplete
  <2>1. job' # "erase"
    BY <1>1
  <2> QED
    BY <1>3, <2>1, LinesAdded
<1>4. CASE /\ job = "finish" /\ SaysComplete' /\ ~SaysComplete /\ RunFound' /\ RunFound
           /\ Replayed' = Replayed
  BY <1>1, <1>4, RunCompleted
<1> QED
  BY <1>1, <1>2, <1>3, <1>4, PowerLeaves

LEMMA NextRefines ==
  ASSUME IInv, [Next]_vars
  PROVE  NotebookStep
<1>1. CASE \E oversized \in BOOLEAN : report_format(oversized)
  <2>1. flash' = flash /\ job' = job
    BY <1>1 DEF report_format, storeVars
  <2> QED
    BY <2>1, QuietRefines
<1>2. CASE Foreground
  BY <1>2, ForegroundRefines
<1>3. CASE StoreRuns
  BY <1>3, EraseRefines, StartRefines, ChunkRefines, EndRefines DEF StoreRuns, StoreStep
<1>4. CASE PowerCut
  BY <1>4, PowerRefines
<1>5. CASE UNCHANGED vars
  <2>1. flash' = flash /\ job' = job
    BY <1>5 DEF vars, storeVars
  <2> QED
    BY <2>1, QuietRefines
<1> QED
  BY <1>1, <1>2, <1>3, <1>4, <1>5 DEF Next

LEMMA InitRefines == Init => Notebook!JournalInit
<1> SUFFICES ASSUME Init PROVE Notebook!JournalInit
  OBVIOUS
<1>1. job = "none" /\ \A i \in PageNumbers : flash[i] = Erased
  BY DEF Init, StoreInit
<1>2. ~RunFound
  BY <1>1, PageCount DEF RunFound, Valid, Erased, Page
<1>3. Replayed = <<>> /\ ~SaysComplete
  BY <1>2, InitHolds, NoReplay DEF IInv
<1>4. Len(Replayed) = 0
  BY <1>3
<1>5. RunFound = FALSE /\ SaysComplete = FALSE /\ (job = "erase") = FALSE
  BY <1>1, <1>2, <1>3
<1> QED
  BY <1>3, <1>4, <1>5 DEF Notebook!JournalInit

(* run_report.c over report_store.c implements the notebook of module Journal: what *)
(* report_store_replay prints is torn out only after an explicit start, grows by    *)
(* the next lines of the run it shows, and is complete at most once, through power  *)
(* cuts and failed writes at every step.                                            *)
THEOREM JournalImplementsNotebook == Spec => JournalKept
<1>1. Init => Notebook!JournalInit
  BY InitRefines
<1>2. IInv /\ [Next]_vars => [Notebook!JournalNext]_<<Notebook!shown, job = "erase">>
  BY NextRefines DEF NotebookStep
<1> QED
  BY <1>1, <1>2, ReportInvariance, PTL DEF Spec, JournalKept, Notebook!JournalSpec
=============================================================================
