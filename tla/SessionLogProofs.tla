-------------------------- MODULE SessionLogProofs --------------------------
(* Theorems about `SessionLog`, for any processes, batches and bounds. *)
EXTENDS SessionLog, SequenceTheorems, FiniteSetTheorems, WellFoundedInduction, TLAPS

-----------------------------------------------------------------------------
(* Facts about the helpers *)

\* A non-empty set of positions up to `n` has a last one.
LEMMA LastPosition ==
  ASSUME NEW n \in Nat, NEW S \in SUBSET (1..n), S # {}
  PROVE  \E i \in S : \A j \in S : j <= i
<1> DEFINE D == {k \in Nat : (n - k) \in S}
<1>1. D # {}
  <2>1. PICK i \in S : TRUE
    OBVIOUS
  <2>2. n - i \in Nat /\ n - (n - i) = i
    BY <2>1
  <2> QED
    BY <2>1, <2>2
<1>2. IsWellFoundedOn({p \in Nat \X Nat : p[1] < p[2]}, Nat)
  BY NatLessThanWellFounded DEF OpToRel
<1>. DEFINE R == {p \in Nat \X Nat : p[1] < p[2]}
<1>a. \E k \in D : \A j \in D : ~ (<<j, k>> \in R)
  <2>. HIDE DEF D, R
  <2>1. D \subseteq Nat
    BY DEF D
  <2> QED
    BY <1>1, <1>2, <2>1, WFMin DEF R
<1>3. PICK k \in D : \A j \in D : ~ (j < k)
  BY <1>a
<1>4. \A j \in S : j <= n - k
  <2> TAKE j \in S
  <2>1. n - j \in Nat /\ n - (n - j) = j
    OBVIOUS
  <2>2. n - j \in D
    BY <2>1
  <2> QED
    BY <1>3, <2>2
<1> QED
  BY <1>3, <1>4

\* The readable lines of a log are among its positions.
LEMMA ReadableLines ==
  ASSUME log \in Seq(Line)
  PROVE  \A i \in Readable(log) : i \in 1..Len(log) /\ log[i].seq \in Nat
<1>1. \A i \in 1..Len(log) : log[i] \in Line
  BY ElementOfSeq
<1>2. \A l \in Line : l.seq \in Nat
  BY DEF Line
<1> QED
  BY <1>1, <1>2 DEF Readable

\* A sequence without its last element.
LEMMA FrontOfSeq ==
  ASSUME NEW S, NEW s \in Seq(S), s # <<>>
  PROVE  /\ SubSeq(s, 1, Len(s) - 1) \in Seq(S)
         /\ Len(SubSeq(s, 1, Len(s) - 1)) = Len(s) - 1
         /\ \A i \in 1..(Len(s) - 1) : SubSeq(s, 1, Len(s) - 1)[i] = s[i]
<1> DEFINE n == Len(s) - 1
<1>1. n \in Nat /\ n + 1 = Len(s)
  BY EmptySeq
<1>2. \A i \in 1..n : s[i] \in S
  BY <1>1, ElementOfSeq
<1> HIDE DEF n
<1>3. /\ SubSeq(s, 1, n) \in Seq(S)
      /\ Len(SubSeq(s, 1, n)) = IF 1 <= n THEN n - 1 + 1 ELSE 0
      /\ \A i \in 1..(n - 1 + 1) : SubSeq(s, 1, n)[i] = s[1 + i - 1]
  BY <1>1, <1>2, SubSeqProperties
<1>4. Len(SubSeq(s, 1, n)) = n
  BY <1>1, <1>3
<1>5. \A i \in 1..n : SubSeq(s, 1, n)[i] = s[i]
  BY <1>1, <1>3
<1> QED
  BY <1>3, <1>4, <1>5 DEF n

(***************************************************************************)
(* `t` written onto the unfinished last line of `s`: the two lines that    *)
(* meet become `e`.                                                        *)
(***************************************************************************)
LEMMA Merged ==
  ASSUME NEW S, NEW s \in Seq(S), s # <<>>, NEW e \in S,
         NEW t \in Seq(S), t # <<>>
  PROVE  LET m == SubSeq(s, 1, Len(s) - 1) \o <<e>> \o Tail(t)
         IN  /\ m \in Seq(S)
             /\ Len(m) = Len(s) + Len(t) - 1
             /\ \A i \in 1..Len(s) : m[i] \in {s[i], e}
             /\ \A i \in 1..(Len(s) - 1) : m[i] = s[i]
             /\ \A i \in (Len(s) + 1)..Len(m) : m[i] = t[i - Len(s) + 1]
<1> DEFINE front == SubSeq(s, 1, Len(s) - 1)
           mid == front \o <<e>>
           m == mid \o Tail(t)
<1>1. /\ Len(s) \in Nat \ {0} /\ Len(t) \in Nat \ {0}
  BY EmptySeq
<1>2. /\ front \in Seq(S) /\ Len(front) = Len(s) - 1
      /\ \A i \in 1..(Len(s) - 1) : front[i] = s[i]
  BY FrontOfSeq
<1>3. /\ Tail(t) \in Seq(S) /\ Len(Tail(t)) = Len(t) - 1
      /\ \A i \in 1..(Len(t) - 1) : Tail(t)[i] = t[i + 1]
  BY HeadTailProperties
<1>4. <<e>> \in Seq(S) /\ Len(<<e>>) = 1 /\ <<e>>[1] = e
  OBVIOUS
<1> HIDE DEF front
<1>6. /\ mid \in Seq(S) /\ Len(mid) = Len(front) + 1
      /\ \A i \in 1..(Len(front) + 1) :
           mid[i] = IF i <= Len(front) THEN front[i] ELSE <<e>>[i - Len(front)]
  BY <1>2, <1>4, ConcatProperties
<1> HIDE DEF mid
<1>7. /\ Len(mid) = Len(s) /\ \A i \in 1..Len(s) : mid[i] \in {s[i], e}
      /\ \A i \in 1..(Len(s) - 1) : mid[i] = s[i]
  BY <1>1, <1>2, <1>4, <1>6
<1>a. mid \in Seq(S) /\ Tail(t) \in Seq(S)
  BY <1>3, <1>6
<1>8. /\ m \in Seq(S) /\ Len(m) = Len(mid) + Len(Tail(t))
      /\ \A i \in 1..(Len(mid) + Len(Tail(t))) :
           m[i] = IF i <= Len(mid) THEN mid[i] ELSE Tail(t)[i - Len(mid)]
  BY <1>a, ConcatProperties
<1> HIDE DEF m
<1>9. Len(m) = Len(s) + Len(t) - 1
  BY <1>1, <1>3, <1>7, <1>8
<1>b. Len(mid) \in Nat /\ Len(Tail(t)) \in Nat /\ Len(mid) = Len(s)
  BY <1>1, <1>3, <1>7
<1>10. ASSUME NEW i \in 1..Len(s)
       PROVE  m[i] = mid[i]
  <2>1. i <= Len(mid) /\ i \in 1..(Len(mid) + Len(Tail(t)))
    BY <1>b
  <2> QED
    BY <1>8, <2>1
<1>11. ASSUME NEW i \in (Len(s) + 1)..Len(m)
       PROVE  m[i] = t[i - Len(s) + 1]
  <2>1. i - Len(s) \in 1..(Len(t) - 1)
    BY <1>1, <1>9
  <2>2. m[i] = Tail(t)[i - Len(s)]
    BY <1>1, <1>3, <1>7, <1>8, <1>9
  <2> QED
    BY <1>3, <2>1, <2>2
<1>12. \A i \in 1..(Len(s) - 1) : m[i] = s[i]
  <2>1. \A i \in 1..(Len(s) - 1) : i \in 1..Len(s)
    BY <1>1
  <2> QED
    BY <1>7, <1>10, <2>1
<1> QED
  BY <1>7, <1>8, <1>9, <1>10, <1>11, <1>12 DEF m, mid, front

\* In a log whose numbers increase, the last number is the largest.
LEMMA LatestIsLargest ==
  ASSUME log \in Seq(Line), SeqsIncrease
  PROVE  /\ LatestSeq(log) \in Nat
         /\ \A i \in Readable(log) : log[i].seq <= LatestSeq(log)
<1>1. CASE Readable(log) = {}
  BY <1>1 DEF LatestSeq
<1>2. CASE Readable(log) # {}
  <2> DEFINE IsLast(i) == i \in Readable(log) /\ \A j \in Readable(log) : j <= i
             k == CHOOSE i \in Readable(log) : \A j \in Readable(log) : j <= i
  <2>1. \E i \in Readable(log) : \A j \in Readable(log) : j <= i
    <3>1. Readable(log) \in SUBSET (1..Len(log)) /\ Len(log) \in Nat
      BY DEF Readable
    <3> QED
      BY <1>2, <3>1, LastPosition
  <2>2. k \in Readable(log) /\ \A j \in Readable(log) : j <= k
    BY <2>1
  <2>3. LatestSeq(log) = log[k].seq
    BY <1>2 DEF LatestSeq
  <2>4. \A i \in Readable(log) : i \in 1..Len(log) /\ log[i].seq \in Nat
    BY ReadableLines
  <2> HIDE DEF k
  <2>5. ASSUME NEW i \in Readable(log) PROVE log[i].seq <= log[k].seq
    <3>1. CASE i = k
      BY <3>1, <2>4
    <3>2. CASE i < k
      BY <3>2, <2>2, <2>4 DEF SeqsIncrease
    <3> QED
      BY <2>2, <2>4, <3>1, <3>2
  <2> QED
    BY <2>2, <2>3, <2>4, <2>5
<1> QED
  BY <1>1, <1>2

(***************************************************************************)
(* What writing does to the lines: an old line stays, or becomes a         *)
(* fragment; a line past the old end is one of the new ones, shifted by at *)
(* most one.                                                               *)
(***************************************************************************)
LEMMA WrittenLines ==
  ASSUME log \in Seq(Line), open => log # <<>>,
         NEW new \in Seq(Line)
  PROVE  /\ Written(new) \in Seq(Line)
         /\ \E d \in 0..1 :
              /\ Len(Written(new)) = Len(log) + Len(new) - d
              /\ Len(Written(new)) >= Len(log)
              /\ \A i \in 1..Len(log) : Written(new)[i] \in {log[i], Fragment}
              /\ \A i \in (Len(log) + 1)..Len(Written(new)) :
                   Written(new)[i] = new[i - Len(log) + d]
<1> DEFINE W == Written(new)
<1>0. Fragment \in Line
  BY DEF Fragment, Line, Body, Plain
<1>1. CASE open /\ new # <<>>
  <2>1. W = SubSeq(log, 1, Len(log) - 1) \o <<Fragment>> \o Tail(new)
    BY <1>1 DEF Written
  <2> HIDE DEF W
  <2>2. log # <<>> /\ new # <<>>
    BY <1>1
  <2>3. /\ W \in Seq(Line)
        /\ Len(W) = Len(log) + Len(new) - 1
        /\ \A i \in 1..Len(log) : W[i] \in {log[i], Fragment}
        /\ \A i \in (Len(log) + 1)..Len(W) : W[i] = new[i - Len(log) + 1]
    BY <1>0, <2>1, <2>2, Merged
  <2>4. Len(log) \in Nat \ {0} /\ Len(new) \in Nat \ {0}
    BY <2>2, EmptySeq
  <2>5. 1 \in 0..1 /\ Len(W) >= Len(log)
    BY <2>3, <2>4
  <2> QED
    BY <2>3, <2>5 DEF W
<1>2. CASE ~ (open /\ new # <<>>)
  <2>1. W = log \o new
    BY <1>2 DEF Written
  <2> HIDE DEF W
  <2>2. /\ W \in Seq(Line)
        /\ Len(W) = Len(log) + Len(new)
        /\ \A i \in 1..Len(log) + Len(new) :
             W[i] = IF i <= Len(log) THEN log[i] ELSE new[i - Len(log)]
    BY <2>1, ConcatProperties
  <2>3. Len(log) \in Nat /\ Len(new) \in Nat
    BY EmptySeq
  <2>4. \A i \in 1..Len(log) : W[i] \in {log[i], Fragment}
    BY <2>2, <2>3
  <2>5. \A i \in (Len(log) + 1)..Len(W) : W[i] = new[i - Len(log) + 0]
    BY <2>2, <2>3
  <2>6. 0 \in 0..1 /\ Len(W) = Len(log) + Len(new) - 0 /\ Len(W) >= Len(log)
    BY <2>2, <2>3
  <2> QED
    BY <2>2, <2>4, <2>5, <2>6 DEF W
<1> QED
  BY <1>1, <1>2

(***************************************************************************)
(* Writing lines numbered from `lo` on, in order, some perhaps fragments,  *)
(* to a log that is below `lo` keeps the log in order and within `hi`.     *)
(***************************************************************************)
LEMMA WrittenInOrder ==
  ASSUME log \in Seq(Line), open => log # <<>>, SeqsIncrease,
         NEW lo \in Nat, NEW hi \in Nat, NEW new \in Seq(Line),
         \A i \in Readable(log) : log[i].seq < lo,
         lo + Len(new) - 1 <= hi,
         \A i \in 1..Len(new) : new[i].ok => new[i].seq = lo + i - 1,
         lo <= hi + 1
  PROVE  /\ \A i, j \in Readable(Written(new)) :
              i < j => Written(new)[i].seq < Written(new)[j].seq
         /\ \A i \in Readable(Written(new)) : Written(new)[i].seq <= hi
<1> DEFINE W == Written(new)
<1>1. PICK d \in 0..1 :
        /\ Len(W) = Len(log) + Len(new) - d
        /\ Len(W) >= Len(log)
        /\ \A i \in 1..Len(log) : W[i] \in {log[i], Fragment}
        /\ \A i \in (Len(log) + 1)..Len(W) : W[i] = new[i - Len(log) + d]
  BY WrittenLines
<1> HIDE DEF W
<1>2. Len(log) \in Nat /\ Len(new) \in Nat /\ Len(W) \in Nat /\ d \in Int
  <2>1. Len(log) \in Nat /\ Len(new) \in Nat
    BY EmptySeq
  <2> QED
    BY <1>1, <2>1
<1>3. \A i \in Readable(W) : i \in 1..Len(W) /\ W[i].ok
  BY DEF Readable
<1>4. \A i \in Readable(log) : log[i].seq \in Nat
  BY ReadableLines
<1>5. ASSUME NEW i \in Readable(W), i <= Len(log)
      PROVE  i \in Readable(log) /\ W[i] = log[i]
  <2>1. i \in 1..Len(log)
    BY <1>2, <1>3, <1>5
  <2>2. W[i] # Fragment
    BY <1>3 DEF Fragment
  <2>3. W[i] = log[i]
    BY <1>1, <2>1, <2>2
  <2> QED
    BY <1>3, <2>1, <2>3 DEF Readable
<1>6. ASSUME NEW i \in Readable(W), i > Len(log)
      PROVE  /\ W[i].seq = lo + (i - Len(log) + d) - 1
             /\ i - Len(log) + d \in 1..Len(new)
             /\ i \in Int
  <2>1. i \in 1..Len(W)
    BY <1>3
  <2>2. i \in (Len(log) + 1)..Len(W) /\ i - Len(log) + d \in 1..Len(new)
    BY <1>1, <1>2, <1>6, <2>1
  <2>3. W[i] = new[i - Len(log) + d]
    BY <1>1, <2>2
  <2> QED
    BY <1>3, <2>1, <2>2, <2>3
<1>7. ASSUME NEW i \in Readable(W), NEW j \in Readable(W), i < j
      PROVE  W[i].seq < W[j].seq
  <2>0. i \in Int /\ j \in Int
    BY <1>3
  <2>1. CASE j <= Len(log)
    <3>1. i <= Len(log)
      BY <1>2, <1>7, <2>0, <2>1
    <3> QED
      BY <1>5, <1>7, <2>1, <3>1 DEF SeqsIncrease
  <2>2. CASE i <= Len(log) /\ j > Len(log)
    <3>1. W[i].seq \in Nat /\ W[i].seq < lo
      BY <1>4, <1>5, <2>2
    <3>2. W[j].seq >= lo
      BY <1>2, <1>6, <2>0, <2>2
    <3>3. W[j].seq \in Int
      BY <1>2, <1>6, <2>0, <2>2
    <3> QED
      BY <3>1, <3>2, <3>3
  <2>3. CASE i > Len(log)
    <3>1. j > Len(log)
      BY <1>2, <1>7, <2>0, <2>3
    <3>2. /\ W[i].seq = lo + (i - Len(log) + d) - 1
          /\ W[j].seq = lo + (j - Len(log) + d) - 1
      BY <1>6, <2>3, <3>1
    <3> QED
      BY <1>2, <1>7, <2>0, <3>2
  <2> QED
    BY <1>2, <1>7, <2>0, <2>1, <2>2, <2>3
<1>8. ASSUME NEW i \in Readable(W) PROVE W[i].seq <= hi
  <2>0. i \in Int
    BY <1>3
  <2>1. CASE i <= Len(log)
    <3>1. W[i].seq \in Nat /\ W[i].seq < lo
      BY <1>4, <1>5, <2>1
    <3> QED
      BY <3>1
  <2>2. CASE i > Len(log)
    <3>1. /\ W[i].seq = lo + (i - Len(log) + d) - 1
          /\ i - Len(log) + d \in 1..Len(new)
      BY <1>6, <2>2
    <3> QED
      BY <1>2, <2>0, <3>1
  <2> QED
    BY <1>2, <2>0, <2>1, <2>2
<1> QED
  BY <1>7, <1>8 DEF W

-----------------------------------------------------------------------------
(* The invariant *)

(***************************************************************************)
(* The order of the lines is inductive only together with who may write    *)
(* (OneWriter) and what that process was promised (ReservationsAreFresh);  *)
(* the promise can be made because the counter covers the log.             *)
(***************************************************************************)
IInv == /\ TypeOK
        /\ SeqsIncrease
        /\ CounterCoversLog
        /\ OneWriter
        /\ ReservationsAreFresh

\* The buffer holds one line per event, numbered from `first[p]`.
LEMMA BufferLines ==
  ASSUME TypeOK, NEW p \in Proc
  PROVE  /\ Buffer(p) \in Seq(Line)
         /\ Len(Buffer(p)) = Len(job[p])
         /\ \A i \in 1..Len(job[p]) : /\ Buffer(p)[i] \in Line
                                      /\ Buffer(p)[i].seq = first[p] + i - 1
<1> DEFINE n == Len(job[p])
<1>1. job[p] \in Seq(Body) /\ n \in Nat /\ first[p] \in Nat
  <2>1. job[p] \in Seq(Body) /\ first[p] \in Nat
    BY DEF TypeOK
  <2> QED
    BY <2>1, EmptySeq
<1>2. \A i \in 1..n : job[p][i] \in Body
  BY <1>1, ElementOfSeq
<1>3. \A i \in 1..n : first[p] + i - 1 \in Nat
  BY <1>1
<1>4. \A s \in Nat, b \in Body : Event(s, b) \in Line /\ Event(s, b).seq = s
  BY DEF Event, Line
<1>5. Buffer(p) = [i \in 1..n |-> Event(first[p] + i - 1, job[p][i])]
  BY DEF Buffer
<1> HIDE DEF n
<1>6. \A i \in 1..n : /\ Buffer(p)[i] \in Line
                      /\ Buffer(p)[i].seq = first[p] + i - 1
  BY <1>2, <1>3, <1>4, <1>5
<1>7. Buffer(p) \in [1..n -> Line]
  BY <1>2, <1>3, <1>4, <1>5
<1>8. Buffer(p) \in Seq(Line) /\ Len(Buffer(p)) = n
  BY <1>1, <1>7
<1> QED
  BY <1>6, <1>8 DEF n

\* What the sidecar, or without it the log, vouches for covers every line.
LEMMA ReservedLastCovers ==
  ASSUME TypeOK, SeqsIncrease, CounterCoversLog
  PROVE  /\ ReservedLast \in Nat
         /\ \A i \in Readable(log) : log[i].seq <= ReservedLast
<1>1. log \in Seq(Line) /\ counter \in Nat \cup {Missing}
  BY DEF TypeOK
<1>2. CASE counter = Missing
  BY <1>1, <1>2, LatestIsLargest DEF ReservedLast
<1>3. CASE counter # Missing
  BY <1>1, <1>3 DEF ReservedLast, CounterCoversLog
<1> QED
  BY <1>2, <1>3

\* A new or an older build's log satisfies the inductive invariant.
LEMMA InitIInv == Init => IInv
<1> SUFFICES ASSUME Init PROVE IInv
  OBVIOUS
<1>1. PICK n \in 0..MaxOld :
        log \in [1..n -> {Event(i, Plain) : i \in 1..MaxOld} \cup {Fragment}]
  BY DEF Init
<1>2. n \in Nat /\ MaxOld \in Nat
  BY MaxOldAssumption
<1>3. {Event(i, Plain) : i \in 1..MaxOld} \cup {Fragment} \subseteq Line
  <2>1. Fragment \in Line /\ Plain \in Body
    BY DEF Fragment, Line, Body, Plain
  <2>2. \A i \in 1..MaxOld : Event(i, Plain) \in Line
    BY <2>1 DEF Event, Line
  <2> QED
    BY <2>1, <2>2
<1>4. log \in [1..n -> Line]
  BY <1>1, <1>3
<1>5. log \in Seq(Line) /\ Len(log) = n
  BY <1>2, <1>4
<1>6. ASSUME NEW i \in Readable(log) PROVE i \in 1..n /\ log[i].seq = i
  <2>1. i \in 1..Len(log) /\ log[i].ok
    BY DEF Readable
  <2>2. log[i] \in {Event(i, Plain), Fragment}
    BY <2>1 DEF Init, OldLog
  <2>3. log[i] = Event(i, Plain)
    BY <2>1, <2>2 DEF Fragment
  <2> QED
    BY <1>5, <2>1, <2>3 DEF Event
<1>7. SeqsIncrease
  BY <1>2, <1>6 DEF SeqsIncrease
<1>8. CounterCoversLog /\ OneWriter /\ ReservationsAreFresh
  BY DEF Init, CounterCoversLog, OneWriter, ReservationsAreFresh
<1>9. acked \in SUBSET Nat
  <2>1. \A i \in Readable(log) : log[i].seq \in Nat
    BY <1>2, <1>6
  <2> QED
    BY <2>1 DEF Init
<1>10. open \in BOOLEAN /\ (open => log # <<>>)
  BY DEF Init
<1>11. tears \in 0..MaxTears
  BY MaxTearsAssumption DEF Init
<1>12. job \in [Proc -> Seq(Body)] /\ first \in [Proc -> Nat]
  <2>1. <<>> \in Seq(Body)
    BY EmptySeq
  <2> QED
    BY <2>1 DEF Init
<1>13. TypeOK
  <2>1. counter = Missing /\ lock = {} /\ points = {}
    BY DEF Init
  <2>2. pc \in [Proc -> {"idle", "waiting", "locked", "reserved"}]
    BY DEF Init
  <2> QED
    BY <1>5, <1>9, <1>10, <1>11, <1>12, <2>1, <2>2 DEF TypeOK
<1> QED
  BY <1>7, <1>8, <1>13 DEF IInv

\* A step that neither reserves nor writes: only who waits or writes changes.
LEMMA QuietStep ==
  ASSUME IInv, TypeOK',
         UNCHANGED <<counter, log>>,
         OneWriter',
         \A p \in Proc : pc'[p] = "reserved" =>
           pc[p] = "reserved" /\ UNCHANGED <<first[p], job[p]>>
  PROVE  IInv'
<1>1. SeqsIncrease' /\ CounterCoversLog'
  BY DEF IInv, SeqsIncrease, CounterCoversLog, Readable
<1>2. ReservationsAreFresh'
  BY DEF IInv, ReservationsAreFresh, Readable
<1> QED
  BY <1>1, <1>2 DEF IInv

\* Giving the flock back, or giving up waiting for it.
LEMMA ReleaseKeepsOneWriter ==
  ASSUME TypeOK, OneWriter, NEW p \in Proc, Release(p)
  PROVE  /\ OneWriter'
         /\ pc' \in [Proc -> {"idle", "waiting", "locked", "reserved"}]
         /\ lock' \in SUBSET Proc
         /\ job' \in [Proc -> Seq(Body)]
         /\ first' \in [Proc -> Nat]
         /\ \A q \in Proc : pc'[q] = "reserved" =>
              q # p /\ pc[q] = "reserved" /\ UNCHANGED <<first[q], job[q]>>
<1>1. <<>> \in Seq(Body) /\ 0 \in Nat
  BY EmptySeq
<1>2. /\ pc \in [Proc -> {"idle", "waiting", "locked", "reserved"}]
      /\ lock \in SUBSET Proc
      /\ job \in [Proc -> Seq(Body)]
      /\ first \in [Proc -> Nat]
  BY DEF TypeOK
<1>3. job' \in [Proc -> Seq(Body)] /\ first' \in [Proc -> Nat]
  BY <1>1, <1>2 DEF Release
<1>4. pc' \in [Proc -> {"idle", "waiting", "locked", "reserved"}]
  BY <1>2 DEF Release
<1>5. \A q \in Proc : pc'[q] = IF q = p THEN "idle" ELSE pc[q]
  BY <1>2 DEF Release
<1>6. lock' = lock \ {p}
  BY DEF Release
<1>7. OneWriter'
  BY <1>5, <1>6 DEF OneWriter
<1>8. \A q \in Proc : q # p => UNCHANGED <<first[q], job[q]>>
  BY <1>2 DEF Release
<1> QED
  BY <1>2, <1>3, <1>4, <1>5, <1>6, <1>7, <1>8

(***************************************************************************)
(* Writing any part of a reserved buffer, whole lines or fragments, then   *)
(* giving the flock back.                                                  *)
(***************************************************************************)
LEMMA WriteStep ==
  ASSUME IInv, NEW p \in Proc, pc[p] = "reserved",
         NEW new \in Seq(Line), Len(new) <= Len(job[p]),
         \A i \in 1..Len(new) : new[i] \in {Buffer(p)[i], Fragment},
         log' = Written(new), UNCHANGED counter, Release(p)
  PROVE  log' \in Seq(Line) /\ SeqsIncrease' /\ CounterCoversLog'
         /\ OneWriter' /\ ReservationsAreFresh'
<1>1. /\ log \in Seq(Line) /\ (open => log # <<>>)
      /\ SeqsIncrease /\ OneWriter /\ TypeOK
      /\ first[p] \in Nat
      /\ Len(job[p]) \in Nat
  <2>1. first[p] \in Nat /\ job[p] \in Seq(Body)
    BY DEF IInv, TypeOK
  <2> QED
    BY <2>1, EmptySeq DEF IInv, TypeOK
<1>2. /\ counter = first[p] + Len(job[p]) - 1
      /\ counter # Missing
      /\ \A i \in Readable(log) : log[i].seq < first[p]
  BY DEF IInv, ReservationsAreFresh
<1>3. counter \in Nat
  BY <1>2 DEF IInv, TypeOK
<1>4. \A i \in 1..Len(new) : new[i].ok => new[i].seq = first[p] + i - 1
  <2>1. Len(new) \in Nat
    BY EmptySeq
  <2>2. \A i \in 1..Len(new) : i \in 1..Len(job[p])
    BY <1>1, <2>1
  <2>3. \A i \in 1..Len(new) : Buffer(p)[i].seq = first[p] + i - 1
    BY <1>1, <2>2, BufferLines
  <2> QED
    BY <2>3 DEF Fragment
<1>5. Len(new) \in Nat
  BY EmptySeq
<1>6. first[p] + Len(new) - 1 <= counter /\ first[p] <= counter + 1
  BY <1>1, <1>2, <1>3, <1>5
<1>7. /\ \A i, j \in Readable(Written(new)) :
           i < j => Written(new)[i].seq < Written(new)[j].seq
      /\ \A i \in Readable(Written(new)) : Written(new)[i].seq <= counter
  BY <1>1, <1>2, <1>3, <1>4, <1>6, WrittenInOrder
<1>8. log' \in Seq(Line)
  BY <1>1, WrittenLines
<1>10. SeqsIncrease'
  BY <1>7 DEF SeqsIncrease, Readable
<1>11. CounterCoversLog'
  <2>1. \A i \in Readable(log)' : log'[i].seq <= counter
    BY <1>7 DEF Readable
  <2> QED
    BY <2>1 DEF CounterCoversLog
<1>12. OneWriter' /\ \A q \in Proc : pc'[q] # "reserved"
  <2>1. /\ OneWriter'
        /\ \A q \in Proc : pc'[q] = "reserved" => q # p /\ pc[q] = "reserved"
    BY <1>1, ReleaseKeepsOneWriter
  <2>2. \A q \in Proc : pc[q] = "reserved" => q = p
    BY <1>1 DEF OneWriter
  <2> QED
    BY <2>1, <2>2
<1>13. ReservationsAreFresh'
  BY <1>12 DEF ReservationsAreFresh
<1> QED
  BY <1>8, <1>10, <1>11, <1>12, <1>13

\* A write that is cut short leaves a part of the buffer behind, its last
\* line perhaps a fragment.
LEMMA TornLines ==
  ASSUME TypeOK, NEW p \in Proc, TornWrite(p)
  PROVE  \E new \in Seq(Line) :
           /\ Len(new) <= Len(job[p])
           /\ \A i \in 1..Len(new) : new[i] \in {Buffer(p)[i], Fragment}
           /\ log' = Written(new)
           /\ open' \in BOOLEAN
           /\ open' => (open \/ new # <<>>)
<1>1. /\ Buffer(p) \in Seq(Line) /\ Len(Buffer(p)) = Len(job[p])
      /\ \A i \in 1..Len(job[p]) : /\ Buffer(p)[i] \in Line
                                   /\ Buffer(p)[i].seq = first[p] + i - 1
  BY BufferLines
<1>2. Len(job[p]) \in Nat
  BY <1>1, EmptySeq
<1>3. PICK n \in 0..(Len(job[p]) - 1) :
        LET whole == SubSeq(Buffer(p), 1, n) IN
          \/ /\ log' = Written(whole)
             /\ open' = (open /\ n = 0)
          \/ \E rest \in {Fragment, Buffer(p)[n + 1]} :
               /\ log' = Written(Append(whole, rest))
               /\ open' = TRUE
  BY DEF TornWrite
<1> DEFINE whole == SubSeq(Buffer(p), 1, n)
<1>4. n \in Nat /\ n + 1 <= Len(job[p])
  BY <1>2
<1>5. /\ whole \in Seq(Line) /\ Len(whole) = n
      /\ \A i \in 1..n : whole[i] = Buffer(p)[i]
  <2>1. \A i \in 1..n : Buffer(p)[i] \in Line
    BY <1>1, <1>2, <1>4
  <2>2. /\ whole \in Seq(Line)
        /\ Len(whole) = IF 1 <= n THEN n - 1 + 1 ELSE 0
        /\ \A i \in 1..(n - 1 + 1) : whole[i] = Buffer(p)[1 + i - 1]
    BY <1>4, <2>1, SubSeqProperties
  <2> HIDE DEF whole
  <2> QED
    BY <1>4, <2>2
<1> HIDE DEF whole
<1> QED
  <2>1. CASE log' = Written(whole) /\ open' = (open /\ n = 0)
    <3>1. Len(whole) <= Len(job[p])
      BY <1>2, <1>4, <1>5
    <3>2. \A i \in 1..Len(whole) : whole[i] \in {Buffer(p)[i], Fragment}
      BY <1>5
    <3>3. open' \in BOOLEAN /\ (open' => open)
      BY <2>1
    <3> QED
      BY <1>5, <2>1, <3>1, <3>2, <3>3
  <2>2. CASE \E rest \in {Fragment, Buffer(p)[n + 1]} :
               log' = Written(Append(whole, rest)) /\ open' = TRUE
    <3>1. PICK rest \in {Fragment, Buffer(p)[n + 1]} :
            log' = Written(Append(whole, rest)) /\ open' = TRUE
      BY <2>2
    <3>2. Fragment \in Line
      BY DEF Fragment, Line, Body, Plain
    <3>3. rest \in Line
      BY <1>1, <1>2, <1>4, <3>2
    <3>4. /\ Append(whole, rest) \in Seq(Line)
          /\ Append(whole, rest) # <<>>
          /\ Len(Append(whole, rest)) = n + 1
          /\ \A i \in 1..n : Append(whole, rest)[i] = whole[i]
          /\ Append(whole, rest)[n + 1] = rest
      BY <1>5, <3>3, AppendProperties
    <3>5. \A i \in 1..(n + 1) : Append(whole, rest)[i] \in {Buffer(p)[i], Fragment}
      <4> TAKE i \in 1..(n + 1)
      <4>1. CASE i = n + 1
        BY <3>4, <4>1
      <4>2. CASE i \in 1..n
        BY <1>5, <3>4, <4>2
      <4>3. i = n + 1 \/ i \in 1..n
        BY <1>4
      <4> QED
        BY <4>1, <4>2, <4>3
    <3> QED
      BY <1>4, <3>1, <3>4, <3>5
  <2> QED
    BY <1>3, <2>1, <2>2 DEF whole

\* Every step of every process preserves the inductive invariant.
LEMMA NextIInv == IInv /\ [Next]_vars => IInv'
<1> SUFFICES ASSUME IInv, [Next]_vars PROVE IInv'
  OBVIOUS
<1>0. /\ TypeOK /\ SeqsIncrease /\ CounterCoversLog
      /\ OneWriter /\ ReservationsAreFresh
  BY DEF IInv
<1>1. ASSUME NEW p \in Proc, AppendEvents(p) \/ Rewind(p) PROVE IInv'
  <2>1. PICK bodies \in Seq(Body) : Request(p, bodies)
    <3>1. CASE AppendEvents(p)
      <4>1. PICK n \in 1..MaxBatch : Request(p, [i \in 1..n |-> Plain])
        BY <3>1 DEF AppendEvents
      <4>2. n \in Nat /\ Plain \in Body
        BY MaxBatchAssumption DEF Body
      <4>3. [i \in 1..n |-> Plain] \in Seq(Body)
        BY <4>2
      <4> QED
        BY <4>1, <4>3
    <3>2. CASE Rewind(p)
      <4>1. PICK through \in points : Request(p, <<through>>)
        BY <3>2 DEF Rewind
      <4>2. through \in Body
        BY <1>0 DEF TypeOK, Body
      <4>3. <<through>> \in Seq(Body)
        BY <4>2
      <4> QED
        BY <4>1, <4>3
    <3> QED
      BY <1>1, <3>1, <3>2
  <2>2. /\ pc' \in [Proc -> {"idle", "waiting", "locked", "reserved"}]
        /\ job' \in [Proc -> Seq(Body)]
    BY <1>0, <2>1 DEF TypeOK, Request
  <2>3. TypeOK'
    BY <1>0, <2>1, <2>2 DEF TypeOK, Request
  <2>4. \A q \in Proc : /\ q # p => pc'[q] = pc[q] /\ UNCHANGED job[q]
                        /\ pc[p] = "idle" /\ pc'[p] = "waiting"
    BY <1>0, <2>1 DEF TypeOK, Request
  <2>5. OneWriter'
    BY <1>0, <2>1, <2>4 DEF OneWriter, Request
  <2>6. UNCHANGED <<counter, log, first>>
    BY <2>1 DEF Request
  <2> QED
    BY <2>3, <2>4, <2>5, <2>6, QuietStep
<1>2. ASSUME NEW p \in Proc, Acquire(p) PROVE IInv'
  <2>1. pc' \in [Proc -> {"idle", "waiting", "locked", "reserved"}]
    BY <1>0, <1>2 DEF TypeOK, Acquire
  <2>2. TypeOK'
    BY <1>0, <1>2, <2>1 DEF TypeOK, Acquire
  <2>3. \A q \in Proc : pc'[q] = IF q = p THEN "locked" ELSE pc[q]
    BY <1>0, <1>2 DEF TypeOK, Acquire
  <2>4. OneWriter'
    BY <1>0, <1>2, <2>3 DEF OneWriter, Acquire
  <2>5. UNCHANGED <<counter, log, first, job>>
    BY <1>2 DEF Acquire
  <2> QED
    BY <2>2, <2>3, <2>4, <2>5, QuietStep
<1>3. ASSUME NEW p \in Proc, Reserve(p) PROVE IInv'
  <2>1. /\ ReservedLast \in Nat
        /\ \A i \in Readable(log) : log[i].seq <= ReservedLast
    BY <1>0, ReservedLastCovers
  <2>2. job[p] \in Seq(Body) /\ Len(job[p]) \in Nat
    <3>1. job[p] \in Seq(Body)
      BY <1>0 DEF TypeOK
    <3> QED
      BY <3>1, EmptySeq
  <2>3. /\ counter' = ReservedLast + Len(job[p])
        /\ counter' \in Nat
        /\ first' \in [Proc -> Nat]
        /\ first'[p] = ReservedLast + 1
        /\ UNCHANGED <<log, job, lock>>
    BY <1>0, <1>3, <2>1, <2>2 DEF TypeOK, Reserve
  <2>4. \A q \in Proc : pc'[q] = IF q = p THEN "reserved" ELSE pc[q]
    BY <1>0, <1>3 DEF TypeOK, Reserve
  <2>5. pc' \in [Proc -> {"idle", "waiting", "locked", "reserved"}]
    BY <1>0, <1>3 DEF TypeOK, Reserve
  <2>6. TypeOK'
    BY <1>0, <1>3, <2>3, <2>5 DEF TypeOK, Reserve
  <2>7. SeqsIncrease'
    BY <1>0, <2>3 DEF SeqsIncrease, Readable
  <2>8. \A i \in Readable(log) : log[i].seq \in Nat
    BY <1>0, ReadableLines DEF TypeOK
  <2>9. CounterCoversLog'
    BY <2>1, <2>2, <2>3, <2>8 DEF CounterCoversLog, Readable
  <2>10. \A q \in Proc : pc'[q] = "reserved" => q = p
    BY <1>0, <1>3, <2>4 DEF OneWriter, Reserve
  <2>11. OneWriter'
    BY <1>0, <1>3, <2>3, <2>4 DEF OneWriter, Reserve
  <2>12. ReservationsAreFresh'
    <3>1. counter' # Missing
      BY <2>3 DEF Missing
    <3>2. counter' = first'[p] + Len(job'[p]) - 1
      <4>1. Len(job'[p]) = Len(job[p])
        BY <2>3
      <4>2. /\ counter' = ReservedLast + Len(job[p])
            /\ first'[p] = ReservedLast + 1
        BY <2>3
      <4>3. \A a, b \in Nat : a + b = (a + 1) + b - 1
        OBVIOUS
      <4> QED
        BY <2>1, <2>2, <4>1, <4>2, <4>3
    <3>3. \A i \in Readable(log) : log[i].seq < first'[p]
      BY <2>1, <2>3, <2>8
    <3> QED
      BY <2>3, <2>10, <3>1, <3>2, <3>3 DEF ReservationsAreFresh, Readable
  <2> QED
    BY <2>6, <2>7, <2>9, <2>11, <2>12 DEF IInv
<1>4. ASSUME NEW p \in Proc, Write(p) PROVE IInv'
  <2>1. /\ Buffer(p) \in Seq(Line) /\ Len(Buffer(p)) = Len(job[p])
        /\ \A i \in 1..Len(job[p]) : /\ Buffer(p)[i] \in Line
                                     /\ Buffer(p)[i].seq = first[p] + i - 1
    BY <1>0, BufferLines
  <2>2. /\ pc[p] = "reserved" /\ log' = Written(Buffer(p))
        /\ UNCHANGED counter /\ Release(p)
    BY <1>4 DEF Write
  <2>3. Len(job[p]) \in Nat
    BY <2>1, EmptySeq
  <2>4. log' \in Seq(Line) /\ SeqsIncrease' /\ CounterCoversLog'
        /\ OneWriter' /\ ReservationsAreFresh'
    BY <2>1, <2>2, <2>3, WriteStep
  <2>5. \A i \in 1..Len(job[p]) : Buffer(p)[i].seq \in Nat
    BY <2>1 DEF Line
  <2>6. acked' \in SUBSET Nat
    BY <1>0, <1>4, <2>5 DEF TypeOK, Write
  <2>8. open' = FALSE /\ UNCHANGED <<points, tears, counter>>
    BY <1>4 DEF Write
  <2>9. TypeOK'
    BY <1>0, <2>2, <2>4, <2>6, <2>8, ReleaseKeepsOneWriter DEF TypeOK
  <2> QED
    BY <2>4, <2>9 DEF IInv
<1>5. ASSUME NEW p \in Proc, TornWrite(p) PROVE IInv'
  <2>1. PICK new \in Seq(Line) :
          /\ Len(new) <= Len(job[p])
          /\ \A i \in 1..Len(new) : new[i] \in {Buffer(p)[i], Fragment}
          /\ log' = Written(new)
          /\ open' \in BOOLEAN
          /\ open' => (open \/ new # <<>>)
    BY <1>0, <1>5, TornLines
  <2>2. /\ pc[p] = "reserved" /\ UNCHANGED counter /\ Release(p)
    BY <1>5 DEF TornWrite
  <2>3. log' \in Seq(Line) /\ SeqsIncrease' /\ CounterCoversLog'
        /\ OneWriter' /\ ReservationsAreFresh'
    BY <2>1, <2>2, WriteStep
  <2>4. open' => log' # <<>>
    <3>1. ASSUME open' PROVE Len(log') > 0
      <4>1. log \in Seq(Line) /\ (open => log # <<>>)
        BY <1>0 DEF TypeOK
      <4>2. /\ Len(log) \in Nat /\ Len(new) \in Nat
            /\ (log # <<>> => Len(log) > 0)
            /\ (new # <<>> => Len(new) > 0)
        BY <4>1, EmptySeq
      <4>3. \E d \in 0..1 : /\ Len(Written(new)) = Len(log) + Len(new) - d
                            /\ Len(Written(new)) >= Len(log)
        BY <4>1, WrittenLines
      <4>4. CASE log # <<>>
        BY <2>1, <4>2, <4>3, <4>4
      <4>5. CASE log = <<>>
        <5>1. ~ open /\ new # <<>>
          BY <2>1, <3>1, <4>1, <4>5
        <5>2. Written(new) = new
          BY <4>5, <5>1, ConcatEmptySeq DEF Written
        <5> QED
          BY <2>1, <4>2, <5>1, <5>2
      <4> QED
        BY <4>4, <4>5
    <3> QED
      BY <2>3, <3>1, EmptySeq
  <2>5. tears' \in 0..MaxTears
    BY <1>0, <1>5, MaxTearsAssumption DEF TypeOK, TornWrite
  <2>6. UNCHANGED <<points, acked>>
    BY <1>5 DEF TornWrite
  <2>7. TypeOK'
    BY <1>0, <2>1, <2>2, <2>3, <2>4, <2>5, <2>6, ReleaseKeepsOneWriter
       DEF TypeOK
  <2> QED
    BY <2>3, <2>7 DEF IInv
<1>6. ASSUME NEW p \in Proc, Crash(p) PROVE IInv'
  <2>1. /\ Release(p)
        /\ UNCHANGED <<counter, log, open, points, acked, tears>>
    BY <1>6 DEF Crash
  <2>2. TypeOK'
    BY <1>0, <2>1, ReleaseKeepsOneWriter DEF TypeOK
  <2> QED
    BY <1>0, <2>1, <2>2, ReleaseKeepsOneWriter, QuietStep
<1>7. CASE Checkpoint
  <2>1. points' = points \cup {LatestSeq(log)}
    BY <1>7 DEF Checkpoint
  <2>2. LatestSeq(log) \in Nat
    BY <1>0, LatestIsLargest DEF TypeOK
  <2>3. TypeOK'
    BY <1>0, <1>7, <2>1, <2>2 DEF TypeOK, Checkpoint
  <2>4. UNCHANGED <<counter, log, lock, pc, job, first>>
    BY <1>7 DEF Checkpoint
  <2>5. OneWriter'
    BY <1>0, <2>4 DEF OneWriter
  <2> QED
    BY <2>3, <2>4, <2>5, QuietStep
<1>8. CASE Delete
  <2>1. /\ lock = {} /\ log' = <<>> /\ open' = FALSE /\ acked' = {}
        /\ UNCHANGED <<counter, lock, pc, job, first, points, tears>>
    BY <1>8 DEF Delete
  <2>2. <<>> \in Seq(Line) /\ Readable(<<>>) = {}
    BY EmptySeq DEF Readable
  <2>3. TypeOK'
    BY <1>0, <2>1, <2>2 DEF TypeOK
  <2>4. SeqsIncrease' /\ CounterCoversLog'
    BY <2>1, <2>2 DEF SeqsIncrease, CounterCoversLog, Readable
  <2>5. OneWriter'
    BY <1>0, <2>1 DEF OneWriter
  <2>6. \A p \in Proc : pc'[p] # "reserved"
    BY <1>0, <2>1 DEF OneWriter
  <2> QED
    BY <2>3, <2>4, <2>5, <2>6 DEF IInv, ReservationsAreFresh
<1>9. CASE UNCHANGED vars
  <2>1. UNCHANGED <<counter, log, lock, pc, job, first>>
    BY <1>9 DEF vars
  <2>2. TypeOK'
    BY <1>0, <1>9 DEF TypeOK, vars
  <2>3. OneWriter'
    BY <1>0, <2>1 DEF OneWriter
  <2> QED
    BY <2>1, <2>2, <2>3, QuietStep
<1> QED
  BY <1>1, <1>2, <1>3, <1>4, <1>5, <1>6, <1>7, <1>8, <1>9 DEF Next

\* The inductive invariant holds throughout.
THEOREM Invariance == Spec => []IInv
<1>1. Init => IInv
  BY InitIInv
<1>2. IInv /\ [Next]_vars => IInv'
  BY NextIInv
<1> QED
  BY <1>1, <1>2, PTL DEF Spec

(***************************************************************************)
(* The state of the log, the sidecar and every appending process is always *)
(* well formed, for any number of processes and torn writes.               *)
(***************************************************************************)
THEOREM LogTypeCorrect == Spec => []TypeOK
<1>1. IInv => TypeOK
  BY DEF IInv
<1> QED
  BY <1>1, Invariance, PTL

(***************************************************************************)
(* Session sequence numbers: every readable event of a session's log has a *)
(* number above that of every readable event before it, whatever processes *)
(* append, die or have a write cut short (SessionLogLock, session.rs).     *)
(***************************************************************************)
THEOREM SequenceNumbersIncrease == Spec => []SeqsIncrease
<1>1. IInv => SeqsIncrease
  BY DEF IInv
<1> QED
  BY <1>1, Invariance, PTL

(***************************************************************************)
(* A process between its reservation and its write holds numbers nobody    *)
(* else has, and the sidecar's counter never lags the log.                 *)
(***************************************************************************)
THEOREM ReservedNumbersAreFresh == Spec => [](ReservationsAreFresh /\ CounterCoversLog)
<1>1. IInv => ReservationsAreFresh /\ CounterCoversLog
  BY DEF IInv
<1> QED
  BY <1>1, Invariance, PTL

-----------------------------------------------------------------------------
(* The log implements `EventLog`: the numbers a reader finds, the largest one *)
(* issued, and whether any was, of the lines and the sidecar.                 *)

\* A process in an append has something to append, so that a reservation
\* always issues a number.
JobsHaveEvents == \A p \in Proc : pc[p] # "idle" => Len(job[p]) \in Nat \ {0}

\* A process that asks for the lock has at least one event.
LEMMA RequestsHaveEvents ==
  ASSUME TypeOK, NEW p \in Proc, AppendEvents(p) \/ Rewind(p)
  PROVE  /\ Len(job'[p]) \in Nat \ {0}
         /\ \A q \in Proc : q # p => UNCHANGED <<pc[q], job[q]>>
<1>1. PICK bodies : Request(p, bodies) /\ Len(bodies) \in Nat \ {0}
  <2>1. CASE AppendEvents(p)
    <3>1. PICK n \in 1..MaxBatch : Request(p, [i \in 1..n |-> Plain])
      BY <2>1 DEF AppendEvents
    <3>2. n \in Nat \ {0}
      BY MaxBatchAssumption
    <3>3. Len([i \in 1..n |-> Plain]) = n
      BY <3>2
    <3> QED
      BY <3>1, <3>2, <3>3
  <2>2. CASE Rewind(p)
    <3>1. PICK through \in points : Request(p, <<through>>)
      BY <2>2 DEF Rewind
    <3>2. Len(<<through>>) = 1
      OBVIOUS
    <3> QED
      BY <3>1, <3>2
  <2> QED
    BY <2>1, <2>2
<1>2. job'[p] = bodies /\ \A q \in Proc : q # p => UNCHANGED <<pc[q], job[q]>>
  BY <1>1 DEF TypeOK, Request
<1> QED
  BY <1>1, <1>2

\* Giving the lock back leaves the others' appends alone.
LEMMA ReleaseKeepsJobs ==
  ASSUME TypeOK, JobsHaveEvents, NEW p \in Proc, Release(p)
  PROVE  JobsHaveEvents'
<1>1. \A q \in Proc : IF q = p THEN pc'[q] = "idle" ELSE UNCHANGED <<pc[q], job[q]>>
  BY DEF TypeOK, Release
<1> QED
  BY <1>1 DEF JobsHaveEvents

\* No step takes a process into an append of nothing.
LEMMA JobsStep ==
  ASSUME TypeOK, JobsHaveEvents, [Next]_vars
  PROVE  JobsHaveEvents'
<1>1. ASSUME NEW p \in Proc, AppendEvents(p) \/ Rewind(p) PROVE JobsHaveEvents'
  BY <1>1, RequestsHaveEvents DEF JobsHaveEvents
<1>2. ASSUME NEW p \in Proc, Acquire(p) \/ Reserve(p) PROVE JobsHaveEvents'
  <2>1. /\ pc[p] # "idle" /\ UNCHANGED job
        /\ \A q \in Proc : q # p => UNCHANGED pc[q]
    BY <1>2 DEF TypeOK, Acquire, Reserve
  <2> QED
    BY <2>1 DEF JobsHaveEvents
<1>3. ASSUME NEW p \in Proc, Write(p) \/ TornWrite(p) \/ Crash(p) PROVE JobsHaveEvents'
  BY <1>3, ReleaseKeepsJobs DEF Write, TornWrite, Crash
<1>4. CASE Checkpoint \/ Delete \/ UNCHANGED vars
  BY <1>4 DEF Checkpoint, Delete, vars, JobsHaveEvents
<1> QED
  BY <1>1, <1>2, <1>3, <1>4 DEF Next

\* Writing changes no line but the last.
LEMMA WrittenKeeps ==
  ASSUME log \in Seq(Line), open => log # <<>>, NEW new \in Seq(Line)
  PROVE  \A i \in 1..(Len(log) - 1) : Written(new)[i] = log[i]
<1>1. CASE open /\ new # <<>>
  <2>1. Fragment \in Line
    BY DEF Fragment, Line, Body, Plain
  <2> QED
    BY <1>1, <2>1, Merged DEF Written
<1>2. CASE ~ (open /\ new # <<>>)
  <2>1. Written(new) = log \o new
    BY <1>2 DEF Written
  <2>2. Len(log) \in Nat /\ Len(new) \in Nat
    BY EmptySeq
  <2> QED
    BY <2>1, <2>2, ConcatProperties
<1> QED
  BY <1>1, <1>2

-----------------------------------------------------------------------------
(* The steps *)

\* Reserving issues numbers.
LEMMA ReserveIssues ==
  ASSUME IInv, JobsHaveEvents, NEW p \in Proc, Reserve(p)
  PROVE  EL!Issue
<1>1. ReservedLast \in Nat
  BY ReservedLastCovers DEF IInv
<1>2. Len(job[p]) \in Nat \ {0}
  BY DEF JobsHaveEvents, Reserve
<1>3. counter' = ReservedLast + Len(job[p]) /\ UNCHANGED log
  BY DEF Reserve
<1>4. counter' \in Nat /\ counter' > ReservedLast
  BY <1>1, <1>2, <1>3
<1>5. counter' # Missing
  BY <1>4 DEF Missing
<1>6. ReservedLast' = counter'
  BY <1>5 DEF ReservedLast
<1>7. ReadableSeqs(log)' = ReadableSeqs(log)
  BY <1>3 DEF ReadableSeqs, Readable
<1> QED
  BY <1>4, <1>5, <1>6, <1>7 DEF EL!Issue

(***************************************************************************)
(* Writing lines numbered from `lo` on to a log below `lo`: what is new to *)
(* a reader is above all the reader had, and only the newest can be lost.  *)
(***************************************************************************)
LEMMA WrittenAppends ==
  ASSUME log \in Seq(Line), open => log # <<>>, SeqsIncrease,
         NEW lo \in Nat, NEW hi \in Nat, NEW new \in Seq(Line),
         \A i \in Readable(log) : log[i].seq < lo,
         lo + Len(new) - 1 <= hi,
         \A i \in 1..Len(new) : new[i].ok => new[i].seq = lo + i - 1
  PROVE  /\ ReadableSeqs(Written(new)) \in SUBSET Nat
         /\ \A s \in ReadableSeqs(Written(new)) \ ReadableSeqs(log) :
              s <= hi /\ \A o \in ReadableSeqs(log) : o < s
         /\ \A s \in ReadableSeqs(log) \ ReadableSeqs(Written(new)) :
              \A o \in ReadableSeqs(log) \ {s} : o < s
<1> DEFINE W == Written(new)
<1>1. PICK d \in 0..1 :
        /\ Len(W) = Len(log) + Len(new) - d
        /\ Len(W) >= Len(log)
        /\ \A i \in 1..Len(log) : W[i] \in {log[i], Fragment}
        /\ \A i \in (Len(log) + 1)..Len(W) : W[i] = new[i - Len(log) + d]
  BY WrittenLines
<1>2. \A i \in 1..(Len(log) - 1) : W[i] = log[i]
  BY WrittenKeeps
<1> HIDE DEF W
<1>3. Len(log) \in Nat /\ Len(new) \in Nat /\ Len(W) \in Nat /\ d \in Int
  <2>1. Len(log) \in Nat /\ Len(new) \in Nat
    BY EmptySeq
  <2> QED
    BY <1>1, <2>1
<1>4. \A i \in Readable(log) : i \in 1..Len(log) /\ log[i].seq \in Nat
  BY ReadableLines
<1>5. ASSUME NEW i \in Readable(W)
      PROVE  W[i].seq \in ReadableSeqs(log) \/ W[i].seq \in lo..hi
  <2>1. i \in 1..Len(W) /\ W[i].ok
    BY DEF Readable
  <2>2. CASE i \in 1..Len(log)
    <3>1. W[i] # Fragment
      BY <2>1 DEF Fragment
    <3>2. W[i] = log[i]
      BY <1>1, <2>2, <3>1
    <3> QED
      BY <2>1, <2>2, <3>2 DEF Readable, ReadableSeqs
  <2>3. CASE i \notin 1..Len(log)
    <3>1. i \in (Len(log) + 1)..Len(W) /\ i - Len(log) + d \in 1..Len(new)
      BY <1>1, <1>3, <2>1, <2>3
    <3>2. W[i].seq = lo + (i - Len(log) + d) - 1
      BY <1>1, <2>1, <3>1
    <3> QED
      BY <1>3, <3>1, <3>2
  <2> QED
    BY <2>2, <2>3
<1>6. ReadableSeqs(log) \in SUBSET Nat /\ \A s \in ReadableSeqs(log) : s < lo
  BY <1>4 DEF ReadableSeqs
<1>7. ASSUME NEW s \in ReadableSeqs(W) \ ReadableSeqs(log)
      PROVE  s <= hi /\ \A o \in ReadableSeqs(log) : o < s
  <2>1. s \in lo..hi
    BY <1>5 DEF ReadableSeqs
  <2> QED
    BY <1>6, <2>1
<1>8. ASSUME NEW s \in ReadableSeqs(log) \ ReadableSeqs(W),
             NEW o \in ReadableSeqs(log) \ {s}
      PROVE  o < s
  <2>1. PICK i \in Readable(log) : s = log[i].seq
    BY DEF ReadableSeqs
  <2>2. PICK j \in Readable(log) : o = log[j].seq
    BY DEF ReadableSeqs
  <2>3. i = Len(log)
    <3>1. SUFFICES ASSUME i \in 1..(Len(log) - 1) PROVE FALSE
      BY <1>3, <1>4, <2>1
    <3>2. W[i] = log[i] /\ i \in 1..Len(W)
      BY <1>1, <1>2, <1>3, <3>1
    <3> QED
      BY <2>1, <3>2 DEF Readable, ReadableSeqs
  <2>4. j < i
    BY <1>3, <1>4, <2>1, <2>2, <2>3
  <2> QED
    BY <2>1, <2>2, <2>4 DEF SeqsIncrease
<1>9. ReadableSeqs(W) \in SUBSET Nat
  <2>1. \A i \in Readable(W) : W[i].seq \in Nat
    BY <1>5, <1>6
  <2> QED
    BY <2>1 DEF ReadableSeqs
<1> QED
  BY <1>7, <1>8, <1>9 DEF W

\* Writing any part of a reserved buffer appends.
LEMMA WriteAppends ==
  ASSUME IInv, NEW p \in Proc, pc[p] = "reserved",
         NEW new \in Seq(Line), Len(new) <= Len(job[p]),
         \A i \in 1..Len(new) : new[i] \in {Buffer(p)[i], Fragment},
         log' = Written(new), UNCHANGED counter
  PROVE  EL!Append
<1>1. /\ log \in Seq(Line) /\ (open => log # <<>>) /\ SeqsIncrease /\ TypeOK
      /\ first[p] \in Nat /\ job[p] \in Seq(Body)
  BY DEF IInv, TypeOK
<1>2. /\ counter = first[p] + Len(job[p]) - 1 /\ counter # Missing
      /\ \A i \in Readable(log) : log[i].seq < first[p]
  BY DEF IInv, ReservationsAreFresh
<1>3. counter \in Nat
  BY <1>2 DEF IInv, TypeOK
<1>4. Len(new) \in Nat /\ Len(job[p]) \in Nat
  BY <1>1, EmptySeq
<1>5. \A i \in 1..Len(new) : new[i].ok => new[i].seq = first[p] + i - 1
  <2>1. \A i \in 1..Len(new) : i \in 1..Len(job[p])
    BY <1>4
  <2>2. \A i \in 1..Len(new) : Buffer(p)[i].seq = first[p] + i - 1
    BY <1>1, <2>1, BufferLines
  <2> QED
    BY <2>2 DEF Fragment
<1>6. /\ ReadableSeqs(Written(new)) \in SUBSET Nat
      /\ \A s \in ReadableSeqs(Written(new)) \ ReadableSeqs(log) :
           s <= counter /\ \A o \in ReadableSeqs(log) : o < s
      /\ \A s \in ReadableSeqs(log) \ ReadableSeqs(Written(new)) :
           \A o \in ReadableSeqs(log) \ {s} : o < s
  <2>1. first[p] + Len(new) - 1 <= counter
    BY <1>1, <1>2, <1>3, <1>4
  <2> QED
    BY <1>1, <1>2, <1>3, <1>5, <2>1, WrittenAppends
<1>7. ReservedLast = counter /\ ReservedLast' = counter
  BY <1>2 DEF ReservedLast
<1>8. ReadableSeqs(log)' = ReadableSeqs(Written(new))
  BY DEF ReadableSeqs, Readable
<1> QED
  BY <1>6, <1>7, <1>8 DEF EL!Append, EL!AllBelow

\* Deleting the log keeps the counter of a sidecar that has one.
LEMMA DeleteDeletes == Delete => EL!Delete
<1> SUFFICES ASSUME Delete PROVE EL!Delete
  OBVIOUS
<1>1. log' = <<>> /\ UNCHANGED counter
  BY DEF Delete
<1>2. Readable(<<>>) = {}
  BY DEF Readable
<1>3. ReadableSeqs(log)' = {}
  BY <1>1, <1>2 DEF ReadableSeqs, Readable
<1>4. ReservedLast' = IF counter = Missing THEN 0 ELSE ReservedLast
  BY <1>1, <1>2 DEF ReservedLast, LatestSeq, Readable
<1> QED
  BY <1>1, <1>3, <1>4 DEF EL!Delete

\* A log of before the sidecar starts as the abstract one may.
LEMMA InitMaps == Init => EL!Init
<1> SUFFICES ASSUME Init PROVE EL!Init
  OBVIOUS
<1>1. TypeOK /\ SeqsIncrease /\ log \in Seq(Line) /\ counter = Missing
  BY InitIInv DEF IInv, TypeOK, Init
<1>2. /\ LatestSeq(log) \in Nat
      /\ \A i \in Readable(log) : log[i].seq <= LatestSeq(log)
  BY <1>1, LatestIsLargest
<1>3. \A i \in Readable(log) : log[i].seq \in Nat
  BY <1>1, ReadableLines
<1>4. ReservedLast = LatestSeq(log)
  BY <1>1 DEF ReservedLast
<1>5. /\ ReadableSeqs(log) \in SUBSET Nat
      /\ \A s \in ReadableSeqs(log) : s < LatestSeq(log) + 1
  BY <1>2, <1>3 DEF ReadableSeqs
<1> QED
  BY <1>2, <1>4, <1>5 DEF EL!Init, EL!AllBelow

(***************************************************************************)
(* A step is an abstract step or, when neither the lines nor the sidecar   *)
(* change, a stutter.                                                      *)
(***************************************************************************)
LEMMA StepMaps == IInv /\ JobsHaveEvents /\ [Next]_vars => [EL!Next]_(EL!vars)
<1> SUFFICES ASSUME IInv, JobsHaveEvents, [Next]_vars PROVE [EL!Next]_(EL!vars)
  OBVIOUS
<1>1. TypeOK
  BY DEF IInv
<1>2. ASSUME UNCHANGED <<counter, log>> PROVE UNCHANGED EL!vars
  BY <1>2 DEF EL!vars, ReadableSeqs, Readable, ReservedLast, LatestSeq
<1>3. ASSUME NEW p \in Proc,
             AppendEvents(p) \/ Rewind(p) \/ Acquire(p) \/ Crash(p)
      PROVE  UNCHANGED <<counter, log>>
  BY <1>3 DEF AppendEvents, Rewind, Request, Acquire, Crash
<1>4. ASSUME NEW p \in Proc, Reserve(p) PROVE EL!Issue
  BY <1>4, ReserveIssues
<1>5. ASSUME NEW p \in Proc, Write(p) PROVE EL!Append
  <2>1. /\ pc[p] = "reserved" /\ log' = Written(Buffer(p)) /\ UNCHANGED counter
    BY <1>5 DEF Write
  <2>2. Buffer(p) \in Seq(Line) /\ Len(Buffer(p)) = Len(job[p])
    BY <1>1, BufferLines
  <2>3. Len(Buffer(p)) \in Nat
    BY <2>2, EmptySeq
  <2>4. Len(Buffer(p)) <= Len(job[p])
    BY <2>2, <2>3
  <2> QED
    BY <2>1, <2>2, <2>4, WriteAppends
<1>6. ASSUME NEW p \in Proc, TornWrite(p) PROVE EL!Append
  <2>1. pc[p] = "reserved" /\ UNCHANGED counter
    BY <1>6 DEF TornWrite
  <2>2. PICK new \in Seq(Line) :
          /\ Len(new) <= Len(job[p])
          /\ \A i \in 1..Len(new) : new[i] \in {Buffer(p)[i], Fragment}
          /\ log' = Written(new)
    BY <1>1, <1>6, TornLines
  <2> QED
    BY <2>1, <2>2, WriteAppends
<1>7. CASE Checkpoint
  BY <1>2, <1>7 DEF Checkpoint
<1>8. CASE Delete
  BY <1>8, DeleteDeletes DEF EL!Next
<1>9. CASE UNCHANGED vars
  BY <1>2, <1>9 DEF vars
<1> QED
  BY <1>2, <1>3, <1>4, <1>5, <1>6, <1>7, <1>8, <1>9 DEF Next, EL!Next

(***************************************************************************)
(* The log keeps the contract of `EventLog`, whatever processes append,    *)
(* die, tear their writes, rewind and delete: a reader meets every number  *)
(* once, above all it has met, and loses at most the newest.               *)
(***************************************************************************)
THEOREM LogImplementsEventLog == Spec => ImplementsEventLog
<1>1. Init => JobsHaveEvents
  BY DEF Init, JobsHaveEvents
<1>2. IInv /\ JobsHaveEvents /\ [Next]_vars => JobsHaveEvents'
  BY JobsStep DEF IInv
<1>3. Init => EL!Init
  BY InitMaps
<1>4. IInv /\ JobsHaveEvents /\ [Next]_vars => [EL!Next]_(EL!vars)
  BY StepMaps
<1> QED
  BY <1>1, <1>2, <1>3, <1>4, Invariance, PTL DEF Spec, ImplementsEventLog, EL!Spec
-----------------------------------------------------------------------------
(* What cut-off writes cost *)

(***************************************************************************)
(* The bound on the loss is inductive only with the debt of a line that    *)
(* still lacks its newline: that line is no acknowledged event, and its    *)
(* tear is not yet paid for. Acknowledged numbers are reserved ones.       *)
(***************************************************************************)
Debt == IF open THEN 1 ELSE 0

LossInv ==
  /\ IsFiniteSet(acked)
  /\ IF counter = Missing THEN acked \subseteq ReadableSeqs(log)
                          ELSE \A s \in acked : s <= counter
  /\ \A p \in Proc : pc[p] = "reserved" => \A s \in acked : s < first[p]
  /\ open /\ Len(log) \in Readable(log) => log[Len(log)].seq \notin acked
  /\ Cardinality(acked \ ReadableSeqs(log)) + Debt <= tears

\* A write takes from a reader at most the last line, if that lacks its newline.
LEMMA OnlyTheOpenLineGoes ==
  ASSUME log \in Seq(Line), open => log # <<>>, NEW new \in Seq(Line),
         NEW s \in ReadableSeqs(log), s \notin ReadableSeqs(Written(new))
  PROVE  open /\ Len(log) \in Readable(log) /\ s = log[Len(log)].seq
<1> DEFINE W == Written(new)
<1>1. PICK i \in Readable(log) : s = log[i].seq
  BY DEF ReadableSeqs
<1>2. i \in 1..Len(log) /\ log[i].ok /\ Len(log) \in Nat /\ Len(new) \in Nat
  BY <1>1, EmptySeq DEF Readable
<1>3. Len(W) \in Nat /\ Len(W) >= Len(log)
  <2>1. W \in Seq(Line) /\ Len(W) >= Len(log)
    BY WrittenLines
  <2> QED
    BY <2>1, EmptySeq
<1>4. W[i] # log[i]
  <2> HIDE DEF W
  <2>1. W[i] = log[i] => i \in Readable(W)
    BY <1>2, <1>3 DEF Readable
  <2> QED
    BY <1>1, <2>1 DEF W, ReadableSeqs
<1>5. i = Len(log)
  <2>1. i \in 1..(Len(log) - 1) => W[i] = log[i]
    BY WrittenKeeps
  <2> HIDE DEF W
  <2> QED
    BY <1>2, <1>4, <2>1
<1>6. open
  <2>1. ASSUME ~open PROVE W[i] = log[i]
    <3>1. W = log \o new
      BY <2>1 DEF Written
    <3> HIDE DEF W
    <3> QED
      BY <1>2, <3>1, ConcatProperties
  <2> QED
    BY <1>4, <2>1
<1> QED
  BY <1>1, <1>5, <1>6

\* What is written arrives, but for a line that runs into an unfinished one.
LEMMA WrittenArrives ==
  ASSUME log \in Seq(Line), open => log # <<>>, NEW new \in Seq(Line),
         NEW i \in 1..Len(new), new[i].ok, open => i # 1
  PROVE  new[i].seq \in ReadableSeqs(Written(new))
<1> DEFINE W == Written(new)
<1>1. Len(log) \in Nat /\ Len(new) \in Nat /\ i \in Nat /\ new # <<>>
  BY EmptySeq
<1>2. \E j \in 1..Len(W) : W[j] = new[i]
  <2>1. CASE open
    <3>1. Fragment \in Line
      BY DEF Fragment, Line, Body, Plain
    <3>2. W = SubSeq(log, 1, Len(log) - 1) \o <<Fragment>> \o Tail(new)
      BY <1>1, <2>1 DEF Written
    <3> HIDE DEF W
    <3>3. /\ Len(W) = Len(log) + Len(new) - 1
          /\ \A j \in (Len(log) + 1)..Len(W) : W[j] = new[j - Len(log) + 1]
      BY <1>1, <2>1, <3>1, <3>2, Merged
    <3> DEFINE j == Len(log) + i - 1
    <3>4. j \in (Len(log) + 1)..Len(W) /\ j \in 1..Len(W) /\ j - Len(log) + 1 = i
      BY <1>1, <2>1, <3>3
    <3> HIDE DEF j
    <3> QED
      BY <3>3, <3>4
  <2>2. CASE ~open
    <3>1. W = log \o new
      BY <2>2 DEF Written
    <3> HIDE DEF W
    <3>2. /\ Len(W) = Len(log) + Len(new)
          /\ \A j \in 1..(Len(log) + Len(new)) :
               W[j] = IF j <= Len(log) THEN log[j] ELSE new[j - Len(log)]
      BY <3>1, ConcatProperties
    <3> DEFINE j == Len(log) + i
    <3>3. j \in 1..Len(W) /\ ~(j <= Len(log)) /\ j - Len(log) = i
      BY <1>1, <3>2
    <3> HIDE DEF j
    <3> QED
      BY <3>2, <3>3
  <2> QED
    BY <2>1, <2>2
<1> HIDE DEF W
<1>3. PICK j \in 1..Len(W) : W[j] = new[i]
  BY <1>2
<1>4. j \in Readable(W)
  BY <1>3 DEF Readable
<1> QED
  BY <1>3, <1>4 DEF W, ReadableSeqs

\* The values of a function on a finite set are finitely many.
LEMMA ImageIsFinite ==
  ASSUME NEW S, IsFiniteSet(S), NEW f PROVE IsFiniteSet({f[x] : x \in S})
<1> DEFINE T == {f[x] : x \in S}
           g == [x \in S |-> f[x]]
<1>1. g \in Surjection(S, T)
  BY DEF Surjection
<1> QED
  BY <1>1, FS_Surjection

\* Fewer events are lost than a set holds that contains them all.
LEMMA NoMoreLost ==
  ASSUME NEW S, NEW T, IsFiniteSet(T), S \subseteq T
  PROVE  Cardinality(S) \in Nat /\ Cardinality(T) \in Nat /\ Cardinality(S) <= Cardinality(T)
BY FS_Subset, FS_CardinalityType

\* Writing any part of a reserved buffer loses no acknowledged event.
LEMMA AckedStayReadable ==
  ASSUME TypeOK, LossInv, NEW new \in Seq(Line)
  PROVE  acked \ ReadableSeqs(Written(new)) \subseteq acked \ ReadableSeqs(log)
BY OnlyTheOpenLineGoes DEF TypeOK, LossInv

\* A write that is completed pays for the tear it runs into, if any.
LEMMA WriteLoses ==
  ASSUME IInv, LossInv, NEW p \in Proc, Write(p)
  PROVE  LossInv'
<1>1. /\ TypeOK /\ log \in Seq(Line) /\ (open => log # <<>>) /\ pc[p] = "reserved"
      /\ log' = Written(Buffer(p)) /\ open' = FALSE /\ Release(p)
      /\ UNCHANGED <<counter, tears>> /\ tears \in Nat
      /\ acked' = acked \cup {Buffer(p)[i].seq : i \in 1..Len(job[p])}
      /\ first[p] \in Nat /\ job[p] \in Seq(Body)
  BY MaxTearsAssumption DEF IInv, TypeOK, Write
<1>2. /\ Buffer(p) \in Seq(Line) /\ Len(Buffer(p)) = Len(job[p])
      /\ \A i \in 1..Len(job[p]) : Buffer(p)[i].seq = first[p] + i - 1
  BY <1>1, BufferLines
<1>3. Len(job[p]) \in Nat /\ \A i \in 1..Len(job[p]) : Buffer(p)[i].ok
  BY <1>1, EmptySeq DEF Buffer, Event
<1>4. counter = first[p] + Len(job[p]) - 1 /\ counter # Missing
  BY <1>1 DEF IInv, ReservationsAreFresh
<1> DEFINE N == {Buffer(p)[i].seq : i \in 1..Len(job[p])}
           lost == acked \ ReadableSeqs(log)
<1>5. acked \subseteq Nat /\ IsFiniteSet(acked) /\ IsFiniteSet(lost)
      /\ Cardinality(lost) + Debt <= tears
  BY <1>1, FS_Subset DEF TypeOK, LossInv
<1>6. IsFiniteSet(N)
  <2>1. IsFiniteSet(1..Len(job[p]))
    BY <1>3, FS_Interval
  <2> QED
    <3> DEFINE F == [i \in 1..Len(job[p]) |-> Buffer(p)[i].seq]
    <3>1. N = {F[i] : i \in 1..Len(job[p])}
      OBVIOUS
    <3> HIDE DEF F
    <3> QED
      BY <2>1, <3>1, ImageIsFinite
<1>7. IsFiniteSet(acked')
  BY <1>1, <1>5, <1>6, FS_Union
<1>8. \A s \in acked' : s <= counter'
  <2>1. \A i \in 1..Len(job[p]) : Buffer(p)[i].seq <= counter
    BY <1>1, <1>2, <1>3, <1>4
  <2>2. \A s \in acked : s <= counter
    BY <1>4 DEF LossInv
  <2> QED
    BY <1>1, <2>1, <2>2
<1>9. \A q \in Proc : pc'[q] # "reserved"
  <2>1. OneWriter
    BY DEF IInv
  <2>2. \A q \in Proc : pc[q] = "reserved" => q = p
    BY <1>1, <2>1 DEF OneWriter
  <2> QED
    BY <1>1, <2>1, <2>2, ReleaseKeepsOneWriter
<1>10. Cardinality(acked' \ ReadableSeqs(log)') + Debt' <= tears'
  <2>0. ReadableSeqs(log)' = ReadableSeqs(Written(Buffer(p)))
    BY <1>1 DEF ReadableSeqs, Readable
  <2>a. acked \ ReadableSeqs(log)' \subseteq lost
    BY <1>1, <1>2, <2>0, AckedStayReadable
  <2>b. \A i \in 1..Len(job[p]) : (open => i # 1) => Buffer(p)[i].seq \in ReadableSeqs(log)'
    BY <1>1, <1>2, <1>3, <2>0, WrittenArrives
  <2>1. CASE open
    <3>1. N \ ReadableSeqs(log)' \subseteq {Buffer(p)[1].seq}
      BY <2>b
    <3>2. acked' \ ReadableSeqs(log)' \subseteq lost \cup {Buffer(p)[1].seq}
      BY <1>1, <2>a, <3>1
    <3>3. /\ IsFiniteSet(lost \cup {Buffer(p)[1].seq})
          /\ Cardinality(lost \cup {Buffer(p)[1].seq}) \in {Cardinality(lost), Cardinality(lost) + 1}
      BY <1>5, FS_AddElement
    <3>4. /\ Cardinality(acked' \ ReadableSeqs(log)') \in Nat
          /\ Cardinality(lost \cup {Buffer(p)[1].seq}) \in Nat
          /\ Cardinality(acked' \ ReadableSeqs(log)') <= Cardinality(lost \cup {Buffer(p)[1].seq})
      BY <3>2, <3>3, NoMoreLost
    <3>5. Cardinality(lost) \in Nat
      BY <1>5, FS_CardinalityType
    <3>6. Debt = 1 /\ Debt' = 0
      BY <1>1, <2>1 DEF Debt
    <3> HIDE DEF lost
    <3> QED
      BY <1>1, <1>5, <3>3, <3>4, <3>5, <3>6
  <2>2. CASE ~open
    <3>1. acked' \ ReadableSeqs(log)' \subseteq lost
      BY <1>1, <2>a, <2>b, <2>2
    <3>2. /\ Cardinality(acked' \ ReadableSeqs(log)') \in Nat /\ Cardinality(lost) \in Nat
          /\ Cardinality(acked' \ ReadableSeqs(log)') <= Cardinality(lost)
      BY <1>5, <3>1, NoMoreLost
    <3>3. Debt = 0 /\ Debt' = 0
      BY <1>1, <2>2 DEF Debt
    <3> HIDE DEF lost
    <3> QED
      BY <1>1, <1>5, <3>2, <3>3
  <2> QED
    BY <2>1, <2>2
<1> QED
  BY <1>1, <1>4, <1>7, <1>8, <1>9, <1>10 DEF LossInv

\* A write that is cut short adds its tear before anything is lost to it.
LEMMA TornWriteLoses ==
  ASSUME IInv, LossInv, NEW p \in Proc, TornWrite(p)
  PROVE  LossInv'
<1>1. /\ TypeOK /\ log \in Seq(Line) /\ (open => log # <<>>) /\ pc[p] = "reserved"
      /\ open \in BOOLEAN /\ Release(p) /\ UNCHANGED <<counter, acked>>
      /\ tears' = tears + 1 /\ tears \in Nat /\ acked \subseteq Nat
      /\ first[p] \in Nat /\ job[p] \in Seq(Body)
  BY MaxTearsAssumption DEF IInv, TypeOK, TornWrite
<1>2. PICK new \in Seq(Line) :
        /\ Len(new) <= Len(job[p])
        /\ \A i \in 1..Len(new) : new[i] \in {Buffer(p)[i], Fragment}
        /\ log' = Written(new)
        /\ open' \in BOOLEAN
        /\ open' => (open \/ new # <<>>)
  BY <1>1, TornLines
<1>3. Len(log) \in Nat /\ Len(new) \in Nat /\ Len(job[p]) \in Nat
  BY <1>1, EmptySeq
<1>4. counter # Missing /\ \A s \in acked : s < first[p]
  BY <1>1 DEF IInv, ReservationsAreFresh, LossInv
<1>5. \A q \in Proc : pc'[q] # "reserved"
  <2>1. OneWriter
    BY DEF IInv
  <2>2. \A q \in Proc : pc[q] = "reserved" => q = p
    BY <1>1, <2>1 DEF OneWriter
  <2> QED
    BY <1>1, <2>1, <2>2, ReleaseKeepsOneWriter
<1>6. ASSUME open', Len(log') \in Readable(log') PROVE log'[Len(log')].seq \notin acked
  <2> DEFINE W == Written(new)
  <2>1. PICK d \in 0..1 :
          /\ Len(W) = Len(log) + Len(new) - d
          /\ Len(W) >= Len(log)
          /\ \A i \in 1..Len(log) : W[i] \in {log[i], Fragment}
          /\ \A i \in (Len(log) + 1)..Len(W) : W[i] = new[i - Len(log) + d]
    BY <1>1, WrittenLines
  <2>2. ~open => W = log \o new
    BY DEF Written
  <2> HIDE DEF W
  <2>3. log' = W /\ Len(W) \in 1..Len(W) /\ W[Len(W)].ok
    BY <1>2, <1>6 DEF W, Readable
  <2>4. CASE Len(W) > Len(log)
    <3> DEFINE i == Len(W) - Len(log) + d
    <3>1. i \in 1..Len(new) /\ W[Len(W)] = new[i]
      BY <1>3, <2>1, <2>3, <2>4
    <3> HIDE DEF i
    <3>2. new[i] = Buffer(p)[i] /\ i \in 1..Len(job[p])
      BY <1>2, <1>3, <2>3, <3>1 DEF Fragment
    <3>3. W[Len(W)].seq = first[p] + i - 1
      BY <1>1, <3>1, <3>2, BufferLines
    <3>4. W[Len(W)].seq >= first[p]
      BY <1>1, <1>3, <3>1, <3>3
    <3> QED
      BY <1>1, <1>3, <1>4, <2>3, <3>1, <3>3, <3>4
  <2>5. CASE Len(W) = Len(log)
    <3>1. Len(W) \in 1..Len(log) /\ W[Len(log)] = log[Len(log)]
      BY <2>1, <2>3, <2>5 DEF Fragment
    <3>2. Len(log) \in Readable(log)
      BY <2>3, <2>5, <3>1 DEF Readable
    <3>3. open
      <4>1. ASSUME ~open PROVE FALSE
        <5>1. Len(W) = Len(log) + Len(new) /\ new # <<>>
          BY <1>1, <1>2, <1>6, <2>2, <4>1, ConcatProperties
        <5>2. Len(new) = 0
          BY <1>3, <2>5, <5>1
        <5> QED
          BY <5>1, <5>2, EmptySeq
      <4> QED
        BY <4>1
    <3> QED
      BY <2>3, <2>5, <3>1, <3>2, <3>3 DEF LossInv
  <2> QED
    BY <1>3, <2>1, <2>4, <2>5
<1>7. Cardinality(acked' \ ReadableSeqs(log)') + Debt' <= tears'
  <2> DEFINE lost == acked \ ReadableSeqs(log)
  <2>1. ReadableSeqs(log)' = ReadableSeqs(Written(new))
    BY <1>2 DEF ReadableSeqs, Readable
  <2>2. acked' \ ReadableSeqs(log)' \subseteq lost
    BY <1>1, <2>1, AckedStayReadable
  <2>3. IsFiniteSet(lost) /\ Cardinality(lost) + Debt <= tears
    BY FS_Subset DEF LossInv
  <2>4. /\ Cardinality(acked' \ ReadableSeqs(log)') \in Nat /\ Cardinality(lost) \in Nat
        /\ Cardinality(acked' \ ReadableSeqs(log)') <= Cardinality(lost)
    BY <2>2, <2>3, NoMoreLost
  <2>5. Debt \in 0..1 /\ Debt' \in 0..1
    BY DEF Debt
  <2> HIDE DEF lost
  <2> QED
    BY <1>1, <2>3, <2>4, <2>5
<1>8. IsFiniteSet(acked') /\ \A s \in acked' : s <= counter'
  BY <1>1, <1>4 DEF LossInv
<1> QED
  BY <1>1, <1>4, <1>5, <1>6, <1>7, <1>8 DEF LossInv

\* Numbers are reserved above all that were acknowledged.
LEMMA ReserveLoses ==
  ASSUME IInv, LossInv, NEW p \in Proc, Reserve(p)
  PROVE  LossInv'
<1>1. /\ TypeOK /\ log \in Seq(Line) /\ OneWriter /\ acked \subseteq Nat
      /\ job[p] \in Seq(Body)
  BY DEF IInv, TypeOK
<1>2. Len(job[p]) \in Nat
  BY <1>1, EmptySeq
<1>3. /\ ReservedLast \in Nat
      /\ \A i \in Readable(log) : log[i].seq <= ReservedLast
  BY ReservedLastCovers DEF IInv
<1>4. /\ counter' = ReservedLast + Len(job[p]) /\ first'[p] = ReservedLast + 1
      /\ UNCHANGED <<log, open, acked, tears>>
      /\ \A q \in Proc : pc'[q] = IF q = p THEN "reserved" ELSE pc[q]
  BY <1>1 DEF Reserve, TypeOK
<1>5. \A s \in acked : s <= ReservedLast
  <2>1. CASE counter = Missing
    BY <1>3, <2>1 DEF LossInv, ReadableSeqs
  <2>2. CASE counter # Missing
    BY <2>2 DEF LossInv, ReservedLast
  <2> QED
    BY <2>1, <2>2
<1>6. \A q \in Proc : pc'[q] = "reserved" => q = p
  BY <1>1, <1>4 DEF OneWriter, Reserve
<1>7. counter' # Missing /\ (\A s \in acked : s <= counter') /\ \A s \in acked : s < first'[p]
  BY <1>1, <1>2, <1>3, <1>4, <1>5 DEF Missing
<1>8. ReadableSeqs(log)' = ReadableSeqs(log) /\ Readable(log)' = Readable(log) /\ Debt' = Debt
  BY <1>4 DEF ReadableSeqs, Readable, Debt
<1> QED
  BY <1>4, <1>6, <1>7, <1>8 DEF LossInv

\* No step loses more than the tears there were.
LEMMA LossStep == ASSUME IInv, LossInv, [Next]_vars PROVE LossInv'
<1>1. TypeOK
  BY DEF IInv
<1>2. ASSUME UNCHANGED <<counter, log, open, acked, tears>>,
             \A p \in Proc : pc'[p] = "reserved" => pc[p] = "reserved" /\ UNCHANGED first[p]
      PROVE  LossInv'
  <2>1. ReadableSeqs(log)' = ReadableSeqs(log) /\ Readable(log)' = Readable(log) /\ Debt' = Debt
    BY <1>2 DEF ReadableSeqs, Readable, Debt
  <2> QED
    BY <1>2, <2>1 DEF LossInv
<1>3. ASSUME NEW p \in Proc, AppendEvents(p) \/ Rewind(p) PROVE LossInv'
  <2>1. \E bodies : Request(p, bodies)
    BY <1>3 DEF AppendEvents, Rewind
  <2> QED
    BY <1>1, <1>2, <2>1 DEF Request, TypeOK
<1>4. ASSUME NEW p \in Proc, Acquire(p) PROVE LossInv'
  BY <1>1, <1>2, <1>4 DEF Acquire, TypeOK
<1>5. ASSUME NEW p \in Proc, Crash(p) PROVE LossInv'
  <2>1. OneWriter
    BY DEF IInv
  <2> QED
    BY <1>1, <1>2, <1>5, <2>1, ReleaseKeepsOneWriter DEF Crash
<1>6. CASE Checkpoint \/ UNCHANGED vars
  BY <1>2, <1>6 DEF Checkpoint, vars
<1>7. CASE Delete
  <2>1. /\ log' = <<>> /\ open' = FALSE /\ acked' = {} /\ UNCHANGED <<tears, counter>>
    BY <1>7 DEF Delete
  <2>2. IsFiniteSet({}) /\ Cardinality({}) = 0 /\ {} \ ReadableSeqs(log)' = {}
    BY FS_EmptySet
  <2>3. Debt' = 0 /\ tears \in Nat
    BY <1>1, <2>1, MaxTearsAssumption DEF Debt, TypeOK
  <2> QED
    BY <2>1, <2>2, <2>3 DEF LossInv
<1> QED
  BY <1>3, <1>4, <1>5, <1>6, <1>7, WriteLoses, TornWriteLoses, ReserveLoses DEF Next

LEMMA InitLoss == Init => LossInv
<1> SUFFICES ASSUME Init PROVE LossInv
  OBVIOUS
<1>1. TypeOK /\ SeqsIncrease /\ log \in Seq(Line) /\ counter = Missing
  BY InitIInv DEF IInv, TypeOK, Init
<1>2. Len(log) \in Nat /\ open \in BOOLEAN
  BY <1>1, EmptySeq DEF TypeOK
<1>3. acked = {log[i].seq : i \in Readable(log) \ (IF open THEN {Len(log)} ELSE {})}
  BY DEF Init
<1>4. acked \subseteq ReadableSeqs(log)
  BY <1>3 DEF ReadableSeqs
<1>5. IsFiniteSet(acked)
  <2>1. IsFiniteSet(1..Len(log)) /\ Readable(log) \subseteq 1..Len(log)
    BY <1>2, FS_Interval DEF Readable
  <2>2. IsFiniteSet(Readable(log) \ (IF open THEN {Len(log)} ELSE {}))
    BY <2>1, FS_Subset
  <2> DEFINE I == Readable(log) \ (IF open THEN {Len(log)} ELSE {})
             F == [i \in I |-> log[i].seq]
  <2>3. acked = {F[i] : i \in I}
    BY <1>3
  <2> HIDE DEF F
  <2> QED
    BY <2>2, <2>3, ImageIsFinite
<1>6. open /\ Len(log) \in Readable(log) => log[Len(log)].seq \notin acked
  <2>1. ASSUME open, Len(log) \in Readable(log), NEW i \in Readable(log), i # Len(log)
        PROVE  log[i].seq # log[Len(log)].seq
    <3>1. i < Len(log)
      BY <1>2, <2>1 DEF Readable
    <3>2. log[i].seq < log[Len(log)].seq /\ log[i].seq \in Nat /\ log[Len(log)].seq \in Nat
      BY <1>1, <2>1, <3>1, ReadableLines DEF SeqsIncrease
    <3> QED
      BY <3>2
  <2> QED
    BY <1>3, <2>1
<1>7. Cardinality(acked \ ReadableSeqs(log)) + Debt <= tears
  <2>1. acked \ ReadableSeqs(log) = {} /\ Cardinality({}) = 0
    BY <1>4, FS_EmptySet
  <2>2. tears = Debt
    BY DEF Init, Debt
  <2>3. Debt \in 0..1
    BY DEF Debt
  <2>4. Cardinality(acked \ ReadableSeqs(log)) = 0
    BY <2>1
  <2> QED
    BY <2>2, <2>3, <2>4
<1>8. \A p \in Proc : pc[p] # "reserved"
  BY DEF Init
<1> QED
  BY <1>1, <1>4, <1>5, <1>6, <1>7, <1>8 DEF LossInv

(***************************************************************************)
(* An event whose append had returned Ok is lost to a reader only by a     *)
(* write that was cut short, at most one by each, whichever processes      *)
(* appended, died, rewound or deleted (append_session_events_locked).      *)
(***************************************************************************)
THEOREM LossIsBounded == Spec => []LossBoundedByTears
<1>1. Init => LossInv
  BY InitLoss
<1>2. IInv /\ LossInv /\ [Next]_vars => LossInv'
  BY LossStep
<1>3. IInv /\ LossInv => LossBoundedByTears
  <2> SUFFICES ASSUME IInv, LossInv PROVE LossBoundedByTears
    OBVIOUS
  <2>1. IsFiniteSet(acked \ ReadableSeqs(log))
    BY FS_Subset DEF LossInv
  <2>2. Cardinality(acked \ ReadableSeqs(log)) \in Nat /\ Debt \in 0..1 /\ tears \in Nat
    BY <2>1, FS_CardinalityType, MaxTearsAssumption DEF Debt, IInv, TypeOK
  <2> QED
    BY <2>2 DEF LossInv, LossBoundedByTears
<1> QED
  BY <1>1, <1>2, <1>3, Invariance, PTL DEF Spec
-----------------------------------------------------------------------------
(* What rewinds remove *)

\* The newest marker decides what a reader keeps of the conversation.
LEMMA NewestMarkerDecides ==
  ASSUME NEW l \in Seq(Line), Markers(l) # {}
  PROVE  \E k \in Markers(l) :
           /\ \A j \in Markers(l) : j <= k
           /\ ActiveSeqs(l) = {s \in ReadableSeqs(l) : s <= l[k].through \/ s > l[k].seq}
<1> DEFINE k == CHOOSE i \in Markers(l) : \A j \in Markers(l) : j <= i
<1>1. Markers(l) \in SUBSET (1..Len(l)) /\ Len(l) \in Nat
  BY EmptySeq DEF Markers, Readable
<1>2. \E i \in Markers(l) : \A j \in Markers(l) : j <= i
  BY <1>1, LastPosition
<1>3. k \in Markers(l) /\ \A j \in Markers(l) : j <= k
  BY <1>2
<1>4. ActiveSeqs(l) = {s \in ReadableSeqs(l) : s <= l[k].through \/ s > l[k].seq}
  BY DEF ActiveSeqs
<1> HIDE DEF k
<1> QED
  BY <1>3, <1>4

LEMMA MarkerTypes ==
  ASSUME NEW l \in Seq(Line)
  PROVE  /\ \A i \in Markers(l) : i \in Readable(l) /\ l[i].through \in Nat
         /\ \A i \in Readable(l) : i \in 1..Len(l) /\ l[i].seq \in Nat
         /\ ReadableSeqs(l) \subseteq Nat
<1>1. \A i \in 1..Len(l) : l[i] \in Line
  BY ElementOfSeq
<1>2. \A x \in Line : x.seq \in Nat /\ x.through \in Nat \cup {Plain}
  BY DEF Line, Body
<1> QED
  BY <1>1, <1>2 DEF Markers, Readable, ReadableSeqs

(***************************************************************************)
(* A log that keeps its old lines or makes fragments of them, whose new    *)
(* numbers are above the old ones, continues the conversation; what had    *)
(* been removed is at or before the point of a new marker if it is back.   *)
(***************************************************************************)
LEMMA WritingRemovesNothing ==
  ASSUME NEW W \in Seq(Line), log \in Seq(Line), log' = W, Len(W) >= Len(log),
         \A i \in 1..Len(log) : W[i] \in {log[i], Fragment},
         \A i, j \in Readable(W) : i < j => W[i].seq < W[j].seq,
         \A s \in ReadableSeqs(W) \ ReadableSeqs(log) : \A o \in ReadableSeqs(log) : o < s
  PROVE  RemovedReturnsByRewindOnly /\ ConversationContinues
<1>1. ASSUME NEW i \in Readable(W), i \in 1..Len(log) PROVE W[i] = log[i]
  BY <1>1 DEF Readable, Fragment
<1>2. RemovedReturnsByRewindOnly
  <2> SUFFICES ASSUME Markers(log) \subseteq Markers(W),
                      NEW s \in ReadableSeqs(log), s \notin ActiveSeqs(log),
                      s \in ActiveSeqs(W)
               PROVE  \E i \in Markers(W) \ Markers(log) : s <= W[i].through
    BY DEF RemovedReturnsByRewindOnly
  <2>1. Markers(log) # {} /\ Markers(W) # {}
    BY DEF ActiveSeqs
  <2>2. PICK k \in Markers(log) :
          /\ \A j \in Markers(log) : j <= k
          /\ ActiveSeqs(log) = {x \in ReadableSeqs(log) : x <= log[k].through \/ x > log[k].seq}
    BY <2>1, NewestMarkerDecides
  <2>3. PICK m \in Markers(W) :
          /\ \A j \in Markers(W) : j <= m
          /\ ActiveSeqs(W) = {x \in ReadableSeqs(W) : x <= W[m].through \/ x > W[m].seq}
    BY <2>1, NewestMarkerDecides
  <2>4. /\ k \in Readable(W) /\ m \in Readable(W) /\ k \in 1..Len(log)
        /\ k \in Nat /\ m \in Nat /\ s \in Nat
        /\ log[k].seq \in Nat /\ log[k].through \in Nat
        /\ W[m].seq \in Nat /\ W[m].through \in Nat
    BY <2>2, <2>3, MarkerTypes
  <2>5. k <= m /\ W[k] = log[k]
    BY <1>1, <2>3, <2>4
  <2>6. ~(s <= log[k].through) /\ s <= log[k].seq
    BY <2>2, <2>4
  <2>7. log[k].seq <= W[m].seq
    <3>1. k < m \/ k = m
      BY <2>4, <2>5
    <3> QED
      BY <2>4, <2>5, <3>1
  <2>8. s <= W[m].through
    BY <2>3, <2>4, <2>6, <2>7
  <2>9. m \notin Markers(log)
    <3>1. ASSUME m \in Markers(log) PROVE FALSE
      <4>1. m = k
        BY <2>2, <2>4, <2>5, <3>1
      <4> QED
        BY <2>4, <2>5, <2>6, <2>8, <4>1
    <3> QED
      BY <3>1
  <2> QED
    BY <2>3, <2>8, <2>9
<1>3. ConversationContinues
  <2> SUFFICES ASSUME Markers(W) = Markers(log)
               PROVE  /\ ActiveSeqs(log) \cap ReadableSeqs(W) \subseteq ActiveSeqs(W)
                      /\ ReadableSeqs(W) \ ReadableSeqs(log) \subseteq ActiveSeqs(W)
    BY DEF ConversationContinues
  <2>1. CASE Markers(log) = {}
    BY <2>1 DEF ActiveSeqs
  <2>2. CASE Markers(log) # {}
    <3>1. PICK k \in Markers(log) :
            /\ \A j \in Markers(log) : j <= k
            /\ ActiveSeqs(log) = {x \in ReadableSeqs(log) : x <= log[k].through \/ x > log[k].seq}
      BY <2>2, NewestMarkerDecides
    <3>2. PICK m \in Markers(W) :
            /\ \A j \in Markers(W) : j <= m
            /\ ActiveSeqs(W) = {x \in ReadableSeqs(W) : x <= W[m].through \/ x > W[m].seq}
      BY <2>2, NewestMarkerDecides
    <3>3. k \in Readable(W) /\ k \in Readable(log) /\ k \in 1..Len(log) /\ m \in Nat /\ k \in Nat
      BY <3>1, <3>2, MarkerTypes
    <3>4. m = k /\ W[k] = log[k]
      BY <1>1, <3>1, <3>2, <3>3
    <3>5. \A x \in ReadableSeqs(W) \ ReadableSeqs(log) : x > log[k].seq
      <4>1. log[k].seq \in ReadableSeqs(log)
        BY <3>3 DEF ReadableSeqs
      <4> QED
        BY <4>1, MarkerTypes
    <3> QED
      BY <3>1, <3>2, <3>4, <3>5
  <2> QED
    BY <2>1, <2>2
<1> QED
  BY <1>2, <1>3

\* Any part of a write keeps the conversation.
LEMMA WriteKeepsConversation ==
  ASSUME IInv, NEW p \in Proc, pc[p] = "reserved",
         NEW new \in Seq(Line), Len(new) <= Len(job[p]),
         \A i \in 1..Len(new) : new[i] \in {Buffer(p)[i], Fragment},
         log' = Written(new), UNCHANGED counter, Release(p)
  PROVE  RemovedReturnsByRewindOnly /\ ConversationContinues
<1> DEFINE W == Written(new)
<1>1. /\ TypeOK /\ log \in Seq(Line) /\ (open => log # <<>>) /\ SeqsIncrease
      /\ first[p] \in Nat /\ job[p] \in Seq(Body)
  BY DEF IInv, TypeOK
<1>2. /\ W \in Seq(Line) /\ Len(W) >= Len(log)
      /\ \A i \in 1..Len(log) : W[i] \in {log[i], Fragment}
  BY <1>1, WrittenLines
<1>3. \A i, j \in Readable(W) : i < j => W[i].seq < W[j].seq
  BY WriteStep DEF SeqsIncrease, Readable
<1>4. \A s \in ReadableSeqs(W) \ ReadableSeqs(log) : \A o \in ReadableSeqs(log) : o < s
  <2>1. EL!Append
    BY WriteAppends
  <2>2. ReadableSeqs(log)' = ReadableSeqs(W)
    BY DEF ReadableSeqs, Readable
  <2> QED
    BY <2>1, <2>2 DEF EL!Append, EL!AllBelow
<1> HIDE DEF W
<1>5. log' = W
  BY DEF W
<1> QED
  BY <1>1, <1>2, <1>3, <1>4, <1>5, WritingRemovesNothing

LEMMA ConversationStep ==
  ASSUME IInv, [Next]_vars
  PROVE  RemovedReturnsByRewindOnly /\ ConversationContinues
<1>1. TypeOK
  BY DEF IInv
<1>2. ASSUME UNCHANGED log PROVE RemovedReturnsByRewindOnly /\ ConversationContinues
  BY <1>2 DEF RemovedReturnsByRewindOnly, ConversationContinues, ActiveSeqs, ReadableSeqs,
              Markers, Readable
<1>3. ASSUME NEW p \in Proc, Write(p)
      PROVE  RemovedReturnsByRewindOnly /\ ConversationContinues
  <2>1. job[p] \in Seq(Body) /\ first[p] \in Nat
    BY <1>1 DEF TypeOK
  <2>2. Buffer(p) \in Seq(Line) /\ Len(Buffer(p)) = Len(job[p])
    BY <1>1, <2>1, BufferLines
  <2>3. Len(Buffer(p)) \in Nat
    BY <2>2, EmptySeq
  <2>4. Len(Buffer(p)) <= Len(job[p])
    BY <2>2, <2>3
  <2> QED
    BY <1>3, <2>2, <2>4, WriteKeepsConversation DEF Write
<1>4. ASSUME NEW p \in Proc, TornWrite(p)
      PROVE  RemovedReturnsByRewindOnly /\ ConversationContinues
  <2>1. PICK new \in Seq(Line) :
          /\ Len(new) <= Len(job[p])
          /\ \A i \in 1..Len(new) : new[i] \in {Buffer(p)[i], Fragment}
          /\ log' = Written(new)
    BY <1>1, <1>4, TornLines
  <2> QED
    BY <1>4, <2>1, WriteKeepsConversation DEF TornWrite
<1>5. CASE Delete
  <2>1. log' = <<>>
    BY <1>5 DEF Delete
  <2>2. ReadableSeqs(log)' = {} /\ Markers(log)' = {}
    BY <2>1 DEF ReadableSeqs, Markers, Readable
  <2>3. ActiveSeqs(log') = {}
    BY <2>1, <2>2 DEF ActiveSeqs, ReadableSeqs, Markers, Readable
  <2> QED
    BY <2>1, <2>3 DEF RemovedReturnsByRewindOnly, ConversationContinues
<1>6. ASSUME NEW p \in Proc,
             AppendEvents(p) \/ Rewind(p) \/ Acquire(p) \/ Reserve(p) \/ Crash(p)
      PROVE  UNCHANGED log
  BY <1>6 DEF AppendEvents, Rewind, Request, Acquire, Reserve, Crash
<1>7. CASE Checkpoint \/ UNCHANGED vars
  BY <1>2, <1>7 DEF Checkpoint, vars
<1> QED
  BY <1>2, <1>3, <1>4, <1>5, <1>6, <1>7 DEF Next

(***************************************************************************)
(* Whatever is appended, torn, checkpointed or rewound, in any order and   *)
(* by any number of processes, only a rewind or the deletion of the        *)
(* session takes an event out of the conversation, and only a rewind to a  *)
(* point at or after it brings one back (active_events).                   *)
(***************************************************************************)
THEOREM RewindsAloneMove == Spec => OnlyRewindsMoveTheConversation
<1>1. IInv /\ [Next]_vars => [RemovedReturnsByRewindOnly /\ ConversationContinues]_vars
  BY ConversationStep
<1> QED
  BY <1>1, Invariance, PTL DEF Spec, OnlyRewindsMoveTheConversation
=============================================================================
