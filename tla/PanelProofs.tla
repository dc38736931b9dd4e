---------------------------- MODULE PanelProofs -----------------------------
(***************************************************************************)
(* Proofs about PanelSessions, for any requests, addresses, limits and     *)
(* times: the tables keep to their limits, sessions end for a reason and   *)
(* the login limiter is overrun by no more than the requests under way.    *)
(***************************************************************************)
EXTENDS PanelSessions, TLAPS, FiniteSetTheorems, SequenceTheorems

-----------------------------------------------------------------------------
(* The attempts in the window *)

\* A non-empty set of natural numbers has a least element.
LEMMA LeastNat ==
    ASSUME NEW T, T \subseteq Nat, T # {}
    PROVE  \E n \in T : \A m \in T : n <= m
<1>1. PICK n \in T : \A m \in T : ~(<<m, n>> \in OpToRel(<, Nat))
  BY WFMin, NatLessThanWellFounded
<1>2. \A m \in T : ~(m < n)
  BY <1>1 DEF OpToRel
<1> QED
  BY <1>2

\* The times of a list, up to the n-th, that are in the window.
Marks(times, time, n) == {i \in 1 .. n : time - times[i] < RateWindow}

\* f is the comprehension of InWindow, up to the n-th time.
Keeps(f, times, time, n) ==
    f = [i \in 0 .. n |->
            IF i = 0 THEN << >>
            ELSE IF time - times[i] < RateWindow THEN Append(f[i - 1], times[i])
            ELSE f[i - 1]]

LEMMA KeepsExtends ==
    ASSUME NEW times \in Seq(Nat), NEW time \in Nat, NEW n \in Nat \ {0},
           NEW f, Keeps(f, times, time, n - 1)
    PROVE  \E g : Keeps(g, times, time, n)
<1> DEFINE last == IF time - times[n] < RateWindow THEN Append(f[n - 1], times[n]) ELSE f[n - 1]
           g == [i \in 0 .. n |-> IF i = n THEN last ELSE f[i]]
<1>1. \A i \in 0 .. n - 1 :
        f[i] = IF i = 0 THEN << >>
               ELSE IF time - times[i] < RateWindow THEN Append(f[i - 1], times[i])
               ELSE f[i - 1]
  BY DEF Keeps
<1>2. \A i \in 1 .. n : g[i - 1] = f[i - 1]
  OBVIOUS
<1>3. ASSUME NEW i \in 0 .. n
      PROVE  g[i] = IF i = 0 THEN << >>
                    ELSE IF time - times[i] < RateWindow THEN Append(g[i - 1], times[i])
                    ELSE g[i - 1]
  <2>1. CASE i = n
    BY <1>2, <2>1
  <2>2. CASE i # n /\ i = 0
    BY <1>1, <2>2
  <2>3. CASE i # n /\ i # 0
    <3>1. i \in 0 .. n - 1 /\ i \in 1 .. n
      BY <2>3
    <3>2. g[i] = f[i] /\ g[i - 1] = f[i - 1]
      BY <1>2, <2>3, <3>1
    <3> QED
      BY <1>1, <2>3, <3>1, <3>2
  <2> QED
    BY <2>1, <2>2, <2>3
<1>4. Keeps(g, times, time, n)
  <2>1. g = [i \in 0 .. n |-> g[i]]
    OBVIOUS
  <2> HIDE DEF g
  <2> QED
    BY <1>3, <2>1 DEF Keeps
<1> QED
  BY <1>4

LEMMA KeepsExists ==
    ASSUME NEW times \in Seq(Nat), NEW time \in Nat, NEW n \in Nat
    PROVE  \E f : Keeps(f, times, time, n)
<1> DEFINE Bad == {m \in Nat : ~ \E f : Keeps(f, times, time, m)}
<1> SUFFICES ASSUME Bad # {} PROVE FALSE
  OBVIOUS
<1>1. PICK m \in Bad : \A k \in Bad : m <= k
  <2>1. Bad \subseteq Nat
    OBVIOUS
  <2> QED
    BY <2>1, LeastNat
<1>2. m # 0
  <2>1. Keeps([i \in 0 .. 0 |-> << >>], times, time, 0)
    BY DEF Keeps
  <2> QED
    BY <1>1, <2>1
<1>3. m \in Nat \ {0} /\ m - 1 \in Nat /\ m - 1 \notin Bad
  BY <1>1, <1>2
<1>4. PICK f : Keeps(f, times, time, m - 1)
  BY <1>3
<1>5. \E g : Keeps(g, times, time, m)
  BY <1>3, <1>4, KeepsExtends
<1> QED
  BY <1>1, <1>5

\* The comprehension keeps times, as many as there are marks.
LEMMA KeepsCounts ==
    ASSUME NEW times \in Seq(Nat), NEW time \in Nat,
           NEW f, Keeps(f, times, time, Len(times))
    PROVE  \A i \in 0 .. Len(times) :
            /\ f[i] \in Seq({t \in Nat : time - t < RateWindow})
            /\ Len(f[i]) = Cardinality(Marks(times, time, i))
<1> DEFINE InTime == {t \in Nat : time - t < RateWindow}
           Bad == {i \in 0 .. Len(times) :
                    ~(f[i] \in Seq(InTime) /\ Len(f[i]) = Cardinality(Marks(times, time, i)))}
<1> SUFFICES ASSUME Bad # {} PROVE FALSE
  OBVIOUS
<1>L. Len(times) \in Nat
  BY LenProperties
<1>F. \A k \in 0 .. Len(times) :
        f[k] = IF k = 0 THEN << >>
               ELSE IF time - times[k] < RateWindow THEN Append(f[k - 1], times[k])
               ELSE f[k - 1]
  <2> HIDE DEF Bad, InTime
  <2> QED
    BY DEF Keeps
<1>1. PICK i \in Bad : \A k \in Bad : i <= k
  <2>1. Bad \subseteq Nat
    BY <1>L
  <2> QED
    BY <2>1, LeastNat
<1>2. i # 0
  <2>1. f[0] = << >>
    <3> HIDE DEF Bad, InTime
    <3>1. 0 \in 0 .. Len(times)
      BY <1>L
    <3> QED
      BY <1>F, <3>1, Zenon
  <2>2. Marks(times, time, 0) = {}
    BY DEF Marks
  <2>3. f[0] \in Seq(InTime) /\ Len(f[0]) = 0
    BY <2>1, EmptySeq
  <2> QED
    BY <1>1, <2>2, <2>3, FS_EmptySet
<1> DEFINE h == i - 1
<1>3. i \in 1 .. Len(times) /\ h \in 0 .. Len(times) /\ h \notin Bad
  BY <1>L, <1>1, <1>2
<1>4. f[h] \in Seq(InTime) /\ Len(f[h]) = Cardinality(Marks(times, time, h))
  BY <1>3
<1>5. f[i] = IF time - times[i] < RateWindow THEN Append(f[h], times[i]) ELSE f[h]
  BY <1>2, <1>3, <1>F
<1>6. times[i] \in Nat
  BY <1>3, ElementOfSeq
<1>7. IsFiniteSet(Marks(times, time, h))
  <2>1. IsFiniteSet(1 .. h)
    BY <1>3, FS_Interval
  <2> QED
    BY <2>1, FS_Subset DEF Marks
<1>8. CASE time - times[i] < RateWindow
  <2>1. Marks(times, time, i) = Marks(times, time, h) \cup {i}
    BY <1>3, <1>8 DEF Marks
  <2>2. i \notin Marks(times, time, h)
    BY <1>3 DEF Marks
  <2>3. Cardinality(Marks(times, time, i)) = Cardinality(Marks(times, time, h)) + 1
    BY <1>7, <2>1, <2>2, FS_AddElement
  <2>4. f[i] \in Seq(InTime) /\ Len(f[i]) = Len(f[h]) + 1
    BY <1>4, <1>5, <1>6, <1>8, AppendProperties
  <2> QED
    BY <1>1, <1>4, <2>3, <2>4
<1>9. CASE ~(time - times[i] < RateWindow)
  <2>1. Marks(times, time, i) = Marks(times, time, h)
    BY <1>3, <1>9 DEF Marks
  <2> QED
    BY <1>1, <1>4, <1>5, <1>9, <2>1
<1> QED
  BY <1>8, <1>9

\* What InWindow computes: times in the window, as many as the list has.
LEMMA WindowCounts ==
    ASSUME NEW times \in Seq(Nat), NEW time \in Nat
    PROVE  /\ InWindow(times, time) \in Seq({t \in Nat : time - t < RateWindow})
           /\ Len(InWindow(times, time)) = Cardinality(Marks(times, time, Len(times)))
<1> DEFINE f == CHOOSE g : Keeps(g, times, time, Len(times))
<1>1. Len(times) \in Nat
  BY LenProperties
<1>2. Keeps(f, times, time, Len(times))
  BY <1>1, KeepsExists
<1>3. InWindow(times, time) = f[Len(times)]
  BY DEF InWindow, Keeps
<1> HIDE DEF f
<1> QED
  BY <1>1, <1>2, <1>3, KeepsCounts

\* A shorter list for a later window.
LEMMA WindowLater ==
    ASSUME NEW times \in Seq(Nat), NEW time \in Nat, NEW later \in Nat, time <= later
    PROVE  Len(InWindow(times, later)) <= Len(InWindow(times, time))
<1> DEFINE n == Len(times)
<1>1. n \in Nat
  BY LenProperties
<1>2. \A i \in 1 .. n : times[i] \in Nat
  BY ElementOfSeq
<1>3. Marks(times, later, n) \subseteq Marks(times, time, n)
  BY <1>2, PanelAssumption, SMTT(30) DEF Marks
<1>4. IsFiniteSet(Marks(times, time, n))
  <2>1. IsFiniteSet(1 .. n)
    BY <1>1, FS_Interval
  <2> QED
    BY <2>1, FS_Subset DEF Marks
<1>5. Cardinality(Marks(times, later, n)) <= Cardinality(Marks(times, time, n))
  BY <1>3, <1>4, FS_Subset
<1> QED
  BY <1>5, WindowCounts

\* What is in the window stays, when it is looked at again.
LEMMA WindowAgain ==
    ASSUME NEW times \in Seq(Nat), NEW time \in Nat
    PROVE  /\ InWindow(times, time) \in Seq(Nat)
           /\ Len(InWindow(InWindow(times, time), time)) = Len(InWindow(times, time))
<1> DEFINE InTime == {t \in Nat : time - t < RateWindow}
<1>1. PICK kept \in Seq(InTime) : kept = InWindow(times, time)
  BY WindowCounts
<1>2. Len(kept) \in Nat /\ \A i \in 1 .. Len(kept) : kept[i] \in InTime
  BY LenProperties, ElementOfSeq
<1>3. kept \in Seq(Nat)
  BY <1>1, SeqDef
<1>4. Marks(kept, time, Len(kept)) = 1 .. Len(kept)
  BY <1>2 DEF Marks
<1>5. Cardinality(1 .. Len(kept)) = Len(kept)
  <2>1. PICK k \in Nat : k = Len(kept)
    BY <1>2
  <2>2. Cardinality(1 .. k) = IF 1 > k THEN 0 ELSE k - 1 + 1
    BY FS_Interval
  <2> QED
    BY <2>1, <2>2
<1> QED
  BY <1>1, <1>3, <1>4, <1>5, WindowCounts

\* The mark of one time more.
LEMMA MarksNext ==
    ASSUME NEW times \in Seq(Nat), NEW time \in Nat, NEW i \in 1 .. Len(times)
    PROVE  /\ Cardinality(Marks(times, time, i - 1)) \in Nat
           /\ time - times[i] < RateWindow =>
                Cardinality(Marks(times, time, i)) = Cardinality(Marks(times, time, i - 1)) + 1
           /\ ~(time - times[i] < RateWindow) =>
                Cardinality(Marks(times, time, i)) = Cardinality(Marks(times, time, i - 1))
<1> DEFINE h == i - 1
<1>1. Len(times) \in Nat /\ i \in Nat /\ h \in Nat /\ times[i] \in Nat
  BY LenProperties, ElementOfSeq
<1>2. IsFiniteSet(Marks(times, time, h))
  <2>1. IsFiniteSet(1 .. h)
    BY <1>1, FS_Interval
  <2> QED
    BY <2>1, FS_Subset DEF Marks
<1>3. Cardinality(Marks(times, time, h)) \in Nat
  BY <1>2, FS_CardinalityType
<1>4. CASE time - times[i] < RateWindow
  <2>1. Marks(times, time, i) = Marks(times, time, h) \cup {i} /\ i \notin Marks(times, time, h)
    BY <1>1, <1>4 DEF Marks
  <2>2. Cardinality(Marks(times, time, i)) = Cardinality(Marks(times, time, h)) + 1
    BY <1>2, <2>1, FS_AddElement
  <2> QED
    BY <1>3, <1>4, <2>2
<1>5. CASE ~(time - times[i] < RateWindow)
  <2>1. Marks(times, time, i) = Marks(times, time, h)
    BY <1>1, <1>5 DEF Marks
  <2> QED
    BY <1>3, <1>5, <2>1
<1> QED
  BY <1>4, <1>5

LEMMA MarksAppend ==
    ASSUME NEW times \in Seq(Nat), NEW time \in Nat, NEW t \in Nat
    PROVE  /\ Append(times, t) \in Seq(Nat)
           /\ Cardinality(Marks(times, time, Len(times))) \in Nat
           /\ time - t < RateWindow =>
                Cardinality(Marks(Append(times, t), time, Len(Append(times, t))))
                    = Cardinality(Marks(times, time, Len(times))) + 1
           /\ ~(time - t < RateWindow) =>
                Cardinality(Marks(Append(times, t), time, Len(Append(times, t))))
                    = Cardinality(Marks(times, time, Len(times)))
<1> DEFINE n == Len(times)
<1>1. n \in Nat
  BY LenProperties
<1>2. PICK more \in Seq(Nat) : more = Append(times, t)
  BY AppendProperties
<1>3. Len(more) = n + 1 /\ more[n + 1] = t /\ \A i \in 1 .. n : more[i] = times[i]
  BY <1>2, AppendProperties
<1>4. Marks(more, time, n) = Marks(times, time, n)
  BY <1>3 DEF Marks
<1>5. n + 1 \in 1 .. Len(more) /\ (n + 1) - 1 = n
  BY <1>1, <1>3
<1>6. PICK i \in 1 .. Len(more) : i = n + 1
  BY <1>5
<1>7. /\ Cardinality(Marks(more, time, i - 1)) \in Nat
      /\ time - more[i] < RateWindow =>
            Cardinality(Marks(more, time, i)) = Cardinality(Marks(more, time, i - 1)) + 1
      /\ ~(time - more[i] < RateWindow) =>
            Cardinality(Marks(more, time, i)) = Cardinality(Marks(more, time, i - 1))
  BY MarksNext
<1>8. i - 1 = n /\ more[i] = t /\ i = Len(more)
  BY <1>1, <1>3, <1>6
<1> QED
  BY <1>2, <1>4, <1>7, <1>8

\* Exactly what one time more adds to a window.
LEMMA WindowAppend ==
    ASSUME NEW times \in Seq(Nat), NEW time \in Nat, NEW t \in Nat
    PROVE  /\ Append(times, t) \in Seq(Nat)
           /\ Len(InWindow(times, time)) \in Nat
           /\ time - t < RateWindow =>
                Len(InWindow(Append(times, t), time)) = Len(InWindow(times, time)) + 1
           /\ ~(time - t < RateWindow) =>
                Len(InWindow(Append(times, t), time)) = Len(InWindow(times, time))
<1>1. PICK more \in Seq(Nat) : more = Append(times, t)
  BY AppendProperties
<1>2. Len(InWindow(more, time)) = Cardinality(Marks(more, time, Len(more)))
  BY WindowCounts
<1>3. Len(InWindow(times, time)) = Cardinality(Marks(times, time, Len(times)))
  BY WindowCounts
<1> QED
  BY <1>1, <1>2, <1>3, MarksAppend

\* There is nothing in a window on an empty list.
LEMMA WindowOfNone ==
    ASSUME NEW time \in Nat
    PROVE  << >> \in Seq(Nat) /\ Len(InWindow(<< >>, time)) = 0
<1>1. << >> \in Seq(Nat) /\ Len(<< >>) = 0
  BY EmptySeq
<1>2. Marks(<< >>, time, 0) = {}
  BY DEF Marks
<1> QED
  BY <1>1, <1>2, FS_EmptySet, WindowCounts

\* There is at most one time of a list of one in the window.
LEMMA WindowOfOne ==
    ASSUME NEW time \in Nat, NEW t \in Nat
    PROVE  Len(InWindow(<<t>>, time)) <= 1
<1>1. Append(<< >>, t) = <<t>> /\ << >> \in Seq(Nat)
  BY EmptySeq
<1>2. PICK none \in Seq(Nat) : none = << >>
  BY <1>1
<1>3. Len(InWindow(none, time)) = 0
  BY <1>2, WindowOfNone
<1>4. /\ time - t < RateWindow =>
            Len(InWindow(Append(none, t), time)) = Len(InWindow(none, time)) + 1
      /\ ~(time - t < RateWindow) =>
            Len(InWindow(Append(none, t), time)) = Len(InWindow(none, time))
  BY WindowAppend
<1>5. 0 + 1 = 1 /\ 0 <= 1 /\ 1 <= 1
  OBVIOUS
<1> QED
  BY <1>1, <1>2, <1>3, <1>4, <1>5

\* What a window kept counts in a later window as if nothing had been dropped.
LEMMA KeepsLater ==
    ASSUME NEW times \in Seq(Nat), NEW time \in Nat, NEW later \in Nat, time <= later,
           NEW f, Keeps(f, times, time, Len(times))
    PROVE  \A i \in 0 .. Len(times) :
            Cardinality(Marks(f[i], later, Len(f[i]))) = Cardinality(Marks(times, later, i))
<1> DEFINE Same(i) ==
            Cardinality(Marks(f[i], later, Len(f[i]))) = Cardinality(Marks(times, later, i))
           Bad == {i \in 0 .. Len(times) : ~Same(i)}
<1> SUFFICES ASSUME Bad # {} PROVE FALSE
  OBVIOUS
<1>L. Len(times) \in Nat
  BY LenProperties
<1>F. \A k \in 0 .. Len(times) :
        f[k] = IF k = 0 THEN << >>
               ELSE IF time - times[k] < RateWindow THEN Append(f[k - 1], times[k])
               ELSE f[k - 1]
  <2> HIDE DEF Bad
  <2> QED
    BY DEF Keeps
<1>1. PICK i \in Bad : \A k \in Bad : i <= k
  <2>1. Bad \subseteq Nat
    BY <1>L
  <2> QED
    BY <2>1, LeastNat
<1>2. i # 0
  <2>1. f[0] = << >> /\ Len(<< >>) = 0
    <3> HIDE DEF Bad
    <3>1. 0 \in 0 .. Len(times)
      BY <1>L
    <3> QED
      BY <1>F, <3>1, EmptySeq, Zenon
  <2>2. Marks(<< >>, later, 0) = {} /\ Marks(times, later, 0) = {}
    BY DEF Marks
  <2> QED
    BY <1>1, <2>1, <2>2
<1> DEFINE h == i - 1
<1>3. i \in 1 .. Len(times) /\ h \in 0 .. Len(times) /\ h \notin Bad
  BY <1>L, <1>1, <1>2
<1>4. Same(h)
  BY <1>3
<1>5. f[i] = IF time - times[i] < RateWindow THEN Append(f[h], times[i]) ELSE f[h]
  BY <1>2, <1>3, <1>F
<1>6. times[i] \in Nat
  BY <1>3, ElementOfSeq
<1>7. PICK s \in Seq(Nat) : s = f[h]
  <2>1. PICK kept \in Seq({t \in Nat : time - t < RateWindow}) : kept = f[h]
    BY <1>3, KeepsCounts
  <2> QED
    BY <2>1, SeqDef
<1>8. /\ later - times[i] < RateWindow =>
            Cardinality(Marks(times, later, i)) = Cardinality(Marks(times, later, h)) + 1
      /\ ~(later - times[i] < RateWindow) =>
            Cardinality(Marks(times, later, i)) = Cardinality(Marks(times, later, h))
  BY <1>3, MarksNext
<1>9. CASE time - times[i] < RateWindow
  <2>1. PICK t \in Nat : t = times[i]
    BY <1>6
  <2>2. f[i] = Append(s, t)
    BY <1>5, <1>7, <1>9, <2>1
  <2>3. /\ later - t < RateWindow =>
            Cardinality(Marks(Append(s, t), later, Len(Append(s, t))))
                = Cardinality(Marks(s, later, Len(s))) + 1
        /\ ~(later - t < RateWindow) =>
            Cardinality(Marks(Append(s, t), later, Len(Append(s, t))))
                = Cardinality(Marks(s, later, Len(s)))
    BY MarksAppend
  <2> QED
    BY <1>1, <1>4, <1>7, <1>8, <2>1, <2>2, <2>3
<1>10. CASE ~(time - times[i] < RateWindow)
  <2>1. ~(later - times[i] < RateWindow)
    BY <1>6, <1>10, PanelAssumption
  <2> QED
    BY <1>1, <1>4, <1>5, <1>8, <1>10, <2>1
<1> QED
  BY <1>9, <1>10

LEMMA WindowTwice ==
    ASSUME NEW times \in Seq(Nat), NEW time \in Nat, NEW later \in Nat, time <= later
    PROVE  Len(InWindow(InWindow(times, time), later)) = Len(InWindow(times, later))
<1> DEFINE f == CHOOSE g : Keeps(g, times, time, Len(times))
<1>1. Len(times) \in Nat
  BY LenProperties
<1>2. Keeps(f, times, time, Len(times))
  BY <1>1, KeepsExists
<1>3. InWindow(times, time) = f[Len(times)]
  BY DEF InWindow, Keeps
<1> HIDE DEF f
<1>4. PICK kept \in Seq(Nat) : kept = InWindow(times, time)
  BY WindowAgain
<1>5. Cardinality(Marks(kept, later, Len(kept))) = Cardinality(Marks(times, later, Len(times)))
  BY <1>1, <1>2, <1>3, <1>4, KeepsLater
<1> QED
  BY <1>4, <1>5, WindowCounts

-----------------------------------------------------------------------------
(* Types *)

LEMMA RecentTyped ==
    ASSUME TypeOK, NEW ip \in IP
    PROVE  Recent(ip) \in Seq(Nat)
BY WindowAgain, EmptySeq DEF TypeOK, Recent

\* Whatever is forgotten, what is left are lists of times.
LEMMA PruneTyped ==
    ASSUME TypeOK, NEW ip \in IP, Prune(ip)
    PROVE  /\ DOMAIN attempts' \subseteq IP
           /\ \A x \in DOMAIN attempts' : attempts'[x] \in Seq(Nat)
BY RecentTyped DEF TypeOK, Prune, With, Without

LEMMA RecordTyped ==
    ASSUME TypeOK, NEW ip \in IP, RecordAttempt(ip)
    PROVE  /\ DOMAIN attempts' \subseteq IP
           /\ \A x \in DOMAIN attempts' : attempts'[x] \in Seq(Nat)
<1>1. now \in Nat /\ <<now>> \in Seq(Nat)
  BY EmptySeq DEF TypeOK
<1>2. CASE ip \in DOMAIN attempts
  <2>1. PICK more \in Seq(Nat) : more = Append(attempts[ip], now)
    BY <1>1, <1>2, AppendProperties DEF TypeOK
  <2> QED
    BY <1>2, <2>1 DEF TypeOK, RecordAttempt, With
<1>3. CASE ip \notin DOMAIN attempts
  BY <1>1, <1>3 DEF TypeOK, RecordAttempt, With
<1> QED
  BY <1>2, <1>3

LEMMA FailTyped ==
    ASSUME TypeOK, NEW ip \in IP, Fail(ip)
    PROVE  crowded' \in BOOLEAN /\ failures' \in [IP -> Seq(Nat)]
<1>1. << >> \in Seq(Nat) /\ failures[ip] \in Seq(Nat) /\ now \in Nat
  BY EmptySeq DEF TypeOK
<1>2. PICK more \in Seq(Nat) : more = Append(failures[ip], now)
  BY <1>1, AppendProperties
<1>3. failures' = [x \in IP |-> << >>] \/ failures' = [failures EXCEPT ![ip] = more]
  BY <1>2 DEF Fail
<1> QED
  BY <1>1, <1>3 DEF TypeOK, Fail

LEMMA FormTyped ==
    ASSUME TypeOK, NEW r \in Request, req[r].at = "form"
    PROVE  \E ip \in IP : req[r] = Form(ip) /\ req[r].ip = ip
BY DEF TypeOK, RequestState, Idle, Form

LEMMA InitTyped == Init => TypeOK
<1> SUFFICES ASSUME Init PROVE TypeOK
  OBVIOUS
<1>1. << >> \in Seq(Nat)
  BY EmptySeq
<1>2. failures \in [IP -> Seq(Nat)]
  BY <1>1 DEF Init
<1>3. req \in [Request -> RequestState]
  BY DEF Init, RequestState
<1>4. /\ now \in Nat /\ sessions \subseteq Session /\ issued \in Nat
      /\ DOMAIN attempts \subseteq IP
      /\ \A ip \in DOMAIN attempts : attempts[ip] \in Seq(Nat)
  <2>1. DOMAIN attempts = {}
    BY DEF Init
  <2> QED
    BY <2>1 DEF Init
<1>5. crowded \in BOOLEAN
  BY DEF Init
<1> QED
  BY <1>2, <1>3, <1>4, <1>5 DEF TypeOK

LEMMA NextTyped == TypeOK /\ [Next]_vars => TypeOK'
<1> SUFFICES ASSUME TypeOK, [Next]_vars PROVE TypeOK'
  OBVIOUS
<1> USE DEF TypeOK
<1>1. CASE Tick
  BY <1>1 DEF Tick
<1>2. ASSUME NEW r \in Request, NEW ip \in IP, LoginPost(r, ip)
      PROVE  TypeOK'
  <2>1. Form(ip) \in RequestState
    BY DEF RequestState
  <2> QED
    BY <1>2, <2>1, PruneTyped DEF LoginPost
<1>3. ASSUME NEW r \in Request, LoginSucceeds(r)
      PROVE  TypeOK'
  <2>1. NewSession \in Session
    BY PanelAssumption DEF NewSession, Session
  <2>2. Kept(Unexpired) \subseteq Session
    BY DEF Kept, Unexpired
  <2> QED
    BY <1>3, <2>1, <2>2 DEF LoginSucceeds, AddSession, RequestState
<1>4. ASSUME NEW r \in Request, LoginFails(r)
      PROVE  TypeOK'
  <2>1. PICK ip \in IP : req[r].ip = ip
    BY <1>4, FormTyped DEF LoginFails
  <2>2. RecordAttempt(ip) /\ Fail(ip)
    BY <1>4, <2>1 DEF LoginFails
  <2>3. crowded' \in BOOLEAN /\ failures' \in [IP -> Seq(Nat)]
    BY <2>2, FailTyped
  <2> QED
    BY <1>4, <2>2, <2>3, RecordTyped DEF LoginFails, RequestState
<1>5. ASSUME NEW r \in Request, Leave(r)
      PROVE  TypeOK'
  BY <1>5 DEF Leave, RequestState
<1>6. ASSUME NEW r \in Request, NEW s \in sessions, Enter(r, s)
      PROVE  TypeOK'
  <2>1. Handler(s) \in RequestState
    BY DEF Handler, RequestState
  <2> QED
    BY <1>6, <2>1 DEF Enter
<1>7. ASSUME NEW s \in sessions, Logout(s)
      PROVE  TypeOK'
  BY <1>7 DEF Logout
<1>8. CASE UNCHANGED vars
  BY <1>8 DEF vars
<1> QED
  BY <1>1, <1>2, <1>3, <1>4, <1>5, <1>6, <1>7, <1>8 DEF Next

\* Every variable of the panel's login has its type, for any requests,
\* addresses, limits and bounds.
THEOREM PanelTypeCorrect == Spec => []TypeOK
BY InitTyped, NextTyped, PTL DEF Spec

-----------------------------------------------------------------------------
(* The session table *)

\* No set of sessions holds a token twice.
TokensUnique(ss) == \A s, x \in ss : s.token = x.token => s = x

\* A set in which each member is followed by fewer than n members has no
\* more than n: look at the one with the least token.
LEMMA KeptFits ==
    ASSUME NEW ss, IsFiniteSet(ss), ss \subseteq Session, TokensUnique(ss)
    PROVE  /\ IsFiniteSet(Kept(ss))
           /\ Cardinality(Kept(ss)) <= MaxSessions - 1
<1> DEFINE tokens == {s.token : s \in Kept(ss)}
<1>1. Kept(ss) \subseteq ss /\ MaxSessions \in Nat \ {0}
  BY PanelAssumption DEF Kept
<1>2. IsFiniteSet(Kept(ss)) /\ Cardinality(Kept(ss)) \in Nat
  BY <1>1, FS_Subset, FS_CardinalityType
<1>3. CASE Kept(ss) = {}
  BY <1>1, <1>3, FS_EmptySet
<1>4. CASE Kept(ss) # {}
  <2>1. tokens \subseteq Nat /\ tokens # {}
    BY <1>1, <1>4 DEF Session
  <2>2. PICK n \in tokens : \A m \in tokens : n <= m
    BY <2>1, LeastNat
  <2>3. PICK s \in Kept(ss) : s.token = n
    BY <2>2
  <2>4. Kept(ss) \ {s} \subseteq Newer(s, ss)
    <3> SUFFICES ASSUME NEW x \in Kept(ss), x # s
                 PROVE  x.token > s.token
      BY <1>1 DEF Newer
    <3>1. x.token # s.token
      BY <1>1 DEF TokensUnique
    <3>2. s.token <= x.token /\ s.token \in Nat /\ x.token \in Nat
      BY <1>1, <2>2, <2>3 DEF Session
    <3> QED
      BY <3>1, <3>2
  <2>5. IsFiniteSet(Newer(s, ss)) /\ Cardinality(Newer(s, ss)) \in Nat
    BY FS_Subset, FS_CardinalityType DEF Newer
  <2>6. /\ Cardinality(Kept(ss) \ {s}) \in Nat
        /\ Cardinality(Kept(ss) \ {s}) <= Cardinality(Newer(s, ss))
    BY <2>4, <2>5, FS_Subset, FS_CardinalityType
  <2>7. Cardinality(Kept(ss) \ {s}) = Cardinality(Kept(ss)) - 1
    <3>1. PICK kept : kept = Kept(ss)
      OBVIOUS
    <3>2. Cardinality(kept \ {s}) = IF s \in kept THEN Cardinality(kept) - 1 ELSE Cardinality(kept)
      BY <1>2, <3>1, FS_RemoveElement
    <3> QED
      BY <3>1, <3>2
  <2>8. Cardinality(Newer(s, ss)) < MaxSessions - 1
    BY DEF Kept
  <2> QED
    BY <1>1, <1>2, <2>5, <2>6, <2>7, <2>8
<1> QED
  BY <1>2, <1>3, <1>4

\* Tokens that are not repeated and at most n are at most n less k that are
\* above k.
LEMMA NewerFit ==
    ASSUME NEW ss, IsFiniteSet(ss), ss \subseteq Session, TokensUnique(ss),
           NEW n \in Nat, \A x \in ss : x.token <= n,
           NEW s \in ss
    PROVE  Cardinality(Newer(s, ss)) <= n - s.token
<1> DEFINE later == s.token + 1 .. n
           token == [x \in Newer(s, ss) |-> x.token]
<1>1. s.token \in Nat /\ s.token <= n
  BY DEF Session
<1>2. IsFiniteSet(later) /\ Cardinality(later) <= n - s.token
  <2>1. PICK k \in Nat : k = s.token + 1
    BY <1>1
  <2>2. IsFiniteSet(k .. n) /\ Cardinality(k .. n) = IF k > n THEN 0 ELSE n - k + 1
    BY FS_Interval
  <2> QED
    BY <1>1, <2>1, <2>2
<1>3. token \in [Newer(s, ss) -> later]
  BY <1>1 DEF Newer, Session
<1>4. token \in Injection(Newer(s, ss), later)
  BY <1>3 DEF Injection, IsInjective, Newer, TokensUnique
<1>5. IsFiniteSet(Newer(s, ss)) /\ Cardinality(Newer(s, ss)) <= Cardinality(later)
  BY <1>2, <1>4, FS_Injection
<1>6. Cardinality(Newer(s, ss)) \in Nat /\ Cardinality(later) \in Nat
  BY <1>2, <1>5, FS_CardinalityType
<1> HIDE DEF later
<1> QED
  BY <1>1, <1>2, <1>5, <1>6

\* What holds of the tables: what they hold is finite and fits, tokens were
\* issued, once, and no session lives longer than a new one would.
TablesInv ==
    /\ IsFiniteSet(sessions)
    /\ TablesBounded
    /\ \A s \in sessions : s.token <= issued /\ s.exp <= now + SessionMaxAge

LEMMA InitTables == Init => TablesInv
BY FS_EmptySet, PanelAssumption DEF Init, TablesInv, TablesBounded

\* Forgetting the stale attempts of an address tracks no address more.
LEMMA PruneFits ==
    ASSUME TypeOK, NEW ip \in IP, Prune(ip)
    PROVE  Cardinality(DOMAIN attempts') <= Cardinality(DOMAIN attempts)
<1>1. IsFiniteSet(DOMAIN attempts)
  BY PanelAssumption, FS_Subset DEF TypeOK
<1>2. DOMAIN attempts' \subseteq DOMAIN attempts
  BY DEF Prune, With, Without, Recent
<1> QED
  BY <1>1, <1>2, FS_Subset

\* A new address is tracked only while there is room.
LEMMA RecordFits ==
    ASSUME TypeOK, NEW ip \in IP, RecordAttempt(ip),
           Cardinality(DOMAIN attempts) <= MaxTrackedIPs
    PROVE  Cardinality(DOMAIN attempts') <= MaxTrackedIPs
<1>1. IsFiniteSet(DOMAIN attempts) /\ Cardinality(DOMAIN attempts) \in Nat
  BY PanelAssumption, FS_Subset, FS_CardinalityType DEF TypeOK
<1>2. CASE ip \in DOMAIN attempts
  <2>1. DOMAIN attempts' = DOMAIN attempts
    BY <1>2 DEF RecordAttempt, With
  <2> QED
    BY <2>1
<1>3. CASE ip \notin DOMAIN attempts /\ Cardinality(DOMAIN attempts) >= MaxTrackedIPs
  BY <1>3 DEF RecordAttempt
<1>4. CASE ip \notin DOMAIN attempts /\ ~(Cardinality(DOMAIN attempts) >= MaxTrackedIPs)
  <2>1. PICK tracked : tracked = DOMAIN attempts
    OBVIOUS
  <2>2. DOMAIN attempts' = tracked \cup {ip}
    BY <1>4, <2>1 DEF RecordAttempt, With
  <2>3. Cardinality(tracked \cup {ip})
            = IF ip \in tracked THEN Cardinality(tracked) ELSE Cardinality(tracked) + 1
    BY <1>1, <2>1, FS_AddElement
  <2>4. MaxTrackedIPs \in Nat
    BY PanelAssumption
  <2> QED
    BY <1>1, <1>4, <2>1, <2>2, <2>3, <2>4
<1> QED
  BY <1>2, <1>3, <1>4

\* Fewer sessions fit as well.
LEMMA FewerSessions ==
    ASSUME TypeOK, TablesInv, sessions' \subseteq sessions,
           UNCHANGED <<now, issued>>, Cardinality(DOMAIN attempts') <= MaxTrackedIPs
    PROVE  TablesInv'
<1>1. IsFiniteSet(sessions') /\ Cardinality(sessions') <= Cardinality(sessions)
  BY FS_Subset DEF TablesInv
<1>2. /\ Cardinality(sessions') \in Nat /\ Cardinality(sessions) \in Nat
      /\ MaxSessions \in Nat
  BY <1>1, FS_CardinalityType, PanelAssumption DEF TablesInv
<1>3. Cardinality(sessions') <= MaxSessions
  BY <1>1, <1>2 DEF TablesInv, TablesBounded
<1> QED
  BY <1>1, <1>3 DEF TablesInv, TablesBounded

\* A new session fits.
LEMMA AddFits ==
    ASSUME TypeOK, TablesInv, AddSession, UNCHANGED <<now, attempts>>
    PROVE  TablesInv'
<1> DEFINE kept == Kept(Unexpired)
<1>1. /\ Unexpired \subseteq sessions /\ Unexpired \subseteq Session
      /\ IsFiniteSet(Unexpired) /\ TokensUnique(Unexpired)
  BY FS_Subset DEF TypeOK, TablesInv, TablesBounded, TokensUnique, Unexpired
<1>2. IsFiniteSet(kept) /\ Cardinality(kept) <= MaxSessions - 1 /\ Cardinality(kept) \in Nat
  BY <1>1, KeptFits, FS_CardinalityType
<1>3. kept \subseteq sessions /\ sessions' = kept \cup {NewSession} /\ issued' = issued + 1
  BY <1>1 DEF AddSession, Kept
<1>4. /\ NewSession.token = issued + 1 /\ NewSession.exp = now + SessionMaxAge
      /\ issued \in Nat /\ now \in Nat /\ SessionMaxAge \in Nat /\ MaxSessions \in Nat
      /\ \A s \in sessions : s.token \in Nat /\ s.exp \in Nat
  BY PanelAssumption DEF NewSession, TypeOK, Session
<1>5. \A s \in kept : s.token <= issued /\ s.exp <= now + SessionMaxAge
  BY <1>3 DEF TablesInv
<1> HIDE DEF kept
<1>6. IsFiniteSet(sessions') /\ Cardinality(sessions') <= MaxSessions
  <2>1. /\ IsFiniteSet(kept \cup {NewSession})
        /\ Cardinality(kept \cup {NewSession})
             = IF NewSession \in kept THEN Cardinality(kept) ELSE Cardinality(kept) + 1
    BY <1>2, FS_AddElement
  <2> QED
    BY <1>2, <1>3, <1>4, <2>1
<1>7. \A s \in sessions' : s.token <= issued' /\ s.exp <= now' + SessionMaxAge
  BY <1>3, <1>4, <1>5
<1>8. ASSUME NEW s \in sessions', NEW x \in sessions'
      PROVE  /\ s.token = x.token => s = x
             /\ s.token < x.token => s.exp <= x.exp
  <2>1. CASE s \in kept /\ x \in kept
    BY <1>3, <2>1 DEF TablesInv, TablesBounded
  <2>2. CASE s = NewSession
    BY <1>3, <1>4, <1>5, <2>2
  <2>3. CASE x = NewSession
    BY <1>3, <1>4, <1>5, <2>3
  <2> QED
    BY <1>3, <2>1, <2>2, <2>3
<1> QED
  BY <1>6, <1>7, <1>8 DEF TablesInv, TablesBounded

LEMMA NextTables == TypeOK /\ TablesInv /\ [Next]_vars => TablesInv'
<1> SUFFICES ASSUME TypeOK, TablesInv, [Next]_vars PROVE TablesInv'
  OBVIOUS
<1>0. Cardinality(DOMAIN attempts) <= MaxTrackedIPs /\ Cardinality(DOMAIN attempts) \in Nat
  BY PanelAssumption, FS_Subset, FS_CardinalityType DEF TypeOK, TablesInv, TablesBounded
<1>1. CASE Tick
  <2>1. \A s \in sessions : s.exp \in Nat /\ s.exp <= now' + SessionMaxAge
    BY <1>1, PanelAssumption DEF Tick, TypeOK, TablesInv, Session
  <2> QED
    BY <1>1, <2>1 DEF Tick, TablesInv, TablesBounded
<1>2. ASSUME NEW r \in Request, NEW ip \in IP, LoginPost(r, ip)
      PROVE  TablesInv'
  <2>1. Cardinality(DOMAIN attempts') <= MaxTrackedIPs
    <3>1. Cardinality(DOMAIN attempts') <= Cardinality(DOMAIN attempts)
      BY <1>2, PruneFits DEF LoginPost
    <3>2. TypeOK'
      BY NextTyped
    <3>3. Cardinality(DOMAIN attempts') \in Nat /\ MaxTrackedIPs \in Nat
      BY <3>2, PanelAssumption, FS_Subset, FS_CardinalityType DEF TypeOK
    <3> QED
      BY <1>0, <3>1, <3>3
  <2> QED
    BY <1>2, <2>1, FewerSessions DEF LoginPost
<1>3. ASSUME NEW r \in Request, LoginSucceeds(r)
      PROVE  TablesInv'
  BY <1>3, AddFits DEF LoginSucceeds
<1>4. ASSUME NEW r \in Request, LoginFails(r)
      PROVE  TablesInv'
  <2>1. PICK ip \in IP : req[r].ip = ip
    BY <1>4, FormTyped DEF LoginFails
  <2>2. RecordAttempt(ip)
    BY <1>4, <2>1 DEF LoginFails
  <2>3. Cardinality(DOMAIN attempts') <= MaxTrackedIPs
    BY <1>0, <2>2, RecordFits
  <2> QED
    BY <1>4, <2>3, FewerSessions DEF LoginFails
<1>5. ASSUME NEW r \in Request, Leave(r)
      PROVE  TablesInv'
  BY <1>0, <1>5, FewerSessions DEF Leave
<1>6. ASSUME NEW r \in Request, NEW s \in sessions, Enter(r, s)
      PROVE  TablesInv'
  BY <1>0, <1>6, FewerSessions DEF Enter
<1>7. ASSUME NEW s \in sessions, Logout(s)
      PROVE  TablesInv'
  BY <1>0, <1>7, FewerSessions DEF Logout
<1>8. CASE UNCHANGED vars
  BY <1>0, <1>8, FewerSessions DEF vars
<1> QED
  BY <1>1, <1>2, <1>3, <1>4, <1>5, <1>6, <1>7, <1>8 DEF Next

\* What holds of the tables always holds.
LEMMA TablesHold == Spec => [](TypeOK /\ TablesInv)
BY InitTyped, NextTyped, InitTables, NextTables, PTL DEF Spec

\* However many log in, fail to, and from how many addresses: the tables of
\* sessions and of addresses keep to their limits, and the sessions in the
\* table expire in the order in which they were issued.
THEOREM TablesAlwaysBounded == Spec => []TablesBounded
<1>1. TablesInv => TablesBounded
  BY DEF TablesInv
<1> QED
  BY <1>1, TablesHold, PTL

\* A session that the backstop drops is followed by as many as the table holds.
LEMMA DroppedIsOld ==
    ASSUME TypeOK, TablesInv, AddSession, NEW s \in sessions \ sessions'
    PROVE  s.exp <= now \/ issued' - s.token >= MaxSessions
<1> SUFFICES ASSUME ~(s.exp <= now) PROVE issued' - s.token >= MaxSessions
  OBVIOUS
<1>1. /\ Unexpired \subseteq Session /\ IsFiniteSet(Unexpired) /\ TokensUnique(Unexpired)
      /\ \A x \in Unexpired : x.token <= issued
  BY FS_Subset DEF TypeOK, TablesInv, TablesBounded, TokensUnique, Unexpired
<1>2. /\ s \in Unexpired /\ s \notin Kept(Unexpired)
      /\ issued' = issued + 1 /\ s.token \in Nat /\ issued \in Nat /\ MaxSessions \in Nat
  BY PanelAssumption DEF AddSession, Unexpired, TypeOK, Session
<1>3. ~(Cardinality(Newer(s, Unexpired)) < MaxSessions - 1)
  BY <1>2 DEF Kept
<1>4. Cardinality(Newer(s, Unexpired)) <= issued - s.token
  BY <1>1, <1>2, NewerFit
<1>5. Cardinality(Newer(s, Unexpired)) \in Nat
  BY <1>1, FS_Subset, FS_CardinalityType DEF Newer
<1> QED
  BY <1>2, <1>3, <1>4, <1>5

\* Why a session is no longer in the table.
EndsForAReason(s) ==
    \/ s.exp <= now
    \/ issued' - s.token >= MaxSessions
    \/ issued' = issued /\ sessions' = sessions \ {s}

LEMMA NextEnds ==
    TypeOK /\ TablesInv /\ [Next]_vars
        => [\A s \in sessions \ sessions' : EndsForAReason(s)]_vars
<1> SUFFICES ASSUME TypeOK, TablesInv, Next, NEW s \in sessions \ sessions'
             PROVE  EndsForAReason(s)
  OBVIOUS
<1>1. CASE Tick
  BY <1>1 DEF Tick
<1>2. ASSUME NEW r \in Request, NEW ip \in IP, LoginPost(r, ip)
      PROVE  EndsForAReason(s)
  BY <1>2 DEF LoginPost
<1>3. ASSUME NEW r \in Request, LoginSucceeds(r)
      PROVE  EndsForAReason(s)
  BY <1>3, DroppedIsOld DEF LoginSucceeds, EndsForAReason
<1>4. ASSUME NEW r \in Request, LoginFails(r)
      PROVE  EndsForAReason(s)
  BY <1>4 DEF LoginFails
<1>5. ASSUME NEW r \in Request, Leave(r)
      PROVE  EndsForAReason(s)
  BY <1>5 DEF Leave
<1>6. ASSUME NEW r \in Request, NEW x \in sessions, Enter(r, x)
      PROVE  EndsForAReason(s)
  BY <1>6 DEF Enter
<1>7. ASSUME NEW x \in sessions, Logout(x)
      PROVE  EndsForAReason(s)
  BY <1>7 DEF Logout, EndsForAReason
<1> QED
  BY <1>1, <1>2, <1>3, <1>4, <1>5, <1>6, <1>7 DEF Next

\* No session ends before its time but by its own logout, or because as many
\* newer ones were issued as the table holds.
THEOREM SessionsAlwaysEndForAReason == Spec => SessionsEndForAReason
BY TablesHold, NextEnds, PTL DEF SessionsEndForAReason, EndsForAReason, Spec

-----------------------------------------------------------------------------
(* The limiter *)

\* The recorded attempts of ip in the window.
Failed(ip) == Len(Recent(ip))

LEMMA CountsTyped ==
    ASSUME TypeOK, NEW ip \in IP
    PROVE  /\ Failed(ip) \in Nat
           /\ IsFiniteSet(Forms(ip))
           /\ Cardinality(Forms(ip)) \in Nat
           /\ Cardinality(Request) \in Nat
           /\ Cardinality(Forms(ip)) <= Cardinality(Request)
<1>1. IsFiniteSet(Request) /\ Forms(ip) \subseteq Request
  BY PanelAssumption DEF Forms
<1> QED
  BY <1>1, RecentTyped, LenProperties, FS_Subset, FS_CardinalityType DEF Failed

\* Forgetting stale attempts forgets none in the window.
LEMMA PruneKeeps ==
    ASSUME TypeOK, NEW ip \in IP, Prune(ip), UNCHANGED now, NEW x \in IP
    PROVE  Failed(x)' = Failed(x)
<1>1. now \in Nat
  BY DEF TypeOK
<1>2. CASE x # ip
  BY <1>2 DEF Failed, Recent, Prune, With, Without
<1>3. CASE x = ip /\ Recent(ip) = << >>
  BY <1>3 DEF Failed, Recent, Prune, Without
<1>4. CASE x = ip /\ Recent(ip) # << >>
  <2>1. ip \in DOMAIN attempts /\ Recent(ip) = InWindow(attempts[ip], now)
    BY <1>4 DEF Recent
  <2>2. ip \in DOMAIN attempts' /\ attempts'[ip] = Recent(ip)
    BY <1>4 DEF Prune, With
  <2>3. attempts[ip] \in Seq(Nat)
    BY <2>1 DEF TypeOK
  <2>4. Recent(ip)' = InWindow(InWindow(attempts[ip], now), now)
    BY <2>1, <2>2 DEF Recent
  <2>5. Len(InWindow(InWindow(attempts[ip], now), now)) = Len(InWindow(attempts[ip], now))
    BY <1>1, <2>3, WindowAgain
  <2> QED
    BY <1>4, <2>1, <2>4, <2>5 DEF Failed
<1> QED
  BY <1>2, <1>3, <1>4

\* Recording an attempt adds one, of its own address.
LEMMA RecordAdds ==
    ASSUME TypeOK, NEW ip \in IP, RecordAttempt(ip), UNCHANGED now, NEW x \in IP
    PROVE  /\ x # ip => Failed(x)' = Failed(x)
           /\ Failed(ip)' <= Failed(ip) + 1
<1>1. now \in Nat /\ Failed(ip) \in Nat
  BY CountsTyped DEF TypeOK
<1>2. x # ip => Failed(x)' = Failed(x)
  BY DEF Failed, Recent, RecordAttempt, With
<1>3. CASE ip \in DOMAIN attempts
  <2>1. attempts[ip] \in Seq(Nat) /\ Recent(ip) = InWindow(attempts[ip], now)
    BY <1>3 DEF TypeOK, Recent
  <2>2. Recent(ip)' = InWindow(Append(attempts[ip], now), now)
    BY <1>3 DEF Recent, RecordAttempt, With
  <2>3. Len(InWindow(Append(attempts[ip], now), now)) <= Len(InWindow(attempts[ip], now)) + 1
    BY <1>1, <2>1, WindowAppend
  <2> QED
    BY <1>2, <2>1, <2>2, <2>3 DEF Failed
<1>4. CASE ip \notin DOMAIN attempts /\ attempts' = attempts
  BY <1>1, <1>2, <1>4 DEF Failed, Recent
<1>5. CASE ip \notin DOMAIN attempts /\ attempts' = With(ip, <<now>>)
  <2>1. Recent(ip)' = InWindow(<<now>>, now) /\ Recent(ip) = << >>
    BY <1>5 DEF Recent, With
  <2>2. Len(InWindow(<<now>>, now)) <= 1 /\ Len(<< >>) = 0
    BY <1>1, WindowOfOne
  <2> QED
    BY <1>1, <1>2, <2>1, <2>2 DEF Failed
<1> QED
  BY <1>3, <1>4, <1>5 DEF RecordAttempt

LEMMA TickForgets ==
    ASSUME TypeOK, Tick, NEW ip \in IP
    PROVE  Failed(ip)' <= Failed(ip)
<1>1. now \in Nat /\ now' = now + 1 /\ attempts' = attempts
  BY DEF TypeOK, Tick
<1>2. CASE ip \in DOMAIN attempts
  <2>1. attempts[ip] \in Seq(Nat)
    BY <1>2 DEF TypeOK
  <2>2. PICK later \in Nat : later = now'
    BY <1>1
  <2>3. Len(InWindow(attempts[ip], later)) <= Len(InWindow(attempts[ip], now))
    BY <1>1, <2>1, <2>2, WindowLater
  <2>4. Recent(ip)' = InWindow(attempts[ip], later) /\ Recent(ip) = InWindow(attempts[ip], now)
    BY <1>1, <1>2, <2>2 DEF Recent
  <2> QED
    BY <2>3, <2>4 DEF Failed
<1>3. CASE ip \notin DOMAIN attempts
  <2>1. Recent(ip)' = << >> /\ Recent(ip) = << >> /\ Len(<< >>) \in Nat
    BY <1>1, <1>3 DEF Recent
  <2> QED
    BY <2>1 DEF Failed
<1> QED
  BY <1>2, <1>3

\* A request that is no longer waiting for its form is one form less.
LEMMA FormGoes ==
    ASSUME TypeOK, NEW r \in Request, req' = [req EXCEPT ![r] = Idle], NEW ip \in IP
    PROVE  /\ Cardinality(Forms(ip))' <= Cardinality(Forms(ip))
           /\ req[r] = Form(ip) => Cardinality(Forms(ip))' = Cardinality(Forms(ip)) - 1
<1>1. Forms(ip)' = Forms(ip) \ {r}
  BY DEF TypeOK, Forms, Idle, Form
<1>2. PICK forms : forms = Forms(ip)
  OBVIOUS
<1>3. IsFiniteSet(forms) /\ Cardinality(forms) \in Nat
  BY <1>2, CountsTyped
<1>4. Cardinality(forms \ {r}) = IF r \in forms THEN Cardinality(forms) - 1 ELSE Cardinality(forms)
  BY <1>3, FS_RemoveElement
<1>5. req[r] = Form(ip) => r \in forms
  BY <1>2 DEF Forms
<1> QED
  BY <1>1, <1>2, <1>3, <1>4, <1>5

\* The gate's requests wait for no form.
LEMMA EnterForms ==
    ASSUME TypeOK, NEW r \in Request, NEW s \in sessions, Enter(r, s), NEW ip \in IP
    PROVE  Forms(ip)' = Forms(ip)
BY DEF TypeOK, Enter, Forms, Idle, Form, Handler

\* The bound, for what is recorded.
RecordedBounded ==
    \A ip \in IP :
        Len(Recent(ip)) + Cardinality(Forms(ip)) < RateLimit + Cardinality(Request)

LEMMA InitOverrun == Init => RecordedBounded
<1> SUFFICES ASSUME Init, NEW ip \in IP
             PROVE  Len(Recent(ip)) + Cardinality(Forms(ip)) < RateLimit + Cardinality(Request)
  BY DEF RecordedBounded
<1>1. Forms(ip) = {}
  BY DEF Init, Forms, Idle, Form
<1>2. Recent(ip) = << >> /\ Len(<< >>) = 0
  BY DEF Init, Recent
<1>3. Cardinality(Request) \in Nat /\ RateLimit \in Nat \ {0}
  BY PanelAssumption, FS_CardinalityType
<1> QED
  BY <1>1, <1>2, <1>3, FS_EmptySet

\* What was checked before the form came counts with it: a form under way is
\* an attempt that may still be recorded.
LEMMA NextOverrun == TypeOK /\ RecordedBounded /\ [Next]_vars => RecordedBounded'
<1> SUFFICES ASSUME TypeOK, RecordedBounded, [Next]_vars, NEW ip \in IP
             PROVE  (Failed(ip) + Cardinality(Forms(ip)))' < RateLimit + Cardinality(Request)
  BY DEF RecordedBounded, Failed
<1>I. Failed(ip) + Cardinality(Forms(ip)) < RateLimit + Cardinality(Request)
  BY DEF RecordedBounded, Failed
<1>T. /\ Failed(ip) \in Nat /\ Cardinality(Forms(ip)) \in Nat /\ Cardinality(Request) \in Nat
      /\ Cardinality(Forms(ip)) <= Cardinality(Request)
      /\ RateLimit \in Nat
  BY CountsTyped, PanelAssumption
<1>P. TypeOK'
  BY NextTyped
<1>N. /\ Failed(ip)' \in Nat /\ Cardinality(Forms(ip))' \in Nat
      /\ Cardinality(Forms(ip))' <= Cardinality(Request)
  <2>1. PICK forms : forms = Forms(ip)'
    OBVIOUS
  <2>2. forms \subseteq Request /\ IsFiniteSet(Request)
    BY <2>1, PanelAssumption DEF Forms
  <2>3. Cardinality(forms) \in Nat /\ Cardinality(forms) <= Cardinality(Request)
    BY <2>2, FS_Subset, FS_CardinalityType
  <2>4. PICK recent : recent = Recent(ip)'
    OBVIOUS
  <2>5. recent \in Seq(Nat)
    <3>1. CASE ip \in DOMAIN attempts'
      <4>1. PICK times \in Seq(Nat), time \in Nat : times = attempts'[ip] /\ time = now'
        BY <1>P, <3>1 DEF TypeOK
      <4>2. recent = InWindow(times, time)
        BY <2>4, <3>1, <4>1 DEF Recent
      <4> QED
        BY <4>1, <4>2, WindowAgain
    <3>2. CASE ip \notin DOMAIN attempts'
      BY <2>4, <3>2, EmptySeq DEF Recent
    <3> QED
      BY <3>1, <3>2
  <2>6. Len(recent) \in Nat
    BY <2>5, LenProperties
  <2> QED
    BY <2>1, <2>3, <2>4, <2>6 DEF Failed
<1>D. ASSUME Failed(ip)' <= Failed(ip), Cardinality(Forms(ip))' <= Cardinality(Forms(ip))
      PROVE  (Failed(ip) + Cardinality(Forms(ip)))' < RateLimit + Cardinality(Request)
  BY <1>D, <1>I, <1>T, <1>N
<1>S. ASSUME UNCHANGED <<now, attempts>>
      PROVE  Failed(ip)' <= Failed(ip)
  BY <1>S, <1>T DEF Failed, Recent
<1>F. ASSUME UNCHANGED req
      PROVE  Cardinality(Forms(ip))' <= Cardinality(Forms(ip))
  BY <1>F, <1>T DEF Forms
<1>1. CASE Tick
  BY <1>1, TickForgets, <1>D, <1>F DEF Tick
<1>2. ASSUME NEW r \in Request, NEW x \in IP, LoginPost(r, x)
      PROVE  (Failed(ip) + Cardinality(Forms(ip)))' < RateLimit + Cardinality(Request)
  <2>1. Failed(ip)' = Failed(ip)
    BY <1>2, PruneKeeps DEF LoginPost
  <2>2. CASE x = ip /\ Allowed(x)
    <3>1. Failed(ip) < RateLimit
      BY <2>2 DEF Allowed, Failed
    <3> QED
      BY <1>T, <1>N, <2>1, <3>1
  <2>3. CASE x # ip /\ Allowed(x)
    <3>1. Forms(ip)' = Forms(ip)
      BY <1>2, <2>3 DEF LoginPost, Forms, Form, Idle, TypeOK
    <3> QED
      BY <1>D, <1>T, <2>1, <3>1
  <2>4. CASE ~Allowed(x)
    BY <1>2, <1>D, <1>F, <1>T, <2>1, <2>4 DEF LoginPost
  <2> QED
    BY <2>2, <2>3, <2>4
<1>3. ASSUME NEW r \in Request, LoginSucceeds(r)
      PROVE  (Failed(ip) + Cardinality(Forms(ip)))' < RateLimit + Cardinality(Request)
  BY <1>3, <1>S, <1>D, FormGoes DEF LoginSucceeds
<1>4. ASSUME NEW r \in Request, LoginFails(r)
      PROVE  (Failed(ip) + Cardinality(Forms(ip)))' < RateLimit + Cardinality(Request)
  <2>1. PICK x \in IP : req[r] = Form(x) /\ req[r].ip = x
    BY <1>4, FormTyped DEF LoginFails
  <2>2. RecordAttempt(x) /\ UNCHANGED now /\ req' = [req EXCEPT ![r] = Idle]
    BY <1>4, <2>1 DEF LoginFails
  <2>3. CASE x = ip
    <3>1. Failed(ip)' <= Failed(ip) + 1
      BY <2>2, <2>3, RecordAdds
    <3>2. Cardinality(Forms(ip))' = Cardinality(Forms(ip)) - 1
      BY <2>1, <2>2, <2>3, FormGoes
    <3> QED
      BY <1>I, <1>T, <1>N, <3>1, <3>2
  <2>4. CASE x # ip
    <3>1. Failed(ip)' = Failed(ip)
      BY <2>2, <2>4, RecordAdds
    <3>2. Cardinality(Forms(ip))' <= Cardinality(Forms(ip))
      BY <2>2, FormGoes
    <3> QED
      BY <1>D, <1>T, <3>1, <3>2
  <2> QED
    BY <2>3, <2>4
<1>5. ASSUME NEW r \in Request, Leave(r)
      PROVE  (Failed(ip) + Cardinality(Forms(ip)))' < RateLimit + Cardinality(Request)
  BY <1>5, <1>S, <1>D, FormGoes DEF Leave
<1>6. ASSUME NEW r \in Request, NEW s \in sessions, Enter(r, s)
      PROVE  (Failed(ip) + Cardinality(Forms(ip)))' < RateLimit + Cardinality(Request)
  <2>1. Cardinality(Forms(ip))' <= Cardinality(Forms(ip))
    BY <1>6, <1>T, EnterForms
  <2>2. Failed(ip)' <= Failed(ip)
    BY <1>6, <1>S DEF Enter
  <2> QED
    BY <1>D, <2>1, <2>2
<1>7. ASSUME NEW s \in sessions, Logout(s)
      PROVE  (Failed(ip) + Cardinality(Forms(ip)))' < RateLimit + Cardinality(Request)
  BY <1>7, <1>S, <1>D, <1>F DEF Logout
<1>8. CASE UNCHANGED vars
  BY <1>8, <1>S, <1>D, <1>F DEF vars
<1> QED
  BY <1>1, <1>2, <1>3, <1>4, <1>5, <1>6, <1>7, <1>8 DEF Next

\* While no more addresses have failed than the table holds, the table knows
\* the addresses that failed, and each window on their recorded attempts, from
\* now on, is as full as that on their failures.
Tracked(ip) == IF ip \in DOMAIN attempts THEN attempts[ip] ELSE << >>

FailuresRecorded ==
    ~crowded =>
        /\ DOMAIN attempts \subseteq Failing
        /\ \A ip \in IP, t \in Nat :
            now <= t => Len(InWindow(Tracked(ip), t)) = Len(InWindow(failures[ip], t))

LEMMA InitRecorded == Init => FailuresRecorded
BY DEF Init, FailuresRecorded, Tracked

LEMMA TrackedTyped ==
    ASSUME TypeOK, NEW ip \in IP
    PROVE  Tracked(ip) \in Seq(Nat) /\ failures[ip] \in Seq(Nat)
BY EmptySeq DEF TypeOK, Tracked

\* What the limiter forgets is in no window any more.
LEMMA PruneRecorded ==
    ASSUME TypeOK, FailuresRecorded, NEW ip \in IP, Prune(ip),
           UNCHANGED <<now, crowded, failures>>
    PROVE  FailuresRecorded'
<1> SUFFICES ASSUME ~crowded
             PROVE  /\ DOMAIN attempts' \subseteq Failing
                    /\ \A x \in IP, t \in Nat :
                        now <= t => Len(InWindow(Tracked(x)', t)) = Len(InWindow(failures[x], t))
  BY DEF FailuresRecorded, Failing
<1>1. now \in Nat
  BY DEF TypeOK
<1>2. DOMAIN attempts' \subseteq DOMAIN attempts /\ DOMAIN attempts \subseteq Failing
  BY DEF FailuresRecorded, Prune, With, Without, Recent
<1>3. ASSUME NEW x \in IP, NEW t \in Nat, now <= t
      PROVE  Len(InWindow(Tracked(x)', t)) = Len(InWindow(Tracked(x), t))
  <2>1. CASE x # ip
    BY <2>1 DEF Tracked, Prune, With, Without
  <2>2. CASE x = ip /\ Recent(ip) # << >>
    <3>1. /\ ip \in DOMAIN attempts /\ attempts[ip] \in Seq(Nat)
          /\ Tracked(ip)' = InWindow(attempts[ip], now)
      BY <2>2 DEF Prune, With, Recent, Tracked, TypeOK
    <3>2. Len(InWindow(InWindow(attempts[ip], now), t)) = Len(InWindow(attempts[ip], t))
      BY <1>1, <1>3, <3>1, WindowTwice
    <3> QED
      BY <2>2, <3>1, <3>2 DEF Tracked
  <2>3. CASE x = ip /\ Recent(ip) = << >> /\ ip \in DOMAIN attempts
    <3>1. Tracked(ip)' = << >> /\ Tracked(ip) = attempts[ip] /\ attempts[ip] \in Seq(Nat)
      BY <2>3 DEF Prune, Without, Tracked, TypeOK
    <3>2. Len(InWindow(InWindow(attempts[ip], now), t)) = Len(InWindow(attempts[ip], t))
      BY <1>1, <1>3, <3>1, WindowTwice
    <3> QED
      BY <2>3, <3>1, <3>2 DEF Recent
  <2>4. CASE x = ip /\ ip \notin DOMAIN attempts
    BY <2>4 DEF Recent, Prune, Without, Tracked
  <2> QED
    BY <2>1, <2>2, <2>3, <2>4
<1> QED
  BY <1>2, <1>3 DEF FailuresRecorded

\* A failure finds its place in the table, or there are too many addresses.
LEMMA FailRecorded ==
    ASSUME TypeOK, FailuresRecorded, NEW ip \in IP,
           RecordAttempt(ip), Fail(ip), UNCHANGED now
    PROVE  FailuresRecorded'
<1> SUFFICES ASSUME ~crowded'
             PROVE  /\ DOMAIN attempts' \subseteq Failing'
                    /\ \A x \in IP, t \in Nat :
                        now <= t => Len(InWindow(Tracked(x)', t)) = Len(InWindow(failures'[x], t))
  BY DEF FailuresRecorded
<1>1. /\ ~crowded /\ ~(Cardinality(Failing \cup {ip}) > MaxTrackedIPs)
      /\ failures' = [failures EXCEPT ![ip] = Append(failures[ip], now)]
      /\ failures \in [IP -> Seq(Nat)] /\ now \in Nat
      /\ DOMAIN attempts \subseteq Failing
  BY DEF Fail, FailuresRecorded, TypeOK
<1>2. PICK more \in Seq(Nat) : more = Append(failures[ip], now) /\ more # << >>
  <2>1. failures[ip] \in Seq(Nat)
    BY <1>1
  <2>2. /\ Append(failures[ip], now) \in Seq(Nat)
        /\ Len(Append(failures[ip], now)) = Len(failures[ip]) + 1
        /\ Len(failures[ip]) \in Nat
    BY <1>1, <2>1, AppendProperties, LenProperties
  <2>3. Append(failures[ip], now) # << >>
    BY <2>2, EmptySeq
  <2> QED
    BY <2>2, <2>3
<1>3. Failing' = Failing \cup {ip}
  BY <1>1, <1>2 DEF Failing
<1>4. \/ ip \in DOMAIN attempts
      \/ attempts' = With(ip, <<now>>) /\ ip \notin DOMAIN attempts
  <2> SUFFICES ASSUME ip \notin DOMAIN attempts, Cardinality(DOMAIN attempts) >= MaxTrackedIPs
               PROVE  FALSE
    BY DEF RecordAttempt
  <2>1. PICK tracked : tracked = DOMAIN attempts
    OBVIOUS
  <2>2. IsFiniteSet(tracked) /\ Cardinality(tracked) \in Nat
    BY <2>1, PanelAssumption, FS_Subset, FS_CardinalityType DEF TypeOK
  <2>3. Cardinality(tracked \cup {ip}) = Cardinality(tracked) + 1
    BY <2>1, <2>2, FS_AddElement
  <2>4. PICK known : known = Failing \cup {ip}
    OBVIOUS
  <2>5. IsFiniteSet(known) /\ tracked \cup {ip} \subseteq known
    BY <1>1, <2>1, <2>4, PanelAssumption, FS_Subset DEF Failing
  <2>6. /\ Cardinality(known) \in Nat
        /\ Cardinality(tracked \cup {ip}) <= Cardinality(known)
    BY <2>5, FS_Subset, FS_CardinalityType
  <2>7. MaxTrackedIPs \in Nat
    BY PanelAssumption
  <2> QED
    BY <1>1, <2>1, <2>2, <2>3, <2>4, <2>6, <2>7
<1>5. DOMAIN attempts' \subseteq Failing'
  BY <1>1, <1>3, <1>4 DEF RecordAttempt, With
<1>6. Tracked(ip)' = Append(Tracked(ip), now)
  <2>1. CASE ip \in DOMAIN attempts
    BY <2>1 DEF RecordAttempt, With, Tracked
  <2>2. CASE ip \notin DOMAIN attempts
    BY <1>4, <2>2, EmptySeq DEF With, Tracked
  <2> QED
    BY <2>1, <2>2
<1>7. ASSUME NEW x \in IP, NEW t \in Nat, now <= t
      PROVE  Len(InWindow(Tracked(x)', t)) = Len(InWindow(failures'[x], t))
  <2>1. Len(InWindow(Tracked(x), t)) = Len(InWindow(failures[x], t))
    BY <1>1, <1>7 DEF FailuresRecorded
  <2>2. Tracked(x) \in Seq(Nat) /\ failures[x] \in Seq(Nat)
    BY TrackedTyped
  <2>3. CASE x = ip
    <3>1. failures'[ip] = Append(failures[ip], now)
      BY <1>1
    <3>2. /\ t - now < RateWindow =>
                Len(InWindow(Append(Tracked(ip), now), t)) = Len(InWindow(Tracked(ip), t)) + 1
          /\ ~(t - now < RateWindow) =>
                Len(InWindow(Append(Tracked(ip), now), t)) = Len(InWindow(Tracked(ip), t))
      BY <1>1, <2>2, <2>3, WindowAppend
    <3>3. /\ t - now < RateWindow =>
                Len(InWindow(Append(failures[ip], now), t)) = Len(InWindow(failures[ip], t)) + 1
          /\ ~(t - now < RateWindow) =>
                Len(InWindow(Append(failures[ip], now), t)) = Len(InWindow(failures[ip], t))
      BY <1>1, <2>2, <2>3, WindowAppend
    <3> QED
      BY <1>6, <2>1, <2>3, <3>1, <3>2, <3>3
  <2>4. CASE x # ip
    <3>1. failures'[x] = failures[x] /\ Tracked(x)' = Tracked(x)
      BY <1>1, <2>4 DEF RecordAttempt, With, Tracked
    <3> QED
      BY <2>1, <3>1
  <2> QED
    BY <2>3, <2>4
<1> QED
  BY <1>5, <1>7

LEMMA NextRecorded == TypeOK /\ FailuresRecorded /\ [Next]_vars => FailuresRecorded'
<1> SUFFICES ASSUME TypeOK, FailuresRecorded, [Next]_vars PROVE FailuresRecorded'
  OBVIOUS
<1>S. ASSUME UNCHANGED <<now, attempts, crowded, failures>>
      PROVE  FailuresRecorded'
  BY <1>S DEF FailuresRecorded, Failing, Tracked
<1>1. CASE Tick
  <2>1. now \in Nat /\ now' = now + 1 /\ UNCHANGED <<attempts, crowded, failures>>
    BY <1>1 DEF Tick, TypeOK
  <2>2. \A t \in Nat : now' <= t => now <= t
    BY <2>1
  <2> QED
    BY <2>1, <2>2 DEF FailuresRecorded, Failing, Tracked
<1>2. ASSUME NEW r \in Request, NEW ip \in IP, LoginPost(r, ip)
      PROVE  FailuresRecorded'
  BY <1>2, PruneRecorded DEF LoginPost
<1>3. ASSUME NEW r \in Request, LoginSucceeds(r)
      PROVE  FailuresRecorded'
  BY <1>3, <1>S DEF LoginSucceeds
<1>4. ASSUME NEW r \in Request, LoginFails(r)
      PROVE  FailuresRecorded'
  <2>1. PICK ip \in IP : req[r].ip = ip
    BY <1>4, FormTyped DEF LoginFails
  <2> QED
    BY <1>4, <2>1, FailRecorded DEF LoginFails
<1>5. ASSUME NEW r \in Request, Leave(r)
      PROVE  FailuresRecorded'
  BY <1>5, <1>S DEF Leave
<1>6. ASSUME NEW r \in Request, NEW s \in sessions, Enter(r, s)
      PROVE  FailuresRecorded'
  BY <1>6, <1>S DEF Enter
<1>7. ASSUME NEW s \in sessions, Logout(s)
      PROVE  FailuresRecorded'
  BY <1>7, <1>S DEF Logout
<1>8. CASE UNCHANGED vars
  BY <1>8, <1>S DEF vars
<1> QED
  BY <1>1, <1>2, <1>3, <1>4, <1>5, <1>6, <1>7, <1>8 DEF Next

\* What is recorded is then all there is to bound.
LEMMA RecordedIsAll == TypeOK /\ FailuresRecorded /\ RecordedBounded => OverrunBounded
<1> SUFFICES ASSUME TypeOK, FailuresRecorded, RecordedBounded, ~crowded, NEW ip \in IP
             PROVE  Len(InWindow(failures[ip], now)) + Cardinality(Forms(ip))
                        < RateLimit + Cardinality(Request)
  BY DEF OverrunBounded
<1>1. now \in Nat /\ now <= now
  BY DEF TypeOK
<1>2. Len(InWindow(Tracked(ip), now)) = Len(InWindow(failures[ip], now))
  BY <1>1 DEF FailuresRecorded
<1>3. Len(Recent(ip)) = Len(InWindow(Tracked(ip), now))
  <2>1. CASE ip \in DOMAIN attempts
    BY <2>1 DEF Recent, Tracked
  <2>2. CASE ip \notin DOMAIN attempts
    BY <1>1, <2>2, WindowOfNone, EmptySeq DEF Recent, Tracked
  <2> QED
    BY <2>1, <2>2
<1> QED
  BY <1>2, <1>3 DEF RecordedBounded

\* However the checks and the records of concurrent logins interleave, and
\* whatever the limiter forgets on the way: while no more addresses have failed
\* than the table holds, the failed logins of an address in a window, with its
\* logins under way, overrun the limit by no more than the requests under way.
THEOREM OverrunAlwaysBounded == Spec => []OverrunBounded
BY InitTyped, NextTyped, InitOverrun, NextOverrun, InitRecorded, NextRecorded, RecordedIsAll,
   PTL DEF Spec
=============================================================================
