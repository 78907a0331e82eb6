----------------------------- MODULE SleepProofs -----------------------------
(***************************************************************************)
(* Proofs about Sleep, for any wakers, asserting goroutines and sleepers.   *)
(***************************************************************************)
EXTENDS Sleep, TLAPS

Ptr        == Wakers \cup {Nil}
Goroutines == Threads \cup {Self}

(* The list that begins at a nil pointer is empty.                          *)
LEMMA ListNil ==
  ASSUME NEW nx PROVE ListOf(nx, Nil) = {}
<1>1. {} \in SUBSET Wakers /\ Nil \in {} \cup {Nil}
  OBVIOUS
<1>2. \A w \in ListOf(nx, Nil) : w \in {}
  BY <1>1, Zenon DEF ListOf
<1> QED
  BY <1>2

(* A list lies within any set that has its head and is closed under next.   *)
LEMMA ListLeast ==
  ASSUME NEW nx, NEW h, NEW S \in SUBSET Wakers, h \in S \cup {Nil},
         \A x \in S : nx[x] \in S \cup {Nil}
  PROVE  ListOf(nx, h) \subseteq S
  BY DEF ListOf

(* A list has its head, and is itself closed under next.                    *)
LEMMA ListClosed ==
  ASSUME NEW nx \in [Wakers -> Ptr], NEW h \in Ptr
  PROVE  /\ ListOf(nx, h) \subseteq Wakers
         /\ h \in ListOf(nx, h) \cup {Nil}
         /\ \A x \in ListOf(nx, h) : nx[x] \in ListOf(nx, h) \cup {Nil}
<1>1. ListOf(nx, h) \subseteq Wakers
  BY DEF ListOf
<1>2. h \in ListOf(nx, h) \cup {Nil}
  BY DEF ListOf, Ptr
<1>3. ASSUME NEW x \in ListOf(nx, h) PROVE nx[x] \in ListOf(nx, h) \cup {Nil}
  <2>1. x \in Wakers /\ nx[x] \in Ptr
    BY <1>1
  <2>2. CASE nx[x] \in Wakers
    <3>1. ASSUME NEW S \in SUBSET Wakers, h \in S \cup {Nil},
                 \A y \in S : nx[y] \in S \cup {Nil}
          PROVE  nx[x] \in S
      <4>1. x \in S
        BY <1>3, <3>1 DEF ListOf
      <4> QED
        BY <4>1, <3>1, <2>2, SleepAssumption
    <3> QED
      BY <3>1, <2>2 DEF ListOf
  <2> QED
    BY <2>1, <2>2 DEF Ptr
<1> QED
  BY <1>1, <1>2, <1>3

(* A list is its head and the list that begins at the next waker.           *)
LEMMA ListUnfold ==
  ASSUME NEW nx \in [Wakers -> Ptr], NEW h \in Wakers
  PROVE  ListOf(nx, h) = {h} \cup ListOf(nx, nx[h])
<1> DEFINE L == ListOf(nx, h)
           R == ListOf(nx, nx[h])
<1>1. h \in Ptr /\ nx[h] \in Ptr /\ h # Nil
  BY SleepAssumption DEF Ptr
<1>2. L \subseteq Wakers /\ h \in L /\ \A x \in L : nx[x] \in L \cup {Nil}
  BY <1>1, ListClosed
<1>3. /\ R \subseteq Wakers /\ nx[h] \in R \cup {Nil}
      /\ \A x \in R : nx[x] \in R \cup {Nil}
  BY <1>1, ListClosed
<1>4. R \subseteq L
  <2> HIDE DEF L
  <2> QED
    BY <1>2, ListLeast
<1>5. L \subseteq {h} \cup R
  <2> HIDE DEF R
  <2>1. {h} \cup R \in SUBSET Wakers
    BY <1>3
  <2> QED
    BY <1>3, <2>1, ListLeast
<1> QED
  BY <1>2, <1>4, <1>5

(* A list that the waker is not in does not change with the waker's next.   *)
LEMMA ListFrame ==
  ASSUME NEW nx \in [Wakers -> Ptr], NEW h \in Ptr, NEW x \in Wakers,
         NEW v \in Ptr, x \notin ListOf(nx, h)
  PROVE  ListOf([nx EXCEPT ![x] = v], h) = ListOf(nx, h)
<1> DEFINE ny == [nx EXCEPT ![x] = v]
           L  == ListOf(nx, h)
           M  == ListOf(ny, h)
<1>1. ny \in [Wakers -> Ptr] /\ \A y \in Wakers : y # x => ny[y] = nx[y]
  OBVIOUS
<1>2. /\ L \subseteq Wakers /\ h \in L \cup {Nil}
      /\ \A y \in L : nx[y] \in L \cup {Nil}
  BY ListClosed
<1>3. M \subseteq L
  <2>1. \A y \in L : ny[y] \in L \cup {Nil}
    BY <1>1, <1>2
  <2> HIDE DEF L, ny
  <2> QED
    BY <1>2, <2>1, ListLeast
<1>4. /\ M \subseteq Wakers /\ h \in M \cup {Nil}
      /\ \A y \in M : ny[y] \in M \cup {Nil}
  <2> HIDE DEF ny
  <2> QED
    BY <1>1, ListClosed
<1>5. L \subseteq M
  <2>1. \A y \in M : nx[y] \in M \cup {Nil}
    BY <1>1, <1>3, <1>4
  <2> HIDE DEF M
  <2> QED
    BY <1>4, <2>1, ListLeast
<1> QED
  BY <1>3, <1>5

(* A list gains at most the list that the changed pointer leads to.         *)
LEMMA ListBound ==
  ASSUME NEW nx \in [Wakers -> Ptr], NEW h \in Ptr, NEW x \in Wakers,
         NEW v \in Ptr
  PROVE  ListOf([nx EXCEPT ![x] = v], h) \subseteq ListOf(nx, h) \cup ListOf(nx, v)
<1> DEFINE ny == [nx EXCEPT ![x] = v]
           L  == ListOf(nx, h)
           V  == ListOf(nx, v)
<1>1. ny[x] = v /\ \A y \in Wakers : y # x => ny[y] = nx[y]
  OBVIOUS
<1>2. /\ L \subseteq Wakers /\ h \in L \cup {Nil}
      /\ \A y \in L : nx[y] \in L \cup {Nil}
  BY ListClosed
<1>3. /\ V \subseteq Wakers /\ v \in V \cup {Nil}
      /\ \A y \in V : nx[y] \in V \cup {Nil}
  BY ListClosed
<1> HIDE DEF L, V, ny
<1>4. L \cup V \in SUBSET Wakers /\ h \in (L \cup V) \cup {Nil}
  BY <1>2, <1>3
<1>5. \A y \in L \cup V : ny[y] \in (L \cup V) \cup {Nil}
  BY <1>1, <1>2, <1>3
<1>6. ListOf(ny, h) \subseteq L \cup V
  BY <1>4, <1>5, ListLeast
<1> QED
  BY <1>6 DEF L, V, ny

-----------------------------------------------------------------------------
(* No waker twice in allWakers.                                             *)
Distinct(s) == \A i, j \in DOMAIN s : s[i] = s[j] => i = j

(* What unlinking a waker from allWakers leaves.                            *)
LEMMA WithoutFacts ==
  ASSUME NEW s \in Seq(Wakers), NEW w \in Range(s), Distinct(s)
  PROVE  /\ Without(s, w) \in Seq(Wakers) /\ Distinct(Without(s, w))
         /\ Range(Without(s, w)) = Range(s) \ {w}
<1> DEFINE i == CHOOSE k \in DOMAIN s : s[k] = w
           r == [k \in 1 .. Len(s) - 1 |-> s[IF k < i THEN k ELSE k + 1]]
<1>1. \E k \in DOMAIN s : s[k] = w
  BY DEF Range
<1>2. i \in DOMAIN s /\ s[i] = w
  BY <1>1
<1>3. Without(s, w) = r
  BY DEF Without
<1>4. i \in 1 .. Len(s) /\ DOMAIN s = 1 .. Len(s) /\ Len(s) \in Nat
  BY <1>2
<1> HIDE DEF i
<1>5. r \in Seq(Wakers)
  <2>1. \A k \in 1 .. Len(s) - 1 : s[IF k < i THEN k ELSE k + 1] \in Wakers
    BY <1>4
  <2> QED
    BY <2>1, <1>4
<1>6. \A k \in 1 .. (Len(s) - 1) : r[k] = IF k < i THEN s[k] ELSE s[k + 1]
  OBVIOUS
<1>7. DOMAIN r = 1 .. (Len(s) - 1)
  OBVIOUS
<1> HIDE DEF r
<1>8. Distinct(r)
  <2> DEFINE to(k) == IF k < i THEN k ELSE k + 1
  <2>1. \A k \in 1 .. (Len(s) - 1) : to(k) \in 1 .. Len(s) /\ r[k] = s[to(k)]
    BY <1>4, <1>6
  <2>2. \A j, k \in 1 .. (Len(s) - 1) : to(j) = to(k) => j = k
    BY <1>4
  <2>3. \A j, k \in 1 .. Len(s) : s[j] = s[k] => j = k
    BY <1>4 DEF Distinct
  <2> HIDE DEF to
  <2>4. \A j, k \in 1 .. (Len(s) - 1) : r[j] = r[k] => j = k
    BY <2>1, <2>2, <2>3, Zenon
  <2> QED
    BY <2>4, <1>7, Zenon DEF Distinct
<1>9. \A x \in Range(r) : x \in Range(s) \ {w}
  <2> SUFFICES ASSUME NEW k \in 1 .. (Len(s) - 1)
               PROVE  r[k] \in Range(s) /\ r[k] # w
    BY <1>7, Zenon DEF Range
  <2> DEFINE l == IF k < i THEN k ELSE k + 1
  <2>1. l \in 1 .. Len(s) /\ l # i
    BY <1>4
  <2>2. r[k] = s[l]
    BY <1>6
  <2> HIDE DEF l
  <2>3. s[l] \in Range(s)
    BY <2>1, <1>4, Zenon DEF Range
  <2>4. s[l] # s[i]
    BY <2>1, <1>4, Zenon DEF Distinct
  <2> QED
    BY <2>2, <2>3, <2>4, <1>2, Zenon
<1>10. ASSUME NEW x \in Range(s), x # w PROVE x \in Range(r)
  <2>1. PICK k \in 1 .. Len(s) : s[k] = x
    BY <1>4 DEF Range
  <2>2. k # i
    BY <2>1, <1>2, <1>10
  <2>3. CASE k < i
    BY <2>1, <2>3, <1>4, <1>6, <1>7 DEF Range
  <2>4. CASE k > i
    <3>1. k - 1 \in 1 .. (Len(s) - 1) /\ ~(k - 1 < i) /\ (k - 1) + 1 = k
      BY <2>1, <2>4, <1>4
    <3>2. r[k - 1] = x
      BY <3>1, <2>1, <1>6
    <3> QED
      BY <3>1, <3>2, <1>7 DEF Range
  <2> QED
    BY <2>1, <2>2, <2>3, <2>4, <1>4
<1> QED
  BY <1>3, <1>5, <1>8, <1>9, <1>10

(* What AddWaker makes of allWakers.                                        *)
LEMMA AddedFacts ==
  ASSUME NEW s \in Seq(Wakers), NEW w \in Wakers, w \notin Range(s), Distinct(s)
  PROVE  /\ <<w>> \o s \in Seq(Wakers) /\ Distinct(<<w>> \o s)
         /\ Range(<<w>> \o s) = Range(s) \cup {w}
<1> DEFINE r == <<w>> \o s
<1>1. r \in Seq(Wakers) /\ Len(r) = Len(s) + 1 /\ Len(s) \in Nat
  OBVIOUS
<1>2. r[1] = w /\ \A k \in 1 .. Len(s) : r[k + 1] = s[k]
  OBVIOUS
<1>3. DOMAIN r = 1 .. (Len(s) + 1) /\ DOMAIN s = 1 .. Len(s)
  BY <1>1
<1> HIDE DEF r
<1>4. ASSUME NEW k \in 1 .. (Len(s) + 1), k # 1
      PROVE  k - 1 \in DOMAIN s /\ r[k] = s[k - 1]
  <2>1. k - 1 \in 1 .. Len(s) /\ (k - 1) + 1 = k
    BY <1>1, <1>4
  <2>2. r[(k - 1) + 1] = s[k - 1]
    BY <2>1, <1>2
  <2> QED
    BY <2>1, <2>2, <1>3
<1>5. Distinct(r)
  <2> SUFFICES ASSUME NEW j \in 1 .. (Len(s) + 1), NEW k \in 1 .. (Len(s) + 1),
                      r[j] = r[k]
               PROVE  j = k
    BY <1>3 DEF Distinct
  <2>1. CASE j = 1 \/ k = 1
    BY <2>1, <1>2, <1>4 DEF Range
  <2>2. CASE j # 1 /\ k # 1
    <3>1. j - 1 = k - 1
      BY <2>2, <1>4 DEF Distinct
    <3> QED
      BY <3>1, <1>1
  <2> QED
    BY <2>1, <2>2
<1>6. ASSUME NEW x \in Range(r) PROVE x \in Range(s) \cup {w}
  <2>1. PICK k \in 1 .. (Len(s) + 1) : r[k] = x
    BY <1>3 DEF Range
  <2>2. k = 1 \/ x \in Range(s)
    BY <2>1, <1>4 DEF Range
  <2> QED
    BY <2>1, <2>2, <1>2
<1>7. ASSUME NEW x \in Range(s) PROVE x \in Range(r)
  <2>1. PICK k \in 1 .. Len(s) : s[k] = x
    BY <1>3 DEF Range
  <2>2. k + 1 \in DOMAIN r /\ r[k + 1] = x
    BY <2>1, <1>1, <1>2, <1>3
  <2> QED
    BY <2>2 DEF Range
<1>8. w \in Range(r)
  BY <1>1, <1>2, <1>3 DEF Range
<1> QED
  BY <1>1, <1>5, <1>6, <1>7, <1>8 DEF r

-----------------------------------------------------------------------------
PushType ==
  /\ push \in [Goroutines -> [at : {"idle", "load", "cas", "look", "signal"},
                              w : Ptr, s : Sleepers \cup {Nil}, v : Ptr]]
  /\ \A t \in Goroutines :
       /\ push[t].at # "idle" => push[t].s \in Sleepers
       /\ push[t].at \in {"load", "cas"} => push[t].w \in Wakers

TypeInv ==
  /\ ws \in [Wakers -> {Nil, Asserted} \cup Sleepers]
  /\ next \in [Wakers -> Ptr] /\ shared \in [Sleepers -> Ptr]
  /\ waiting \in [Sleepers -> {"0", "preparing", "G"}]
  /\ local \in Ptr /\ hand \in Ptr /\ cur \in Sleepers
  /\ PushType

(* Only the sleeper in use is announced or asleep, and only where the       *)
(* goroutine has announced it and not yet taken it back.                    *)
WaitInv ==
  /\ ReadiesParked
  /\ \A s \in Sleepers :
       waiting[s] = "preparing" => s = cur /\ pc \in {"again", "abort", "park"}

(* What nextWaker has found at each of its steps.                           *)
StepInv ==
  /\ pc \in {"shared", "prepare", "again", "abort", "park", "asleep", "take"}
       => local = Nil
  /\ pc \in {"abort", "take"} => shared[cur] # Nil
  /\ pc = "pop" => local # Nil
  /\ pc = "reverse" <=> hand # Nil

Inv == TypeInv /\ WaitInv /\ StepInv

(* The invariant holds at first.                                            *)
LEMMA InvInit == Init => Inv
<1> SUFFICES ASSUME Init PROVE Inv
  OBVIOUS
<1> USE SleepAssumption DEF Init, NoPush, Ptr, Goroutines
<1>1. TypeInv
  BY DEF TypeInv, PushType
<1>2. WaitInv
  BY DEF WaitInv, ReadiesParked
<1>3. StepInv
  BY DEF StepInv
<1> QED
  BY <1>1, <1>2, <1>3 DEF Inv

(* Start leaves the goroutine about to queue the waker, and the others be.  *)
LEMMA StartFacts ==
  ASSUME PushType, NEW t \in Goroutines, NEW w \in Wakers, NEW s \in Sleepers,
         Start(t, w, s)
  PROVE  /\ PushType'
         /\ push'[t].at = "load" /\ push'[t].w = w /\ push'[t].s = s
         /\ \A u \in Goroutines \ {t} : push'[u] = push[u]
<1> DEFINE p == [at |-> "load", w |-> w, s |-> s, v |-> Nil]
<1>1. push' = [push EXCEPT ![t] = p]
  BY DEF Start
<1>2. p \in [at : {"idle", "load", "cas", "look", "signal"},
            w : Ptr, s : Sleepers \cup {Nil}, v : Ptr]
  BY DEF Ptr
<1>3. push'[t] = p /\ \A u \in Goroutines \ {t} : push'[u] = push[u]
  BY <1>1 DEF PushType
<1>4. PushType'
  BY <1>1, <1>2, <1>3 DEF PushType
<1> QED
  BY <1>3, <1>4

(* A step of Assert keeps Inv, whoever makes it; so does each other step.   *)
LEMMA InvNext == Inv /\ [Next]_vars => Inv'
<1> SUFFICES ASSUME Inv, [Next]_vars PROVE Inv'
  OBVIOUS
<1> USE SleepAssumption
<1>1. TypeInv /\ WaitInv /\ StepInv
  BY DEF Inv
<1>2. ASSUME NEW t \in Goroutines, NEW w \in Wakers, AssertBy(t, w) PROVE Inv'
  <2>1. TypeInv'
    <3>1. PushType'
      BY <1>1, <1>2, StartFacts DEF TypeInv, PushType, Goroutines, AssertBy, Assert
    <3> QED
      BY <3>1, <1>1, <1>2 DEF TypeInv, lists, AssertBy, Assert
  <2>2. WaitInv'
    BY <1>1, <1>2 DEF TypeInv, WaitInv, ReadiesParked, StepInv, Goroutines, lists, AssertBy, Assert, Start
  <2>3. StepInv'
    BY <1>1, <1>2 DEF TypeInv, WaitInv, ReadiesParked, StepInv, Goroutines, lists, AssertBy, Assert, Start
  <2> QED
    BY <2>1, <2>2, <2>3 DEF Inv
<1>3. ASSUME NEW w \in Wakers, Clear(w) PROVE Inv'
  <2>1. TypeInv'
    BY <1>1, <1>3 DEF TypeInv, PushType, StepInv, Ptr, Goroutines, lists, Clear, Cleared
  <2>2. WaitInv'
    BY <1>1, <1>3 DEF TypeInv, WaitInv, ReadiesParked, StepInv, Goroutines, lists, Clear, Cleared
  <2>3. StepInv'
    BY <1>1, <1>3 DEF TypeInv, WaitInv, ReadiesParked, StepInv, Goroutines, lists, Clear, Cleared
  <2> QED
    BY <2>1, <2>2, <2>3 DEF Inv
<1>4. ASSUME NEW t \in Goroutines, PushLoad(t) PROVE Inv'
  <2>1. TypeInv'
    BY <1>1, <1>4 DEF TypeInv, PushType, StepInv, Ptr, Goroutines, lists, PushLoad
  <2>2. WaitInv'
    BY <1>1, <1>4 DEF TypeInv, PushType, WaitInv, ReadiesParked, StepInv, Goroutines, lists, PushLoad
  <2>3. StepInv'
    BY <1>1, <1>4 DEF TypeInv, PushType, WaitInv, ReadiesParked, StepInv, Goroutines, lists, PushLoad
  <2> QED
    BY <2>1, <2>2, <2>3 DEF Inv
<1>5. ASSUME NEW t \in Goroutines, PushSwap(t) PROVE Inv'
  <2>1. TypeInv'
    BY <1>1, <1>5 DEF TypeInv, PushType, StepInv, Ptr, Goroutines, lists, PushSwap, Pushes
  <2>2. WaitInv'
    BY <1>1, <1>5 DEF TypeInv, PushType, WaitInv, ReadiesParked, StepInv, Goroutines, lists, PushSwap, Pushes
  <2>3. StepInv'
    BY <1>1, <1>5 DEF TypeInv, PushType, WaitInv, ReadiesParked, StepInv, Goroutines, lists, PushSwap, Pushes
  <2> QED
    BY <2>1, <2>2, <2>3 DEF Inv
<1>6. ASSUME NEW t \in Goroutines, LookWaiting(t) PROVE Inv'
  <2>1. TypeInv'
    BY <1>1, <1>6 DEF TypeInv, PushType, StepInv, Ptr, Goroutines, lists, LookWaiting, Ends, At, NoPush
  <2>2. WaitInv'
    BY <1>1, <1>6 DEF TypeInv, PushType, WaitInv, ReadiesParked, StepInv, Goroutines, lists, LookWaiting, Ends, At, NoPush
  <2>3. StepInv'
    BY <1>1, <1>6 DEF TypeInv, PushType, WaitInv, ReadiesParked, StepInv, Goroutines, lists, LookWaiting, Ends, At, NoPush
  <2> QED
    BY <2>1, <2>2, <2>3 DEF Inv
<1>7. ASSUME NEW t \in Goroutines, Signal(t) PROVE Inv'
  <2>1. TypeInv'
    BY <1>1, <1>7 DEF TypeInv, PushType, StepInv, Ptr, Goroutines, lists, Signal, NotWaiting, Ends, NoPush
  <2>2. WaitInv'
    BY <1>1, <1>7 DEF TypeInv, PushType, WaitInv, ReadiesParked, StepInv, Goroutines, lists, Signal, NotWaiting, Ends, NoPush
  <2>3. StepInv'
    BY <1>1, <1>7 DEF TypeInv, PushType, WaitInv, ReadiesParked, StepInv, Goroutines, lists, Signal, NotWaiting, Ends, NoPush
  <2> QED
    BY <2>1, <2>2, <2>3 DEF Inv
<1>8. ASSUME NEW w \in Wakers, AddWaker(w) PROVE Inv'
  <2>1. TypeInv'
    <3>1. PushType'
      BY <1>1, <1>8, StartFacts DEF TypeInv, PushType, Goroutines, AddWaker
    <3> QED
      BY <3>1, <1>1, <1>8 DEF TypeInv, lists, AddWaker
  <2>2. WaitInv'
    BY <1>1, <1>8 DEF TypeInv, WaitInv, ReadiesParked, StepInv, Goroutines, lists, AddWaker, Start, Step
  <2>3. StepInv'
    BY <1>1, <1>8 DEF TypeInv, WaitInv, ReadiesParked, StepInv, Goroutines, lists, AddWaker, Start, Step
  <2> QED
    BY <2>1, <2>2, <2>3 DEF Inv
<1>9. ASSUME NEW o, Fetch(o) PROVE Inv'
  <2>1. TypeInv'
    BY <1>1, <1>9 DEF TypeInv, PushType, StepInv, Ptr, Goroutines, lists, Fetch, Step, NextWaker
  <2>2. WaitInv'
    BY <1>1, <1>9 DEF TypeInv, WaitInv, ReadiesParked, StepInv, Goroutines, lists, Fetch, Step, NextWaker
  <2>3. StepInv'
    BY <1>1, <1>9 DEF TypeInv, WaitInv, ReadiesParked, StepInv, Goroutines, lists, Fetch, Step, NextWaker
  <2> QED
    BY <2>1, <2>2, <2>3 DEF Inv
<1>10. ASSUME NEW w \in Wakers, AssertAndFetch(w) PROVE Inv'
  <2>1. TypeInv'
    <3>1. PushType'
      BY <1>1, <1>10, StartFacts DEF TypeInv, PushType, Goroutines, AssertAndFetch, Assert
    <3> QED
      BY <3>1, <1>1, <1>10 DEF TypeInv, lists, AssertAndFetch, Assert
  <2>2. WaitInv'
    BY <1>1, <1>10 DEF TypeInv, WaitInv, ReadiesParked, StepInv, Goroutines, lists, AssertAndFetch, Step, NextWaker, Assert, Start
  <2>3. StepInv'
    BY <1>1, <1>10 DEF TypeInv, WaitInv, ReadiesParked, StepInv, Goroutines, lists, AssertAndFetch, Step, NextWaker, Assert, Start
  <2> QED
    BY <2>1, <2>2, <2>3 DEF Inv
<1>11. CASE SharedList
  <2>1. TypeInv'
    BY <1>1, <1>11 DEF TypeInv, PushType, StepInv, Ptr, Goroutines, lists, SharedList
  <2>2. WaitInv'
    BY <1>1, <1>11 DEF TypeInv, WaitInv, ReadiesParked, StepInv, Goroutines, lists, SharedList
  <2>3. StepInv'
    BY <1>1, <1>11 DEF TypeInv, WaitInv, ReadiesParked, StepInv, Goroutines, lists, SharedList
  <2> QED
    BY <2>1, <2>2, <2>3 DEF Inv
<1>12. CASE Prepare
  <2>1. TypeInv'
    BY <1>1, <1>12 DEF TypeInv, PushType, StepInv, Ptr, Goroutines, lists, Prepare, Step
  <2>2. WaitInv'
    BY <1>1, <1>12 DEF TypeInv, WaitInv, ReadiesParked, StepInv, Goroutines, lists, Prepare, Step
  <2>3. StepInv'
    BY <1>1, <1>12 DEF TypeInv, WaitInv, ReadiesParked, StepInv, Goroutines, lists, Prepare, Step
  <2> QED
    BY <2>1, <2>2, <2>3 DEF Inv
<1>13. CASE CheckAgain
  <2>1. TypeInv'
    BY <1>1, <1>13 DEF TypeInv, PushType, StepInv, Ptr, Goroutines, lists, CheckAgain, Step, LookAgain
  <2>2. WaitInv'
    BY <1>1, <1>13 DEF TypeInv, WaitInv, ReadiesParked, StepInv, Goroutines, lists, CheckAgain, Step, LookAgain
  <2>3. StepInv'
    BY <1>1, <1>13 DEF TypeInv, WaitInv, ReadiesParked, StepInv, Goroutines, lists, CheckAgain, Step, LookAgain
  <2> QED
    BY <2>1, <2>2, <2>3 DEF Inv
<1>14. CASE AbortSleep
  <2>1. TypeInv'
    BY <1>1, <1>14 DEF TypeInv, PushType, StepInv, Ptr, Goroutines, lists, AbortSleep, Step
  <2>2. WaitInv'
    BY <1>1, <1>14 DEF TypeInv, WaitInv, ReadiesParked, StepInv, Goroutines, lists, AbortSleep, Step
  <2>3. StepInv'
    BY <1>1, <1>14 DEF TypeInv, WaitInv, ReadiesParked, StepInv, Goroutines, lists, AbortSleep, Step
  <2> QED
    BY <2>1, <2>2, <2>3 DEF Inv
<1>15. CASE CommitSleep
  <2>1. TypeInv'
    BY <1>1, <1>15 DEF TypeInv, PushType, StepInv, Ptr, Goroutines, lists, CommitSleep, Step, Commits
  <2>2. WaitInv'
    BY <1>1, <1>15 DEF TypeInv, WaitInv, ReadiesParked, StepInv, Goroutines, lists, CommitSleep, Step, Commits
  <2>3. StepInv'
    BY <1>1, <1>15 DEF TypeInv, WaitInv, ReadiesParked, StepInv, Goroutines, lists, CommitSleep, Step, Commits
  <2> QED
    BY <2>1, <2>2, <2>3 DEF Inv
<1>16. CASE Take
  <2>1. TypeInv'
    BY <1>1, <1>16 DEF TypeInv, PushType, StepInv, Ptr, Goroutines, lists, Take, Step
  <2>2. WaitInv'
    BY <1>1, <1>16 DEF TypeInv, WaitInv, ReadiesParked, StepInv, Goroutines, lists, Take, Step
  <2>3. StepInv'
    BY <1>1, <1>16 DEF TypeInv, WaitInv, ReadiesParked, StepInv, Goroutines, lists, Take, Step
  <2> QED
    BY <2>1, <2>2, <2>3 DEF Inv
<1>17. CASE Reverse1
  <2>1. TypeInv'
    BY <1>1, <1>17 DEF TypeInv, PushType, StepInv, Ptr, Goroutines, lists, Reverse1, Step
  <2>2. WaitInv'
    BY <1>1, <1>17 DEF TypeInv, WaitInv, ReadiesParked, StepInv, Goroutines, lists, Reverse1, Step
  <2>3. StepInv'
    BY <1>1, <1>17 DEF TypeInv, WaitInv, ReadiesParked, StepInv, Goroutines, lists, Reverse1, Step
  <2> QED
    BY <2>1, <2>2, <2>3 DEF Inv
<1>18. CASE Rejoin
  <2>1. TypeInv'
    BY <1>1, <1>18 DEF TypeInv, PushType, StepInv, Ptr, Goroutines, lists, Rejoin, NextWaker
  <2>2. WaitInv'
    BY <1>1, <1>18 DEF TypeInv, WaitInv, ReadiesParked, StepInv, Goroutines, lists, Rejoin, NextWaker
  <2>3. StepInv'
    BY <1>1, <1>18 DEF TypeInv, WaitInv, ReadiesParked, StepInv, Goroutines, lists, Rejoin, NextWaker
  <2> QED
    BY <2>1, <2>2, <2>3 DEF Inv
<1>19. CASE Done
  <2>1. TypeInv'
    BY <1>1, <1>19 DEF TypeInv, PushType, StepInv, Ptr, Goroutines, lists, Done, Step
  <2>2. WaitInv'
    BY <1>1, <1>19 DEF TypeInv, WaitInv, ReadiesParked, StepInv, Goroutines, lists, Done, Step
  <2>3. StepInv'
    BY <1>1, <1>19 DEF TypeInv, WaitInv, ReadiesParked, StepInv, Goroutines, lists, Done, Step
  <2> QED
    BY <2>1, <2>2, <2>3 DEF Inv
<1>20. CASE Release
  <2>1. TypeInv'
    BY <1>1, <1>20 DEF TypeInv, PushType, StepInv, Ptr, Goroutines, lists, Release, LetGo, NextWaker
  <2>2. WaitInv'
    BY <1>1, <1>20 DEF TypeInv, WaitInv, ReadiesParked, StepInv, Goroutines, lists, Release, LetGo, NextWaker
  <2>3. StepInv'
    BY <1>1, <1>20 DEF TypeInv, WaitInv, ReadiesParked, StepInv, Goroutines, lists, Release, LetGo, NextWaker
  <2> QED
    BY <2>1, <2>2, <2>3 DEF Inv
<1>21. CASE Drop
  <2>1. TypeInv'
    BY <1>1, <1>21 DEF TypeInv, PushType, StepInv, Ptr, Goroutines, lists, Drop, LetGo
  <2>2. WaitInv'
    BY <1>1, <1>21 DEF TypeInv, WaitInv, ReadiesParked, StepInv, Goroutines, lists, Drop, LetGo
  <2>3. StepInv'
    BY <1>1, <1>21 DEF TypeInv, WaitInv, ReadiesParked, StepInv, Goroutines, lists, Drop, LetGo
  <2> QED
    BY <2>1, <2>2, <2>3 DEF Inv
<1>22. CASE Finished
  <2>1. TypeInv'
    BY <1>1, <1>22 DEF TypeInv, PushType, StepInv, Ptr, Goroutines, lists, Finished
  <2>2. WaitInv'
    BY <1>1, <1>22 DEF TypeInv, WaitInv, ReadiesParked, StepInv, Goroutines, lists, Finished
  <2>3. StepInv'
    BY <1>1, <1>22 DEF TypeInv, WaitInv, ReadiesParked, StepInv, Goroutines, lists, Finished
  <2> QED
    BY <2>1, <2>2, <2>3 DEF Inv
<1>23. CASE UNCHANGED vars
  BY <1>1, <1>23 DEF Inv, TypeInv, PushType, WaitInv, ReadiesParked, StepInv, vars, lists
<1> QED
  <2>1. ASSUME NEW t \in Goroutines, Push(t) PROVE Inv'
    BY <2>1, <1>4, <1>5, <1>6, <1>7 DEF Push
  <2>2. CASE Working
    BY <2>1, <2>2, <1>11, <1>12, <1>13, <1>14, <1>15, <1>16, <1>17, <1>18, <1>20, <1>21, <1>22 DEF Working, Goroutines
  <2> QED
    BY <2>1, <2>2, <1>2, <1>3, <1>8, <1>9, <1>10, <1>19, <1>23 DEF Next, Goroutines

(* The code behaviour is the pair commitSleep and enqueueAssertedWaker:     *)
(* Goready is called on a goroutine that has parked, never on one that is   *)
(* still deciding or has gone on to another sleeper.                        *)
THEOREM GoreadyFindsParked == Safety => []ReadiesParked
<1>1. Inv => ReadiesParked
  BY DEF Inv, WaitInv
<1> QED
  BY <1>1, InvInit, InvNext, PTL DEF Safety

-----------------------------------------------------------------------------
(* The wakers of the three lists of the sleeper in use, and those that some *)
(* enqueueAssertedWaker is about to queue.                                  *)
SharedWakers == List(shared[cur])
LocalWakers  == List(local)
HandWakers   == List(hand)
Pushing(t)   == push[t].at \in {"load", "cas"}
Pending      == {w \in Wakers : \E t \in Goroutines : Pushing(t) /\ push[t].w = w}

AllInv == all \in Seq(Wakers) /\ Distinct(all)

(* Whoever is about to queue a waker queues it at the sleeper in use, alone,*)
(* and has it point to the list it loaded; the other sleepers are empty.    *)
PushInv ==
  /\ \A s \in Sleepers : s # cur => shared[s] = Nil
  /\ \A t \in Goroutines :
       Pushing(t) => /\ push[t].s = cur
                     /\ push[t].at = "cas" => next[push[t].w] = push[t].v
  /\ \A t, u \in Goroutines :
       Pushing(t) /\ Pushing(u) /\ push[t].w = push[u].w => t = u

(* The four places have no waker in common.                                 *)
OnceInv ==
  /\ SharedWakers \cap LocalWakers = {} /\ SharedWakers \cap HandWakers = {}
  /\ LocalWakers \cap HandWakers = {}
  /\ \A w \in Pending : w \notin SharedWakers \cup LocalWakers \cup HandWakers

Queued == SharedWakers \cup LocalWakers \cup HandWakers \cup Pending
QueuedInv ==
  \A w \in Wakers : w \in Queued <=> w \in Range(all) /\ ws[w] \notin Sleepers

OwnInv ==
  \A w \in Wakers : /\ ws[w] \in Sleepers => ws[w] = cur /\ w \in Range(all)
                    /\ w \notin Range(all) => next[w] = Nil

(* No waker is reached from the one after it, queued or not: a pointer left *)
(* behind by a waker that was taken off a list leads to no cycle later.     *)
AcyclicInv == \A w \in Wakers : w \notin List(next[w])

QInv == AllInv /\ PushInv /\ OnceInv /\ QueuedInv /\ OwnInv /\ AcyclicInv

(* The lists are empty at first.                                            *)
LEMMA QInvInit == Init => QInv
<1> SUFFICES ASSUME Init PROVE QInv
  OBVIOUS
<1>1. /\ SharedWakers = {} /\ LocalWakers = {} /\ HandWakers = {}
      /\ \A w \in Wakers : List(next[w]) = {}
  BY ListNil, SleepAssumption DEF Init, SharedWakers, LocalWakers, HandWakers, List
<1>2. \A t \in Goroutines : push[t].at = "idle"
  BY DEF Init, Goroutines, NoPush
<1>3. Pending = {} /\ \A t \in Goroutines : ~Pushing(t)
  BY <1>2 DEF Pending, Pushing
<1>4. Range(all) = {}
  BY DEF Init, Range
<1>5. AllInv
  BY DEF Init, AllInv, Distinct
<1>6. PushInv
  BY <1>3 DEF Init, PushInv
<1>7. OnceInv /\ QueuedInv /\ AcyclicInv
  BY <1>1, <1>3, <1>4 DEF OnceInv, QueuedInv, Queued, AcyclicInv
<1>8. OwnInv
  BY SleepAssumption DEF Init, OwnInv
<1> QED
  BY <1>5, <1>6, <1>7, <1>8 DEF QInv

(* A pointer set to the head of a list that its waker is not in leaves no   *)
(* cycle, and leaves every list that its waker is not in.                   *)
LEMMA NextWritten ==
  ASSUME TypeInv, AcyclicInv, NEW x \in Wakers, NEW v \in Ptr,
         next' = [next EXCEPT ![x] = v], x \notin List(v)
  PROVE  /\ AcyclicInv'
         /\ \A h \in Ptr : x \notin List(h) => ListOf(next', h) = List(h)
<1> USE DEF List
<1>1. next \in [Wakers -> Ptr]
  BY DEF TypeInv
<1>2. \A h \in Ptr : x \notin List(h) => ListOf(next', h) = List(h)
  BY <1>1, ListFrame
<1>3. ASSUME NEW w \in Wakers PROVE w \notin ListOf(next', next'[w])
  <2>1. next[w] \in Ptr /\ w \notin List(next[w])
    BY <1>1 DEF AcyclicInv
  <2>2. CASE w = x
    <3>1. next'[w] = v
      BY <2>2, <1>1
    <3> QED
      BY <3>1, <2>2, <1>2
  <2>3. CASE w # x /\ w \notin List(v)
    <3>1. next'[w] = next[w]
      BY <2>3, <1>1
    <3>2. ListOf(next', next[w]) \subseteq List(next[w]) \cup List(v)
      BY <1>1, <2>1, ListBound
    <3> QED
      BY <3>1, <3>2, <2>1, <2>3
  <2>4. CASE w # x /\ w \in List(v)
    <3>1. next'[w] = next[w]
      BY <2>4, <1>1
    <3>2. /\ List(v) \in SUBSET Wakers
          /\ \A y \in List(v) : next[y] \in List(v) \cup {Nil}
      BY <1>1, ListClosed
    <3>3. List(next[w]) \subseteq List(v)
      BY <3>2, <2>4, ListLeast
    <3> QED
      BY <3>1, <3>3, <2>1, <1>2
  <2> QED
    BY <2>2, <2>3, <2>4
<1> QED
  BY <1>2, <1>3 DEF AcyclicInv

(* Steps that touch no list, and no call that is about to queue a waker.    *)
LEMMA QInvKept ==
  ASSUME QInv, UNCHANGED <<ws, next, shared, local, all, cur, hand>>,
         \A t \in Goroutines : push'[t] = push[t] \/ (~Pushing(t) /\ ~Pushing(t)')
  PROVE  QInv'
<1>1. /\ SharedWakers' = SharedWakers /\ LocalWakers' = LocalWakers
      /\ HandWakers' = HandWakers
  BY DEF SharedWakers, LocalWakers, HandWakers, List
<1>2. \A t \in Goroutines : /\ Pushing(t)' <=> Pushing(t)
                            /\ Pushing(t) => push'[t] = push[t]
  BY DEF Pushing
<1>3. Pending' = Pending
  BY <1>2 DEF Pending
<1>4. PushInv'
  BY <1>2 DEF QInv, PushInv
<1>5. AllInv' /\ OnceInv' /\ QueuedInv' /\ OwnInv' /\ AcyclicInv'
  BY <1>1, <1>3 DEF QInv, AllInv, OnceInv, QueuedInv, Queued, OwnInv, AcyclicInv, List
<1> QED
  BY <1>4, <1>5 DEF QInv

(* What Start adds to the wakers about to be queued.                        *)
LEMMA Started ==
  ASSUME TypeInv, PushInv, NEW t \in Goroutines, push[t].at = "idle",
         NEW w \in Wakers, w \notin Pending, Start(t, w, cur),
         UNCHANGED <<cur, shared, next>>
  PROVE  Pending' = Pending \cup {w} /\ PushInv'
<1>1. /\ push'[t].at = "load" /\ push'[t].w = w /\ push'[t].s = cur
      /\ \A u \in Goroutines \ {t} : push'[u] = push[u]
  BY StartFacts DEF TypeInv
<1>2. /\ ~Pushing(t) /\ Pushing(t)'
      /\ \A u \in Goroutines \ {t} : Pushing(u)' <=> Pushing(u)
  BY <1>1 DEF Pushing
<1>3. \A y \in Pending' : y \in Pending \cup {w}
  BY <1>1, <1>2 DEF Pending
<1>4. \A y \in Pending \cup {w} : y \in Pending'
  BY <1>1, <1>2 DEF Pending
<1>5. \A u \in Goroutines \ {t} : Pushing(u) => push[u].w # w
  BY DEF Pending
<1>6. PushInv'
  BY <1>1, <1>2, <1>5 DEF PushInv
<1> QED
  BY <1>3, <1>4, <1>6

(* Assert.                                                                  *)
LEMMA QInvAssert ==
  ASSUME TypeInv, QInv, NEW t \in Goroutines, push[t].at = "idle",
         NEW w \in Wakers, Assert(t, w),
         UNCHANGED <<lists, cur, hand>>
  PROVE  QInv'
<1>1. /\ SharedWakers' = SharedWakers /\ LocalWakers' = LocalWakers
      /\ HandWakers' = HandWakers /\ AcyclicInv' /\ AllInv'
  BY DEF SharedWakers, LocalWakers, HandWakers, List, lists, AcyclicInv, AllInv, QInv
<1>2. /\ ws'[w] = Asserted /\ Asserted \notin Sleepers
      /\ \A y \in Wakers \ {w} : ws'[y] = ws[y]
  BY SleepAssumption DEF Assert, TypeInv
<1>3. OwnInv'
  BY <1>2 DEF QInv, OwnInv, lists
<1>4. CASE ws[w] \in Sleepers
  <2>1. ws[w] = cur /\ w \in Range(all) /\ w \notin Queued
    BY <1>4 DEF QInv, OwnInv, QueuedInv
  <2>2. w \notin Pending /\ PushInv /\ Start(t, w, cur)
    BY <1>4, <2>1 DEF Queued, QInv, Assert
  <2>3. Pending' = Pending \cup {w} /\ PushInv'
    BY <2>2, Started DEF lists
  <2>4. OnceInv'
    BY <2>1, <2>3, <1>1 DEF QInv, OnceInv, Queued
  <2>5. Queued' = Queued \cup {w}
    BY <2>3, <1>1 DEF Queued
  <2>6. QueuedInv'
    BY <2>1, <2>5, <1>2 DEF QInv, QueuedInv, lists
  <2> QED
    BY <1>1, <1>3, <2>3, <2>4, <2>6 DEF QInv
<1>5. CASE ws[w] \notin Sleepers
  <2>1. push' = push
    BY <1>5 DEF Assert
  <2>2. Pending' = Pending
    BY <2>1 DEF Pending, Pushing
  <2>3. PushInv'
    BY <2>1 DEF QInv, PushInv, Pushing, lists
  <2>4. OnceInv' /\ Queued' = Queued
    BY <2>2, <1>1 DEF QInv, OnceInv, Queued
  <2>5. QueuedInv'
    BY <2>4, <1>2, <1>5 DEF QInv, QueuedInv, lists
  <2> QED
    BY <1>1, <1>3, <2>3, <2>4, <2>5 DEF QInv
<1> QED
  BY <1>4, <1>5

(* Clear leaves the waker where it is queued.                               *)
LEMMA QInvClear ==
  ASSUME TypeInv, QInv, NEW w \in Wakers, Clear(w)
  PROVE  QInv'
<1>1. /\ SharedWakers' = SharedWakers /\ LocalWakers' = LocalWakers
      /\ HandWakers' = HandWakers /\ AcyclicInv' /\ AllInv' /\ Pending' = Pending
  BY DEF SharedWakers, LocalWakers, HandWakers, List, lists, AcyclicInv, AllInv,
         QInv, Pending, Pushing, Clear
<1>2. /\ ws[w] \notin Sleepers /\ ws'[w] \notin Sleepers
      /\ \A y \in Wakers \ {w} : ws'[y] = ws[y]
  BY SleepAssumption DEF Clear, Cleared, TypeInv
<1>3. OwnInv'
  BY <1>2 DEF QInv, OwnInv, lists, Clear
<1>4. PushInv'
  BY DEF QInv, PushInv, Pushing, lists, Clear
<1>5. OnceInv' /\ Queued' = Queued
  BY <1>1 DEF QInv, OnceInv, Queued
<1>6. QueuedInv'
  BY <1>2, <1>5 DEF QInv, QueuedInv, lists, Clear
<1> QED
  BY <1>1, <1>3, <1>4, <1>5, <1>6 DEF QInv

(* AddWaker.                                                                *)
LEMMA QInvAddWaker ==
  ASSUME TypeInv, QInv, NEW w \in Wakers, AddWaker(w)
  PROVE  QInv'
<1>1. /\ SharedWakers' = SharedWakers /\ LocalWakers' = LocalWakers
      /\ HandWakers' = HandWakers /\ AcyclicInv'
  BY DEF SharedWakers, LocalWakers, HandWakers, List, AcyclicInv, QInv, AddWaker
<1>2. AllInv' /\ Range(all') = Range(all) \cup {w} /\ w \notin Range(all)
  BY AddedFacts DEF AddWaker, QInv, AllInv
<1>3. w \notin Queued /\ ws[w] \notin Sleepers
  BY <1>2 DEF QInv, QueuedInv, OwnInv
<1>4. cur \in Sleepers /\ Asserted \notin Sleepers
  BY SleepAssumption DEF TypeInv
<1>5. CASE ws[w] = Asserted
  <2>1. Start(Self, w, cur) /\ ws' = ws /\ push[Self].at = "idle" /\ w \notin Pending
    BY <1>3, <1>5 DEF AddWaker, Step, Quiet, Queued
  <2>2. Pending' = Pending \cup {w} /\ PushInv'
    BY <2>1, Started DEF AddWaker, Goroutines, QInv
  <2>3. OnceInv' /\ Queued' = Queued \cup {w}
    BY <2>2, <1>1, <1>3 DEF QInv, OnceInv, Queued
  <2>4. QueuedInv' /\ OwnInv'
    BY <2>1, <2>3, <1>2, <1>3 DEF QInv, QueuedInv, OwnInv, AddWaker
  <2> QED
    BY <1>1, <1>2, <2>2, <2>3, <2>4 DEF QInv
<1>6. CASE ws[w] # Asserted
  <2>1. push' = push /\ ws'[w] = cur /\ \A y \in Wakers \ {w} : ws'[y] = ws[y]
    BY <1>6 DEF AddWaker, TypeInv
  <2>2. Pending' = Pending
    BY <2>1, SMTT(20) DEF Pending, Pushing
  <2>3. PushInv'
    BY <2>1 DEF QInv, PushInv, Pushing, AddWaker
  <2>4. OnceInv' /\ Queued' = Queued
    BY <2>2, <1>1 DEF QInv, OnceInv, Queued
  <2>5. QueuedInv' /\ OwnInv'
    BY <2>1, <2>4, <1>2, <1>3, <1>4 DEF QInv, QueuedInv, OwnInv, AddWaker
  <2> QED
    BY <1>1, <1>2, <2>3, <2>4, <2>5 DEF QInv
<1> QED
  BY <1>5, <1>6

(* The load of enqueueAssertedWaker.                                        *)
LEMMA QInvPushLoad ==
  ASSUME TypeInv, QInv, NEW t \in Goroutines, PushLoad(t)
  PROVE  QInv'
<1> DEFINE x == push[t].w
           v == shared[cur]
<1>1. Pushing(t) /\ push[t].s = cur /\ x \in Wakers /\ v \in Ptr
  BY DEF PushLoad, Pushing, QInv, PushInv, TypeInv, PushType
<1>2. x \in Pending /\ x \notin SharedWakers \cup LocalWakers \cup HandWakers
  BY <1>1 DEF Pending, QInv, OnceInv
<1>3. next' = [next EXCEPT ![x] = v]
  BY <1>1 DEF PushLoad
<1>4. /\ push'[t].at = "cas" /\ push'[t].v = v /\ push'[t].w = x
      /\ push'[t].s = cur /\ \A u \in Goroutines \ {t} : push'[u] = push[u]
  BY <1>1 DEF PushLoad, TypeInv, PushType
<1>5. /\ AcyclicInv'
      /\ \A h \in Ptr : x \notin List(h) => ListOf(next', h) = List(h)
  <2> HIDE DEF x, v
  <2>1. x \notin List(v)
    BY <1>2 DEF SharedWakers, v
  <2> QED
    BY <1>1, <1>3, <2>1, NextWritten DEF QInv
<1>6. /\ SharedWakers' = SharedWakers /\ LocalWakers' = LocalWakers
      /\ HandWakers' = HandWakers
  BY <1>1, <1>2, <1>5 DEF SharedWakers, LocalWakers, HandWakers, List, TypeInv, PushLoad
<1>7. \A u \in Goroutines : (Pushing(u)' <=> Pushing(u)) /\ push'[u].w = push[u].w
  BY <1>1, <1>4 DEF Pushing
<1>8. Pending' = Pending
  BY <1>7 DEF Pending
<1>9. next'[x] = v /\ \A y \in Wakers \ {x} : next'[y] = next[y]
  BY <1>1, <1>3 DEF TypeInv
<1>10. PushInv'
  <2>1. \A s \in Sleepers : s # cur' => shared'[s] = Nil
    BY DEF QInv, PushInv, PushLoad
  <2>2. ASSUME NEW u \in Goroutines, Pushing(u)'
        PROVE  /\ push'[u].s = cur'
               /\ push'[u].at = "cas" => next'[push'[u].w] = push'[u].v
    <3>1. CASE u = t
      BY <3>1, <1>4, <1>9 DEF PushLoad
    <3>2. CASE u # t
      <4>1. push'[u] = push[u] /\ Pushing(u) /\ push[u].w # x
        BY <3>2, <2>2, <1>1, <1>4, <1>7 DEF QInv, PushInv
      <4>2. push[u].w \in Wakers
        BY <4>1 DEF Pushing, TypeInv, PushType
      <4> QED
        BY <4>1, <4>2, <1>9 DEF QInv, PushInv, PushLoad
    <3> QED
      BY <3>1, <3>2
  <2>3. \A u, r \in Goroutines :
          Pushing(u)' /\ Pushing(r)' /\ push'[u].w = push'[r].w => u = r
    BY <1>7 DEF QInv, PushInv
  <2> QED
    BY <2>1, <2>2, <2>3 DEF PushInv
<1>11. OnceInv' /\ Queued' = Queued /\ AllInv'
  BY <1>6, <1>8 DEF QInv, OnceInv, Queued, AllInv, PushLoad
<1>12. QueuedInv'
  BY <1>11 DEF QInv, QueuedInv, PushLoad
<1>13. x \in Range(all)
  BY <1>1, <1>2 DEF QInv, QueuedInv, Queued
<1>14. OwnInv'
  BY <1>9, <1>13 DEF QInv, OwnInv, PushLoad
<1> QED
  BY <1>5, <1>10, <1>11, <1>12, <1>14 DEF QInv

(* The compare-and-swap of enqueueAssertedWaker.                            *)
LEMMA QInvPushSwap ==
  ASSUME TypeInv, QInv, NEW t \in Goroutines, PushSwap(t)
  PROVE  QInv'
<1> DEFINE x == push[t].w
<1>1. /\ Pushing(t) /\ push[t].s = cur /\ x \in Wakers /\ next[x] = push[t].v
      /\ cur \in Sleepers
  BY DEF PushSwap, Pushing, QInv, PushInv, TypeInv, PushType
<1>2. x \in Pending /\ x \notin SharedWakers \cup LocalWakers \cup HandWakers
  BY <1>1 DEF Pending, QInv, OnceInv
<1>3. /\ LocalWakers' = LocalWakers /\ HandWakers' = HandWakers /\ AcyclicInv'
      /\ AllInv' /\ OwnInv'
  BY DEF LocalWakers, HandWakers, List, AcyclicInv, AllInv, OwnInv, QInv, PushSwap
<1>4. CASE Pushes(t)
  <2>1. /\ shared' = [shared EXCEPT ![cur] = x] /\ shared[cur] = push[t].v
        /\ push' = [push EXCEPT ![t] = [at |-> "look", w |-> Nil, s |-> cur, v |-> Nil]]
    BY <1>1, <1>4 DEF PushSwap, Pushes
  <2>2. shared'[cur] = x /\ \A s \in Sleepers : s # cur => shared'[s] = shared[s]
    BY <1>1, <2>1 DEF TypeInv
  <2>3. SharedWakers' = {x} \cup SharedWakers
    <3>1. next \in [Wakers -> Ptr] /\ next' = next /\ cur' = cur
      BY SMTT(20) DEF TypeInv, PushSwap
    <3>2. ListOf(next, x) = {x} \cup ListOf(next, next[x])
      BY <1>1, <3>1, ListUnfold
    <3> QED
      BY <1>1, <2>1, <2>2, <3>1, <3>2 DEF SharedWakers, List
  <2>4. /\ push'[t].at = "look" /\ \A u \in Goroutines \ {t} : push'[u] = push[u]
    BY <2>1 DEF TypeInv, PushType
  <2>5. ~Pushing(t)' /\ \A u \in Goroutines \ {t} : Pushing(u)' <=> Pushing(u)
    BY <2>4 DEF Pushing
  <2>6. \A u \in Goroutines \ {t} : Pushing(u) => push[u].w # x
    BY <1>1, SMTT(20) DEF QInv, PushInv
  <2>7. Pending' = Pending \ {x}
    BY <2>4, <2>5, <2>6 DEF Pending
  <2>8. PushInv'
    BY <2>2, <2>4, <2>5 DEF QInv, PushInv, PushSwap
  <2>9. OnceInv' /\ Queued' = Queued
    BY <2>3, <2>7, <1>2, <1>3 DEF QInv, OnceInv, Queued
  <2>10. QueuedInv'
    BY <2>9 DEF QInv, QueuedInv, PushSwap
  <2> QED
    BY <1>3, <2>8, <2>9, <2>10 DEF QInv
<1>5. CASE ~Pushes(t)
  <2>1. shared' = shared /\ push' = [push EXCEPT ![t].at = "load", ![t].v = Nil]
    BY <1>5 DEF PushSwap
  <2>2. /\ push'[t].at = "load" /\ push'[t].w = x /\ push'[t].s = cur
        /\ \A u \in Goroutines \ {t} : push'[u] = push[u]
    BY <2>1, <1>1 DEF TypeInv, PushType
  <2>3. \A u \in Goroutines : (Pushing(u)' <=> Pushing(u)) /\ push'[u].w = push[u].w
    BY <2>2, <1>1 DEF Pushing
  <2>4. Pending' = Pending /\ SharedWakers' = SharedWakers
    BY <2>1, <2>3 DEF Pending, SharedWakers, List, PushSwap
  <2>5. PushInv'
    <3>1. next' = next /\ cur' = cur /\ PushInv
      BY DEF PushSwap, QInv
    <3>2. ASSUME NEW u \in Goroutines, Pushing(u)'
          PROVE  /\ push'[u].s = cur
                 /\ push'[u].at = "cas" => next[push'[u].w] = push'[u].v
      BY <2>2, <2>3, <3>1, <3>2 DEF PushInv
    <3>3. ASSUME NEW u \in Goroutines, NEW q \in Goroutines,
                 Pushing(u)', Pushing(q)', push'[u].w = push'[q].w
          PROVE  u = q
      BY <2>3, <3>1, <3>3 DEF PushInv
    <3> QED
      BY <2>1, <3>1, <3>2, <3>3 DEF PushInv
  <2>6. OnceInv' /\ Queued' = Queued
    BY <2>4, <1>3 DEF QInv, OnceInv, Queued
  <2>7. QueuedInv'
    BY <2>6 DEF QInv, QueuedInv, PushSwap
  <2> QED
    BY <1>3, <2>5, <2>6, <2>7 DEF QInv
<1> QED
  BY <1>4, <1>5

(* nextWaker takes the whole shared list.                                   *)
LEMMA QInvTake ==
  ASSUME TypeInv, StepInv, QInv, Take
  PROVE  QInv'
<1>1. hand = Nil /\ hand' = shared[cur] /\ cur' = cur /\ cur \in Sleepers /\ next' = next
  BY DEF StepInv, Take, Step, TypeInv
<1>2. shared'[cur] = Nil /\ \A s \in Sleepers : s # cur => shared'[s] = shared[s]
  BY <1>1 DEF Take, TypeInv
<1>3. /\ HandWakers = {} /\ HandWakers' = SharedWakers /\ SharedWakers' = {}
      /\ LocalWakers' = LocalWakers
  BY <1>1, <1>2, ListNil DEF HandWakers, SharedWakers, LocalWakers, List, Take
<1>4. AllInv' /\ AcyclicInv' /\ OwnInv' /\ Pending' = Pending
  BY DEF AllInv, AcyclicInv, OwnInv, Pending, Pushing, List, QInv, Take
<1>5. PushInv'
  BY <1>1, <1>2 DEF QInv, PushInv, Pushing, Take
<1>6. OnceInv' /\ Queued' = Queued
  BY <1>3, <1>4 DEF QInv, OnceInv, Queued
<1>7. QueuedInv'
  BY <1>6 DEF QInv, QueuedInv, Take
<1> QED
  BY <1>4, <1>5, <1>6, <1>7 DEF QInv

(* A list with a head and no cycle: what is left when the head is taken.    *)
LEMMA ListTail ==
  ASSUME TypeInv, AcyclicInv, NEW x \in Wakers
  PROVE  /\ x \in List(x) /\ List(next[x]) = List(x) \ {x}
         /\ next[x] \in Ptr /\ x \notin List(next[x])
<1>1. next \in [Wakers -> Ptr] /\ next[x] \in Ptr /\ x \notin List(next[x])
  BY DEF TypeInv, AcyclicInv
<1>2. List(x) = {x} \cup List(next[x])
  BY <1>1, ListUnfold DEF List
<1> QED
  BY <1>1, <1>2

(* One turn of the loop that reverses the list.                             *)
LEMMA QInvReverse ==
  ASSUME TypeInv, StepInv, QInv, Reverse1
  PROVE  QInv'
<1> DEFINE x == hand
<1>1. /\ x \in Wakers /\ local \in Ptr /\ next \in [Wakers -> Ptr]
      /\ hand' = next[x] /\ local' = x /\ next' = [next EXCEPT ![x] = local]
  BY DEF StepInv, Reverse1, Step, TypeInv, Ptr
<1>2. /\ x \in HandWakers /\ List(next[x]) = HandWakers \ {x}
      /\ next[x] \in Ptr /\ x \notin List(next[x])
  BY <1>1, ListTail DEF QInv, HandWakers
<1>3. x \notin SharedWakers \cup LocalWakers \cup Pending
  BY <1>2 DEF QInv, OnceInv
<1>4. /\ AcyclicInv'
      /\ \A h \in Ptr : x \notin List(h) => ListOf(next', h) = List(h)
  BY <1>1, <1>3, NextWritten DEF QInv, LocalWakers
<1>5. SharedWakers' = SharedWakers /\ HandWakers' = HandWakers \ {x}
  BY <1>1, <1>2, <1>3, <1>4 DEF SharedWakers, HandWakers, List, TypeInv, Reverse1
<1>6. next'[x] = local /\ next' \in [Wakers -> Ptr]
      /\ \A y \in Wakers \ {x} : next'[y] = next[y]
  BY <1>1
<1>7. LocalWakers' = {x} \cup LocalWakers
  <2>1. ListOf(next', local) = LocalWakers
    BY <1>1, <1>3, <1>4 DEF LocalWakers
  <2>2. ListOf(next', x) = {x} \cup ListOf(next', next'[x])
    BY <1>1, <1>6, ListUnfold
  <2> QED
    BY <2>1, <2>2, <1>1, <1>6 DEF LocalWakers, List
<1>8. AllInv' /\ Pending' = Pending
  BY DEF AllInv, Pending, Pushing, QInv, Reverse1
<1>9. \A u \in Goroutines : Pushing(u) => push[u].w # x /\ push[u].w \in Wakers
  BY <1>1, <1>3 DEF Pending, Pushing, TypeInv, PushType
<1>10. PushInv'
  BY <1>6, <1>9 DEF QInv, PushInv, Pushing, Reverse1
<1>11. OnceInv' /\ Queued' = Queued
  BY <1>2, <1>3, <1>5, <1>7, <1>8 DEF QInv, OnceInv, Queued
<1>12. QueuedInv'
  BY <1>11 DEF QInv, QueuedInv, Reverse1
<1>13. x \in Range(all)
  BY <1>1, <1>2 DEF QInv, QueuedInv, Queued
<1>14. OwnInv'
  BY <1>6, <1>13 DEF QInv, OwnInv, Reverse1
<1> QED
  BY <1>4, <1>8, <1>10, <1>11, <1>12, <1>14 DEF QInv

(* fetch gives the first waker back to the sleeper.                         *)
LEMMA QInvRejoin ==
  ASSUME TypeInv, StepInv, QInv, Rejoin
  PROVE  QInv'
<1> DEFINE x == local
<1>1. x \in Wakers /\ cur \in Sleepers /\ next' = next /\ local' = next[x]
  BY DEF StepInv, Rejoin, TypeInv, Ptr
<1>2. x \in LocalWakers /\ List(next[x]) = LocalWakers \ {x}
  BY <1>1, ListTail DEF QInv, LocalWakers
<1>3. /\ LocalWakers' = LocalWakers \ {x} /\ SharedWakers' = SharedWakers
      /\ HandWakers' = HandWakers
  BY <1>1, <1>2 DEF LocalWakers, SharedWakers, HandWakers, List, Rejoin
<1>4. AllInv' /\ AcyclicInv' /\ Pending' = Pending
  BY DEF AllInv, AcyclicInv, Pending, Pushing, List, QInv, Rejoin
<1>5. PushInv'
  BY DEF QInv, PushInv, Pushing, Rejoin
<1>6. OnceInv' /\ Queued' = Queued \ {x}
  BY <1>2, <1>3, <1>4 DEF QInv, OnceInv, Queued
<1>7. x \in Range(all)
  BY <1>1, <1>2 DEF QInv, QueuedInv, Queued
<1>8. ws'[x] = cur /\ \A y \in Wakers \ {x} : ws'[y] = ws[y]
  BY <1>1 DEF Rejoin, TypeInv
<1>9. QueuedInv' /\ OwnInv'
  BY <1>1, <1>6, <1>7, <1>8 DEF QInv, QueuedInv, OwnInv, Rejoin
<1> QED
  BY <1>4, <1>5, <1>6, <1>9 DEF QInv

(* Done lets go of a waker that is in no list any more.                     *)
LEMMA QInvLetGo ==
  ASSUME TypeInv, QInv, NEW x \in Range(all), LetGo(x),
         x \notin Queued', Queued' = Queued \ {x}, OnceInv', ws'[x] \notin Sleepers,
         \A y \in Wakers \ {x} : ws'[y] = ws[y], x \notin Pending,
         UNCHANGED <<shared, push, cur>>
  PROVE  AllInv' /\ PushInv' /\ QueuedInv' /\ OwnInv'
<1>1. x \in Wakers
  BY DEF QInv, AllInv, Range
<1>2. AllInv' /\ Range(all') = Range(all) \ {x}
  BY WithoutFacts DEF QInv, AllInv, LetGo
<1>3. next'[x] = Nil /\ \A y \in Wakers \ {x} : next'[y] = next[y]
  BY <1>1 DEF LetGo, TypeInv
<1>4. \A u \in Goroutines : Pushing(u) => push[u].w # x /\ push[u].w \in Wakers
  BY <1>1 DEF Pending, Pushing, TypeInv, PushType
<1>5. PushInv'
  BY <1>3, <1>4, SMTT(20) DEF QInv, PushInv, Pushing
<1>6. QueuedInv' /\ OwnInv'
  BY <1>2, <1>3 DEF QInv, QueuedInv, OwnInv
<1> QED
  BY <1>2, <1>5, <1>6

(* Done lets go of a waker that points to the sleeper.                      *)
LEMMA QInvRelease ==
  ASSUME TypeInv, StepInv, QInv, Release
  PROVE  QInv'
<1> DEFINE x == Head(all)
<1>1. x \in Range(all) /\ x \in Wakers
  BY DEF Release, QInv, AllInv, Range
<1>2. CASE ws[x] # cur
  <2>1. UNCHANGED <<ws, next, shared, local, all, cur, hand, push>>
    BY <1>2 DEF Release
  <2> QED
    BY <2>1, QInvKept
<1>3. CASE ws[x] = cur
  <2>1. /\ LetGo(x) /\ ws'[x] = Nil /\ Nil \notin Sleepers
        /\ \A y \in Wakers \ {x} : ws'[y] = ws[y]
        /\ UNCHANGED <<shared, local, push, cur, hand>>
    BY <1>1, <1>3, SleepAssumption DEF Release, TypeInv
  <2>2. x \notin Queued
    BY <1>1, <1>3 DEF QInv, QueuedInv, TypeInv
  <2>3. /\ AcyclicInv'
        /\ \A h \in Ptr : x \notin List(h) => ListOf(next', h) = List(h)
    <3>1. Nil \in Ptr /\ x \notin List(Nil) /\ next' = [next EXCEPT ![x] = Nil]
      BY <2>1, ListNil DEF Ptr, List, LetGo
    <3> QED
      BY <3>1, <1>1, NextWritten DEF QInv
  <2>4. /\ SharedWakers' = SharedWakers /\ LocalWakers' = LocalWakers
        /\ HandWakers' = HandWakers
    BY <2>1, <2>2, <2>3 DEF Queued, SharedWakers, LocalWakers, HandWakers, List, TypeInv
  <2>5. Pending' = Pending
    BY <2>1 DEF Pending, Pushing
  <2>6. OnceInv' /\ Queued' = Queued
    BY <2>4, <2>5 DEF QInv, OnceInv, Queued
  <2>7. x \notin Queued' /\ Queued' = Queued \ {x} /\ x \notin Pending
    BY <2>2, <2>6 DEF Queued
  <2>8. AllInv' /\ PushInv' /\ QueuedInv' /\ OwnInv'
    BY <1>1, <2>1, <2>6, <2>7, QInvLetGo
  <2> QED
    BY <2>3, <2>6, <2>8 DEF QInv
<1> QED
  BY <1>2, <1>3

(* Done takes a queued waker off the list.                                  *)
LEMMA QInvDrop ==
  ASSUME TypeInv, StepInv, QInv, Drop
  PROVE  QInv'
<1> DEFINE x == local
<1>1. /\ x \in Wakers /\ local' = next[x] /\ LetGo(x)
      /\ UNCHANGED <<ws, shared, push, cur, hand>>
  BY DEF StepInv, Drop, TypeInv, Ptr
<1>2. /\ x \in LocalWakers /\ List(next[x]) = LocalWakers \ {x}
      /\ next[x] \in Ptr /\ x \notin List(next[x])
  BY <1>1, ListTail DEF QInv, LocalWakers
<1>3. x \notin SharedWakers \cup HandWakers \cup Pending
  BY <1>2 DEF QInv, OnceInv
<1>4. x \in Range(all) /\ ws[x] \notin Sleepers
  BY <1>1, <1>2 DEF QInv, QueuedInv, Queued
<1>5. /\ AcyclicInv'
      /\ \A h \in Ptr : x \notin List(h) => ListOf(next', h) = List(h)
  <2>1. Nil \in Ptr /\ x \notin List(Nil) /\ next' = [next EXCEPT ![x] = Nil]
    BY <1>1, ListNil DEF Ptr, List, LetGo
  <2> QED
    BY <2>1, <1>1, NextWritten DEF QInv
<1>6. SharedWakers' = SharedWakers /\ HandWakers' = HandWakers
  BY <1>1, <1>3, <1>5 DEF SharedWakers, HandWakers, List, TypeInv
<1>7. LocalWakers' = LocalWakers \ {x}
  BY <1>1, <1>2, <1>5 DEF LocalWakers, List
<1>8. Pending' = Pending
  BY <1>1 DEF Pending, Pushing
<1>9. OnceInv' /\ Queued' = Queued \ {x} /\ x \notin Queued'
  BY <1>2, <1>3, <1>6, <1>7, <1>8, SMTT(20) DEF QInv, OnceInv, Queued
<1>10. ws'[x] \notin Sleepers /\ \A y \in Wakers \ {x} : ws'[y] = ws[y]
  BY <1>1, <1>4
<1>11. AllInv' /\ PushInv' /\ QueuedInv' /\ OwnInv'
  <2> HIDE DEF x
  <2> QED
    BY <1>1, <1>3, <1>4, <1>9, <1>10, QInvLetGo
<1> QED
  BY <1>5, <1>9, <1>11 DEF QInv

(* When allWakers is empty nobody holds the sleeper any more.               *)
LEMMA QInvFinished ==
  ASSUME TypeInv, StepInv, QInv, Finished
  PROVE  QInv'
<1>1. Range(all) = {} /\ cur \in Sleepers /\ cur' \in Sleepers /\ hand = Nil
  BY DEF Finished, Range, TypeInv, StepInv
<1>2. Queued = {} /\ \A w \in Wakers : ws[w] \notin Sleepers
  <2>1. \A w \in Wakers : w \notin Queued /\ ws[w] \notin Sleepers
    BY <1>1 DEF QInv, QueuedInv, OwnInv
  <2>2. Queued \subseteq Wakers
    BY DEF Queued, SharedWakers, LocalWakers, HandWakers, List, ListOf, Pending
  <2> QED
    BY <2>1, <2>2
<1>3. \A s \in Sleepers : shared[s] = Nil
  <2>1. next \in [Wakers -> Ptr] /\ shared[cur] \in Ptr
    BY <1>1 DEF TypeInv
  <2>2. shared[cur] \in SharedWakers \cup {Nil}
    BY <2>1, ListClosed DEF SharedWakers, List
  <2>3. shared[cur] = Nil
    BY <2>2, <1>2 DEF Queued
  <2> QED
    BY <2>3 DEF QInv, PushInv
<1>4. \A t \in Goroutines : ~Pushing(t)
  <2>1. \A t \in Goroutines : Pushing(t) => push[t].w \in Pending
    BY DEF Pushing, Pending, TypeInv, PushType
  <2> QED
    BY <2>1, <1>2 DEF Queued
<1>5. UNCHANGED <<ws, next, shared, local, all, push, hand>>
  BY DEF Finished, lists
<1>6. PushInv' /\ Pending' = {}
  BY <1>3, <1>4, <1>5 DEF PushInv, Pushing, Pending
<1>7. /\ SharedWakers' = {} /\ LocalWakers' = LocalWakers /\ HandWakers' = HandWakers
      /\ SharedWakers = {} /\ LocalWakers = {} /\ HandWakers = {}
  BY <1>1, <1>2, <1>3, <1>5, ListNil, SMTT(20) DEF SharedWakers, LocalWakers, HandWakers, List, Queued
<1>8. AllInv' /\ AcyclicInv' /\ OwnInv'
  BY <1>2, <1>5 DEF QInv, AllInv, AcyclicInv, OwnInv, List
<1>9. OnceInv' /\ QueuedInv'
  BY <1>1, <1>5, <1>6, <1>7 DEF OnceInv, QueuedInv, Queued
<1> QED
  BY <1>6, <1>8, <1>9 DEF QInv

(* Every step preserves the lists.                                          *)
LEMMA QInvNext == Inv /\ QInv /\ [Next]_vars => QInv'
<1> SUFFICES ASSUME Inv, QInv, [Next]_vars PROVE QInv'
  OBVIOUS
<1>1. TypeInv /\ StepInv
  BY DEF Inv
<1>2. ASSUME NEW t \in Goroutines, Push(t) PROVE QInv'
  <2>1. CASE PushLoad(t)
    BY <1>1, <2>1, QInvPushLoad
  <2>2. CASE PushSwap(t)
    BY <1>1, <2>2, QInvPushSwap
  <2>3. CASE LookWaiting(t) \/ Signal(t)
    <3>1. UNCHANGED <<ws, next, shared, local, all, cur, hand>>
      BY <2>3 DEF LookWaiting, Signal, lists
    <3>2. ~Pushing(t) /\ ~Pushing(t)' /\ \A u \in Goroutines \ {t} : push'[u] = push[u]
      BY <1>1, <2>3 DEF LookWaiting, Signal, Ends, At, NoPush, Pushing, TypeInv, PushType
    <3> QED
      BY <3>1, <3>2, QInvKept
  <2> QED
    BY <1>2, <2>1, <2>2, <2>3 DEF Push
<1>3. ASSUME NEW t \in Threads, NEW w \in Wakers, AssertBy(t, w) PROVE QInv'
  BY <1>1, <1>3, QInvAssert DEF AssertBy, Goroutines
<1>4. ASSUME NEW w \in Wakers, AssertAndFetch(w) PROVE QInv'
  BY <1>1, <1>4, QInvAssert DEF AssertAndFetch, Step, Quiet, Goroutines
<1>5. ASSUME NEW w \in Wakers, Clear(w) \/ AddWaker(w) PROVE QInv'
  BY <1>1, <1>5, QInvClear, QInvAddWaker
<1>6. CASE \/ Fetch("block") \/ Fetch("nonblock") \/ Done \/ SharedList
           \/ Prepare \/ CheckAgain \/ AbortSleep \/ CommitSleep \/ UNCHANGED vars
  <2>1. UNCHANGED <<ws, next, shared, local, all, cur, hand, push>>
    BY <1>6 DEF Fetch, Done, SharedList, Prepare, CheckAgain, AbortSleep,
                CommitSleep, vars, lists
  <2> QED
    BY <2>1, QInvKept, SMTT(20)
<1>7. CASE Take \/ Reverse1 \/ Rejoin \/ Release \/ Drop \/ Finished
  BY <1>1, <1>7, QInvTake, QInvReverse, QInvRejoin, QInvRelease, QInvDrop, QInvFinished
<1> QED
  BY <1>2, <1>3, <1>4, <1>5, <1>6, <1>7 DEF Next, Working, Goroutines

(* The places of a waker, one by one.                                       *)
LEMMA PlaceFacts ==
  ASSUME TypeInv, StepInv, QInv, NEW w \in Wakers, NEW p \in Places(w)
  PROVE  \/ w \in SharedWakers /\ p = <<"shared", cur>>
         \/ w \in LocalWakers /\ p = <<"local", Nil>>
         \/ w \in HandWakers /\ p = <<"reverse", Nil>>
         \/ \E t \in Goroutines : Pushing(t) /\ push[t].w = w /\ p = <<"push", t>>
<1>1. CASE \E s \in Sleepers : w \in List(shared[s]) /\ p = <<"shared", s>>
  <2>1. PICK s \in Sleepers : w \in List(shared[s]) /\ p = <<"shared", s>>
    BY <1>1
  <2>2. s = cur
    BY <2>1, ListNil DEF List, QInv, PushInv
  <2> QED
    BY <2>1, <2>2 DEF SharedWakers
<1>2. DOMAIN push = Goroutines
  BY DEF TypeInv, PushType
<1> QED
  BY <1>1, <1>2, Zenon DEF Places, LocalWakers, HandWakers, Pushing

(* The lists are as QueuedOnce says.                                        *)
LEMMA QInvImplies ==
  ASSUME TypeInv, StepInv, QInv
  PROVE  QueuedOnce
<1>1. ASSUME NEW w \in Wakers PROVE Places(w) # {} <=> w \in Queued
  <2>1. \A p \in Places(w) : w \in Queued
    BY PlaceFacts DEF Queued, Pending
  <2>2. w \in SharedWakers => <<"shared", cur>> \in Places(w)
    BY DEF SharedWakers, Places, TypeInv
  <2>3. w \in LocalWakers => <<"local", Nil>> \in Places(w)
    BY DEF LocalWakers, Places
  <2>4. w \in HandWakers => <<"reverse", Nil>> \in Places(w)
    <3>1. w \in HandWakers => pc = "reverse"
      BY ListNil, SMTT(20) DEF HandWakers, List, StepInv
    <3> QED
      BY <3>1 DEF HandWakers, Places
  <2>5. w \in Pending => \E t \in Goroutines : <<"push", t>> \in Places(w)
    BY DEF Pending, Pushing, Places, TypeInv, PushType
  <2> QED
    BY <2>1, <2>2, <2>3, <2>4, <2>5 DEF Queued
<1>2. \A w \in Wakers :
        Places(w) # {} <=> w \in Range(all) /\ ws[w] \notin Sleepers
  BY <1>1 DEF QInv, QueuedInv
<1>3. ASSUME NEW w \in Wakers, NEW p \in Places(w), NEW q \in Places(w) PROVE p = q
  <2>1. w \in Pending => w \notin SharedWakers \cup LocalWakers \cup HandWakers
    BY DEF QInv, OnceInv
  <2>2. \A t, u \in Goroutines :
          Pushing(t) /\ push[t].w = w /\ Pushing(u) /\ push[u].w = w => t = u
    BY DEF QInv, PushInv
  <2>3. \A t \in Goroutines : Pushing(t) /\ push[t].w = w => w \in Pending
    BY DEF Pending
  <2>4. /\ ~(w \in SharedWakers /\ w \in LocalWakers)
        /\ ~(w \in SharedWakers /\ w \in HandWakers)
        /\ ~(w \in LocalWakers /\ w \in HandWakers)
    BY DEF QInv, OnceInv
  <2>5. /\ \/ w \in SharedWakers /\ p = <<"shared", cur>>
           \/ w \in LocalWakers /\ p = <<"local", Nil>>
           \/ w \in HandWakers /\ p = <<"reverse", Nil>>
           \/ \E t \in Goroutines : Pushing(t) /\ push[t].w = w /\ p = <<"push", t>>
        /\ \/ w \in SharedWakers /\ q = <<"shared", cur>>
           \/ w \in LocalWakers /\ q = <<"local", Nil>>
           \/ w \in HandWakers /\ q = <<"reverse", Nil>>
           \/ \E t \in Goroutines : Pushing(t) /\ push[t].w = w /\ q = <<"push", t>>
    BY PlaceFacts
  <2> QED
    BY <2>1, <2>2, <2>3, <2>4, <2>5
<1>4. (pc = "reverse" => hand # Nil) /\ (pc = "pop" => local # Nil)
  BY DEF StepInv
<1>5. \A w \in Wakers \ Range(all) : next[w] = Nil /\ ws[w] \in {Nil, Asserted}
  BY DEF QInv, OwnInv, TypeInv
<1> QED
  BY <1>2, <1>3, <1>4, <1>5 DEF QueuedOnce, QInv, AcyclicInv

(* The wakers of the sleeper, as Assert, Clear, fetch and Done leave them   *)
(* with their calls interleaved at every atomic operation: one that no      *)
(* longer points to the sleeper is in exactly one of its lists or on its    *)
(* way there, no list has a cycle, nextWaker follows no nil pointer, and    *)
(* Done leaves no pointer behind, for any number of wakers and goroutines.  *)
THEOREM WakersQueuedOnce == Safety => []QueuedOnce
<1>1. Inv /\ QInv => QueuedOnce
  BY QInvImplies DEF Inv
<1> QED
  BY <1>1, InvInit, InvNext, QInvInit, QInvNext, PTL DEF Safety

=============================================================================
