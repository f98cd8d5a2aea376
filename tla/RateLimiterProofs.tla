------------------------- MODULE RateLimiterProofs -------------------------
(***************************************************************************)
(* Theorems about RateLimiter for every set of clients, every quota and    *)
(* window, and every resolution of the clock.                              *)
(***************************************************************************)
EXTENDS RateLimiter, SequenceTheorems, WellFoundedInduction, TLAPS

-----------------------------------------------------------------------------
(***************************************************************************)
(* Numbers.                                                                *)
(***************************************************************************)

\* Both bounds are clamped: there is a quota, and there is a window.
LEMMA Clamped == Limit \in Nat \ {0} /\ Window \in Nat
<1>1. \A x, y \in Nat : x * y \in Nat
  OBVIOUS
<1>2. (IF WindowSeconds > 1 THEN WindowSeconds ELSE 1) \in Nat
  BY LimiterAssumption
<1>3. QED
  BY <1>1, <1>2, LimiterAssumption DEF Limit, Window

\* A second more makes up for what the division leaves out.
LEMMA RoundedUp ==
  ASSUME NEW x \in Int, NEW t \in Nat \ {0}
  PROVE  x \div t \in Int /\ x < t * ((x \div t) + 1)
  OBVIOUS

LEMMA Monotonic ==
  ASSUME NEW t \in Nat, NEW x \in Int, NEW y \in Int, x <= y
  PROVE  t * x <= t * y /\ t * x \in Int /\ t * y \in Int
  OBVIOUS

Less == {p \in Nat \X Nat : p[1] < p[2]}

LEMMA LessWellFounded == IsWellFoundedOn(Less, Nat)
  BY NatLessThanWellFounded DEF OpToRel, Less

\* A set of positions has a first one.
LEMMA Least ==
  ASSUME NEW S \in SUBSET Nat, S # {}
  PROVE  \E i \in S : \A j \in S : i <= j
<1>1. PICK i \in S : \A j \in S : ~(<<j, i>> \in Less)
  BY LessWellFounded, WFMin
<1>2. ASSUME NEW j \in S, j < i PROVE FALSE
  <2>1. <<j, i>> \in Less
    BY <1>2 DEF Less
  <2>2. QED
    BY <1>1, <2>1
<1>3. QED
  BY <1>2

-----------------------------------------------------------------------------
(***************************************************************************)
(* What popping from the left leaves.                                      *)
(***************************************************************************)

\* The hits that remain are the last ones, the first of them has not expired, and those
\* before them have.
LEMMA InWindowOK ==
  ASSUME NEW c \in Clients, hits[c] \in Seq(Nat), now \in Nat
  PROVE  /\ InWindow(c) \in Seq(Nat)
         /\ Len(InWindow(c)) <= Len(hits[c])
         /\ \A i \in 1..Len(InWindow(c)) :
              InWindow(c)[i] = hits[c][Len(hits[c]) - Len(InWindow(c)) + i]
         /\ \A i \in 1..(Len(hits[c]) - Len(InWindow(c))) : Expired(hits[c][i])
         /\ Len(InWindow(c)) > 0 => ~Expired(InWindow(c)[1])
<1> DEFINE h == Len(hits[c])
           live == {i \in 1..h : ~Expired(hits[c][i])}
           first == CHOOSE i \in live : \A j \in live : i <= j
<1>1. h \in Nat
  OBVIOUS
<1>2. CASE live = {}
  <2>1. InWindow(c) = <<>>
    BY <1>2 DEF InWindow
  <2>2. \A i \in 1..h : Expired(hits[c][i])
    BY <1>2
  <2>3. QED
    BY <1>1, <2>1, <2>2
<1>3. CASE live # {}
  <2>1. live \in SUBSET Nat
    BY <1>1
  <2>2. first \in live /\ \A j \in live : first <= j
    BY <1>3, <2>1, Least
  <2>3. InWindow(c) = SubSeq(hits[c], first, h)
    BY <1>3 DEF InWindow
  <2> HIDE DEF first
  <2>4. first \in 1..h /\ first \in Int /\ h \in Int /\ first <= h
    BY <1>1, <2>2
  <2>5. \A i \in first..h : hits[c][i] \in Nat
    BY <1>1, <2>4
  <2>6. /\ InWindow(c) \in Seq(Nat)
        /\ Len(InWindow(c)) = h - first + 1
        /\ \A i \in 1..(h - first + 1) : InWindow(c)[i] = hits[c][first + i - 1]
    BY <2>3, <2>4, <2>5, SubSeqProperties
  <2>7. ASSUME NEW i \in 1..(first - 1) PROVE Expired(hits[c][i])
    <3>1. i \in 1..h /\ ~(first <= i)
      BY <1>1, <2>4
    <3>2. i \notin live
      BY <2>2, <3>1
    <3>3. QED
      BY <3>1, <3>2
  <2>8. ~Expired(hits[c][first])
    BY <2>2
  <2> DEFINE k == Len(InWindow(c))
  <2>9. k \in Nat /\ k <= h /\ h - k = first - 1 /\ k = h - first + 1
    BY <1>1, <2>4, <2>6
  <2>10. ASSUME NEW i \in 1..k PROVE InWindow(c)[i] = hits[c][h - k + i]
    <3>1. InWindow(c)[i] = hits[c][first + i - 1]
      BY <2>6, <2>9
    <3>2. first + i - 1 = h - k + i
      BY <1>1, <2>4, <2>9
    <3>3. QED
      BY <3>1, <3>2
  <2>11. \A i \in 1..(h - k) : Expired(hits[c][i])
    BY <2>7, <2>9
  <2>12. InWindow(c)[1] = hits[c][first]
    BY <2>4, <2>6
  <2>13. QED
    BY <2>6, <2>8, <2>9, <2>10, <2>11, <2>12
<1>4. QED
  BY <1>2, <1>3
-----------------------------------------------------------------------------
(***************************************************************************)
(* The inductive invariant, client by client.                              *)
(***************************************************************************)

Recent(c) == Len(hits[c])
Total(c) == Len(admitted[c])

\* The deque holds the last admissions.
Remembered(c) ==
    /\ Recent(c) <= Total(c) /\ Recent(c) <= Limit
    /\ \A i \in 1..Recent(c) : hits[c][i] = admitted[c][Total(c) - Recent(c) + i]

\* What is not in it has left the window, unless the clock was set back.
Forgotten(c) ==
    steady => \A i \in 1..(Total(c) - Recent(c)) : Expired(admitted[c][i])

Quota(c) ==
    steady => \A i \in 1..Total(c) :
        i > Limit => admitted[c][i] - admitted[c][i - Limit] >= Window

\* The admission that shuts the client out until it leaves the window.
Oldest(c) == admitted[c][Total(c) - Limit + 1]

Earned(c) == refused[c] # Never => Total(c) >= Limit /\ refused[c] - Oldest(c) < Window

\* No refusal told the client to come back before that.
Told(c) ==
    /\ refused[c] # Never => comeBack[c] # Never
    /\ comeBack[c] # Never => Total(c) >= Limit /\ comeBack[c] > Oldest(c) + Window

ClientInv(c) == Remembered(c) /\ Forgotten(c) /\ Quota(c) /\ Earned(c) /\ Told(c)

IInv == TypeOK /\ \A c \in Clients : ClientInv(c)

\* What a step finds when it checks a client.
LEMMA Checked ==
  ASSUME IInv, NEW c \in Clients
  PROVE  /\ InWindow(c) \in Seq(Nat)
         /\ Len(InWindow(c)) <= Total(c) /\ Len(InWindow(c)) <= Limit
         /\ \A i \in 1..Len(InWindow(c)) :
              InWindow(c)[i] = admitted[c][Total(c) - Len(InWindow(c)) + i]
         /\ steady => \A i \in 1..(Total(c) - Len(InWindow(c))) : Expired(admitted[c][i])
         /\ Len(InWindow(c)) > 0 => InWindow(c)[1] > now - Window
<1> DEFINE W == InWindow(c)
           k == Len(W)
           h == Recent(c)
           n == Total(c)
<1>1. hits[c] \in Seq(Nat) /\ admitted[c] \in Seq(Nat) /\ now \in Nat /\ ClientInv(c)
  BY DEF IInv, TypeOK
<1>2. /\ W \in Seq(Nat)
      /\ k <= h
      /\ \A i \in 1..k : W[i] = hits[c][h - k + i]
      /\ \A i \in 1..(h - k) : Expired(hits[c][i])
      /\ k > 0 => ~Expired(W[1])
  BY <1>1, InWindowOK DEF Recent
<1>3. k \in Nat /\ h \in Nat /\ n \in Nat /\ h <= n /\ h <= Limit /\ Limit \in Nat /\ Window \in Nat
  BY <1>1, <1>2, Clamped DEF ClientInv, Remembered, Recent, Total
<1> HIDE DEF W, k, h, n
<1>4. ASSUME NEW i \in 1..k PROVE W[i] = admitted[c][n - k + i]
  <2>1. h - k + i \in 1..h
    BY <1>2, <1>3
  <2>2. hits[c][h - k + i] = admitted[c][n - h + (h - k + i)]
    BY <1>1, <2>1 DEF ClientInv, Remembered, h, n
  <2>3. n - h + (h - k + i) = n - k + i
    BY <1>3
  <2>4. QED
    BY <1>2, <2>2, <2>3
<1>5. ASSUME steady, NEW i \in 1..(n - k) PROVE Expired(admitted[c][i])
  <2>1. CASE i <= n - h
    BY <1>1, <1>3, <1>5, <2>1 DEF ClientInv, Forgotten, h, n
  <2>2. CASE i > n - h
    <3>1. i - (n - h) \in 1..(h - k) /\ i - (n - h) \in 1..h /\ (n - h) + (i - (n - h)) = i
      BY <1>2, <1>3, <2>2
    <3>2. hits[c][i - (n - h)] = admitted[c][(n - h) + (i - (n - h))]
      BY <1>1, <3>1 DEF ClientInv, Remembered, h, n
    <3>3. QED
      BY <1>2, <3>1, <3>2
  <2>3. QED
    BY <1>3, <2>1, <2>2
<1>6. k > 0 => W[1] > now - Window
  BY <1>1, <1>2, <1>3 DEF Expired, k
<1>7. QED
  BY <1>2, <1>3, <1>4, <1>5, <1>6 DEF W, k, h, n

\* How much later than the oldest hit leaves a refused client is told to come back.
LEMMA Hint ==
  ASSUME NEW a \in Nat, NEW t \in Nat,
         NEW r \in Int, r >= 1, r >= (Window - (t - a)) \div TicksPerSecond
  PROVE  /\ t + TicksPerSecond * (r + 1) \in Nat
         /\ t + TicksPerSecond * (r + 1) > a + Window
<1> DEFINE x == Window - (t - a)
           T == TicksPerSecond
<1>1. x \in Int /\ T \in Nat \ {0} /\ Window \in Nat
  BY Clamped, LimiterAssumption
<1>2. x \div T \in Int /\ x < T * ((x \div T) + 1)
  BY <1>1, RoundedUp
<1>3. T * ((x \div T) + 1) <= T * (r + 1) /\ T * (r + 1) \in Int /\ T * ((x \div T) + 1) \in Int
  BY <1>1, <1>2, Monotonic
<1>4. 0 <= T * (r + 1)
  <2>1. T * 0 <= T * (r + 1) /\ T * 0 = 0
    BY <1>1, Monotonic
  <2>2. QED
    BY <2>1
<1>5. x < T * (r + 1)
  BY <1>1, <1>2, <1>3
<1> HIDE DEF T
<1>6. t + T * (r + 1) \in Nat /\ t + T * (r + 1) > a + Window
  BY <1>1, <1>3, <1>4, <1>5
<1>7. QED
  BY <1>6 DEF T
-----------------------------------------------------------------------------
(***************************************************************************)
(* Its preservation.                                                       *)
(***************************************************************************)

\* A client whose hits, admissions and refusals stay keeps its invariant while the clock
\* goes on, and when it is set back.
LEMMA Untouched ==
  ASSUME IInv, NEW c \in Clients, now' \in Nat,
         hits'[c] = hits[c], admitted'[c] = admitted[c],
         refused'[c] = refused[c], comeBack'[c] = comeBack[c],
         steady' => steady /\ now' >= now
  PROVE  ClientInv(c)'
<1>1. /\ hits[c] \in Seq(Nat) /\ admitted[c] \in Seq(Nat) /\ now \in Nat /\ Window \in Nat
      /\ ClientInv(c)
  BY Clamped DEF IInv, TypeOK
<1>2. Recent(c)' = Recent(c) /\ Total(c)' = Total(c) /\ Oldest(c)' = Oldest(c)
  BY DEF Recent, Total, Oldest
<1>3. Remembered(c)' /\ Earned(c)' /\ Told(c)'
  BY <1>1, <1>2 DEF ClientInv, Remembered, Earned, Told
<1>4. Forgotten(c)'
  <2> SUFFICES ASSUME steady', NEW i \in 1..(Total(c) - Recent(c))
               PROVE  admitted[c][i] <= now' - Window
    BY <1>2 DEF Forgotten, Expired
  <2>1. admitted[c][i] <= now - Window
    BY <1>1 DEF ClientInv, Forgotten, Expired
  <2>2. Recent(c) \in Nat /\ Total(c) \in Nat /\ i \in 1..Total(c)
    BY <1>1 DEF Recent, Total
  <2>3. admitted[c][i] \in Nat
    BY <1>1, <2>2, SMTT(30) DEF Total
  <2>4. QED
    BY <1>1, <2>1, <2>3
<1>5. Quota(c)'
  BY <1>1, <1>2 DEF ClientInv, Quota
<1>6. QED
  BY <1>3, <1>4, <1>5 DEF ClientInv

\* What a client gets through.
LEMMA AdmitKeeps ==
  ASSUME IInv, NEW c \in Clients, Admit(c)
  PROVE  TypeOK' /\ ClientInv(c)'
<1> DEFINE W == InWindow(c)
           k == Len(W)
           n == Total(c)
           A == admitted[c]
<1>1. /\ A \in Seq(Nat) /\ now \in Nat /\ W \in Seq(Nat)
      /\ k \in Nat /\ n \in Nat /\ k <= n /\ k < Limit /\ n = Len(A)
      /\ Limit \in Nat \ {0} /\ Window \in Nat
      /\ \A i \in 1..k : W[i] = A[n - k + i]
      /\ steady => \A i \in 1..(n - k) : Expired(A[i])
  <2>1. A \in Seq(Nat) /\ now \in Nat /\ n = Len(A) /\ n \in Nat
    BY DEF IInv, TypeOK, Total
  <2>2. k < Limit /\ Limit \in Nat \ {0} /\ Window \in Nat
    BY Clamped DEF Admit
  <2>3. /\ W \in Seq(Nat) /\ k <= n
        /\ \A i \in 1..k : W[i] = A[n - k + i]
        /\ steady => \A i \in 1..(n - k) : Expired(A[i])
    BY Checked
  <2>4. k \in Nat
    BY <2>3
  <2>5. QED
    BY <2>1, <2>2, <2>3, <2>4
<1>2. /\ hits'[c] = Append(W, now) /\ admitted'[c] = Append(A, now)
      /\ refused'[c] = Never /\ comeBack'[c] = Never /\ UNCHANGED <<now, steady>>
  <2>1. TypeOK
    BY DEF IInv
  <2>2. hits'[c] = Append(W, now)
    BY <2>1 DEF TypeOK, Admit
  <2>3. Admitted(c)
    BY DEF Admit
  <2>4. QED
    BY <2>1, <2>2, <2>3 DEF TypeOK, Admitted
<1>3. TypeOK'
  <2>1. Append(W, now) \in Seq(Nat) /\ Append(A, now) \in Seq(Nat)
    BY <1>1
  <2>2. QED
    BY <2>1 DEF IInv, TypeOK, Admit, Admitted
<1> HIDE DEF W, k, n, A
<1>4. /\ Len(Append(W, now)) = k + 1 /\ Append(W, now)[k + 1] = now
      /\ \A i \in 1..k : Append(W, now)[i] = W[i]
      /\ Len(Append(A, now)) = n + 1 /\ Append(A, now)[n + 1] = now
      /\ \A i \in 1..n : Append(A, now)[i] = A[i]
  BY <1>1 DEF k
<1>5. Recent(c)' = k + 1 /\ Total(c)' = n + 1
  BY <1>2, <1>4 DEF Recent, Total
<1>6. Remembered(c)'
  <2>1. ASSUME NEW i \in 1..(k + 1)
        PROVE  hits'[c][i] = admitted'[c][(n + 1) - (k + 1) + i]
    <3>1. CASE i = k + 1
      <4>1. (n + 1) - (k + 1) + i = n + 1
        BY <1>1, <3>1
      <4>2. QED
        BY <1>2, <1>4, <3>1, <4>1
    <3>2. CASE i \in 1..k
      <4>1. (n + 1) - (k + 1) + i = n - k + i /\ n - k + i \in 1..n
        BY <1>1, <3>2
      <4>2. QED
        BY <1>1, <1>2, <1>4, <3>2, <4>1
    <3>3. QED
      BY <1>1, <3>1, <3>2
  <2>2. QED
    BY <1>1, <1>5, <2>1 DEF Remembered
<1>7. Forgotten(c)'
  <2> SUFFICES ASSUME steady', NEW i \in 1..((n + 1) - (k + 1))
               PROVE  admitted'[c][i] <= now' - Window
    BY <1>5 DEF Forgotten, Expired
  <2>1. i \in 1..(n - k) /\ i \in 1..n
    BY <1>1
  <2>2. A[i] <= now - Window
    BY <1>1, <1>2, <2>1 DEF Expired
  <2>3. QED
    BY <1>2, <1>4, <2>1, <2>2
<1>8. Quota(c)'
  <2> SUFFICES ASSUME steady', NEW i \in 1..(n + 1), i > Limit
               PROVE  admitted'[c][i] - admitted'[c][i - Limit] >= Window
    BY <1>5 DEF Quota
  <2>1. i - Limit \in 1..n
    BY <1>1
  <2>2. CASE i = n + 1
    <3>1. i - Limit \in 1..(n - k)
      BY <1>1, <2>1, <2>2
    <3>2. A[i - Limit] \in Nat
      BY <1>1, <2>1
    <3>3. steady
      BY <1>2
    <3>4. A[i - Limit] <= now - Window
      BY <1>1, <3>1, <3>3 DEF Expired
    <3>5. admitted'[c][i] = now /\ admitted'[c][i - Limit] = A[i - Limit]
      BY <1>2, <1>4, <2>1, <2>2
    <3>6. now - A[i - Limit] >= Window
      BY <1>1, <3>2, <3>4
    <3>7. QED
      BY <3>5, <3>6
  <2>3. CASE i \in 1..n
    <3>1. A[i] - A[i - Limit] >= Window
      BY <1>1, <1>2, <2>3 DEF IInv, ClientInv, Quota, n, A
    <3>2. QED
      BY <1>2, <1>4, <2>1, <2>3, <3>1
  <2>4. QED
    BY <1>1, <2>2, <2>3
<1>9. Earned(c)' /\ Told(c)'
  BY <1>2 DEF Earned, Told
<1>10. QED
  BY <1>3, <1>6, <1>7, <1>8, <1>9 DEF ClientInv

\* What a client is refused.
LEMMA RefuseKeeps ==
  ASSUME IInv, NEW c \in Clients, Refuse(c)
  PROVE  TypeOK' /\ ClientInv(c)'
<1> DEFINE W == InWindow(c)
           k == Len(W)
           n == Total(c)
           A == admitted[c]
           told == now + TicksPerSecond * (RetryAfter(c) + 1)
<1>1. /\ A \in Seq(Nat) /\ now \in Nat /\ W \in Seq(Nat)
      /\ k \in Nat /\ n \in Nat /\ k <= n /\ k = Limit /\ n = Len(A)
      /\ Limit \in Nat \ {0} /\ Window \in Nat
      /\ \A i \in 1..k : W[i] = A[n - k + i]
      /\ steady => \A i \in 1..(n - k) : Expired(A[i])
      /\ W[1] > now - Window /\ W[1] \in Nat
  <2>1. A \in Seq(Nat) /\ now \in Nat /\ n = Len(A) /\ n \in Nat
    BY DEF IInv, TypeOK, Total
  <2>2. k >= Limit /\ Limit \in Nat \ {0} /\ Window \in Nat
    BY Clamped DEF Refuse
  <2>3. /\ W \in Seq(Nat)
        /\ k <= n /\ k <= Limit
        /\ \A i \in 1..k : W[i] = A[n - k + i]
        /\ steady => \A i \in 1..(n - k) : Expired(A[i])
        /\ k > 0 => W[1] > now - Window
    BY Checked
  <2>4. k \in Nat
    BY <2>3
  <2> HIDE DEF k, n, A
  <2>5. k = Limit /\ k > 0
    BY <2>2, <2>3, <2>4
  <2>6. W[1] \in Nat
    BY <2>3, <2>4, <2>5 DEF k
  <2>7. QED
    BY <2>1, <2>2, <2>3, <2>4, <2>5, <2>6
<1>2. /\ hits'[c] = W /\ admitted'[c] = A
      /\ refused'[c] = now /\ UNCHANGED <<now, steady>>
      /\ comeBack'[c] = (IF comeBack[c] # Never /\ comeBack[c] < told THEN comeBack[c] ELSE told)
  BY DEF IInv, TypeOK, Refuse, Refused
<1>3. W[1] = Oldest(c) /\ n >= Limit
  <2>1. n - k + 1 = n - Limit + 1
    BY <1>1
  <2>2. W[1] = A[n - k + 1]
    BY <1>1
  <2>3. QED
    BY <1>1, <2>1, <2>2 DEF Oldest
<1>4. told \in Nat /\ told > Oldest(c) + Window
  <2> DEFINE rest == (Window - (now - W[1])) \div TicksPerSecond
  <2>1. rest \in Int
    BY <1>1, RoundedUp, LimiterAssumption
  <2>2. RetryAfter(c) \in Int /\ RetryAfter(c) >= 1 /\ RetryAfter(c) >= rest
    <3> HIDE DEF W
    <3>1. RetryAfter(c) = IF rest > 1 THEN rest ELSE 1
      BY DEF RetryAfter, W
    <3> HIDE DEF rest
    <3>2. QED
      BY <2>1, <3>1
  <2>3. QED
    BY <1>1, <1>3, <2>2, Hint
<1> HIDE DEF W, k, n, A, told
<1>5. TypeOK'
  <2>1. comeBack' \in [Clients -> Nat \cup {Never}]
    BY <1>4 DEF IInv, TypeOK, Refuse, Refused, told
  <2>2. hits' \in [Clients -> Seq(Nat)]
    BY <1>1 DEF IInv, TypeOK, Refuse, W
  <2>3. refused' \in [Clients -> Nat \cup {Never}]
    BY <1>1 DEF IInv, TypeOK, Refuse, Refused
  <2>4. QED
    BY <2>1, <2>2, <2>3 DEF IInv, TypeOK, Refuse, Refused
<1>6. Recent(c)' = k /\ Total(c)' = n /\ Oldest(c)' = Oldest(c)
  BY <1>2 DEF Recent, Total, Oldest, k, n, A
<1>7. Remembered(c)' /\ Forgotten(c)'
  <2>1. Remembered(c)'
    <3>1. ASSUME NEW i \in 1..k PROVE hits'[c][i] = admitted'[c][n - k + i]
      BY <1>1, <1>2
    <3>2. k <= n /\ k <= Limit
      BY <1>1
    <3>3. QED
      BY <1>6, <3>1, <3>2 DEF Remembered
  <2>2. steady' => \A i \in 1..(n - k) : A[i] <= now - Window
    BY <1>1, <1>2 DEF Expired
  <2>3. Forgotten(c)'
    BY <1>2, <1>6, <2>2 DEF Forgotten, Expired
  <2>4. QED
    BY <2>1, <2>3
<1>8. Quota(c)'
  BY <1>2, <1>6 DEF IInv, ClientInv, Quota, n, A
<1>9. Oldest(c) \in Nat
  BY <1>1, <1>3
<1>10. Earned(c)'
  BY <1>1, <1>2, <1>3, <1>6, <1>9 DEF Earned
<1>11. Told(c)'
  <2>1. comeBack[c] # Never => comeBack[c] > Oldest(c) + Window
    BY DEF IInv, ClientInv, Told
  <2>2. comeBack'[c] > Oldest(c) + Window
    BY <1>2, <1>4, <2>1
  <2>3. comeBack'[c] # Never
    BY <1>1, <1>9, <2>2 DEF Never
  <2>4. QED
    BY <1>3, <1>6, <2>2, <2>3 DEF Told
<1>12. QED
  BY <1>5, <1>7, <1>8, <1>10, <1>11 DEF ClientInv

-----------------------------------------------------------------------------
(***************************************************************************)
(* The theorems.                                                           *)
(***************************************************************************)

\* The inductive invariant holds.
THEOREM InvariantHolds == Spec => []IInv
<1>1. Init => IInv
  <2> SUFFICES ASSUME Init PROVE IInv
    OBVIOUS
  <2>1. TypeOK
    BY DEF Init, TypeOK
  <2>2. ASSUME NEW c \in Clients PROVE ClientInv(c)
    BY Clamped DEF Init, ClientInv, Remembered, Forgotten, Quota, Earned, Told, Recent, Total
  <2>3. QED
    BY <2>1, <2>2 DEF IInv
<1>2. IInv /\ [Next]_vars => IInv'
  <2> SUFFICES ASSUME IInv, [Next]_vars PROVE IInv'
    OBVIOUS
  <2>1. ASSUME NEW c \in Clients, Check(c) PROVE IInv'
    <3>1. TypeOK' /\ ClientInv(c)'
      BY <2>1, AdmitKeeps, RefuseKeeps DEF Check
    <3>2. ASSUME NEW d \in Clients \ {c} PROVE ClientInv(d)'
      <4>1. /\ hits'[d] = hits[d] /\ admitted'[d] = admitted[d]
            /\ refused'[d] = refused[d] /\ comeBack'[d] = comeBack[d]
            /\ UNCHANGED <<now, steady>>
        BY <2>1 DEF IInv, TypeOK, Check, Admit, Admitted, Refuse, Refused
      <4>2. now \in Nat
        BY DEF IInv, TypeOK
      <4>3. QED
        BY <4>1, <4>2, Untouched
    <3>3. QED
      BY <3>1, <3>2 DEF IInv
  <2>2. CASE Clear
    <3>1. TypeOK'
      BY <2>2 DEF IInv, TypeOK, Clear
    <3>2. ASSUME NEW c \in Clients PROVE ClientInv(c)'
      BY <2>2, Clamped
         DEF Clear, ClientInv, Remembered, Forgotten, Quota, Earned, Told, Recent, Total
    <3>3. QED
      BY <3>1, <3>2 DEF IInv
  <2>3. CASE Tick \/ SetBack \/ UNCHANGED vars
    <3>1. /\ now' \in Nat /\ UNCHANGED <<hits, admitted, refused, comeBack>>
          /\ steady' \in BOOLEAN /\ (steady' => steady /\ now' >= now)
      <4>1. now \in Nat /\ steady \in BOOLEAN
        BY DEF IInv, TypeOK
      <4>2. CASE Tick
        BY <4>1, <4>2 DEF Tick
      <4>3. CASE SetBack
        <5>1. now' \in 0..(now - 1) /\ ~steady' /\ steady' \in BOOLEAN
          BY <4>3, Zenon DEF SetBack
        <5>2. now' \in Nat
          BY <4>1, <5>1
        <5>3. UNCHANGED <<hits, admitted, refused, comeBack>>
          BY <4>3 DEF SetBack
        <5>4. QED
          BY <5>1, <5>2, <5>3
      <4>4. CASE UNCHANGED vars
        <5>1. UNCHANGED <<now, hits, admitted, refused, steady, comeBack>>
          BY <4>4 DEF vars
        <5>2. now' \in Nat /\ now' >= now
          BY <4>1, <5>1
        <5>3. steady' \in BOOLEAN /\ (steady' => steady)
          BY <4>1, <5>1
        <5>4. QED
          BY <5>1, <5>2, <5>3
      <4>5. QED
        BY <2>3, <4>2, <4>3, <4>4
    <3>2. TypeOK'
      BY <3>1 DEF IInv, TypeOK
    <3>3. ASSUME NEW c \in Clients PROVE ClientInv(c)'
      BY <3>1, Untouched
    <3>4. QED
      BY <3>2, <3>3 DEF IInv
  <2>4. QED
    BY <2>1, <2>2, <2>3 DEF Next
<1>3. QED
  BY <1>1, <1>2, PTL DEF Spec

\* The variables always have their types.
THEOREM TypeCorrect == Spec => []TypeOK
<1>1. IInv => TypeOK
  BY DEF IInv
<1>2. QED
  BY <1>1, InvariantHolds, PTL

\* No client gets more than its quota through in any window of a steady clock.
THEOREM QuotaIsHeld == Spec => []QuotaHeld
<1>1. IInv => QuotaHeld
  BY DEF IInv, ClientInv, Quota, QuotaHeld, Total
<1>2. QED
  BY <1>1, InvariantHolds, PTL

\* Whoever is refused has used up its quota in the window that ends then.
THEOREM RefusalsAreEarned == Spec => []RefusalsEarned
<1>1. IInv => RefusalsEarned
  BY DEF IInv, ClientInv, Earned, Oldest, RefusalsEarned, Total
<1>2. QED
  BY <1>1, InvariantHolds, PTL

\* Whoever waits a second longer than told is not refused again.
THEOREM HintsAreHonoured == Spec => []HintHonoured
<1>1. IInv => HintHonoured
  <2> SUFFICES ASSUME IInv, NEW c \in Clients, refused[c] # Never PROVE refused[c] < comeBack[c]
    BY DEF HintHonoured
  <2>1. refused[c] - Oldest(c) < Window /\ comeBack[c] > Oldest(c) + Window
    BY DEF IInv, ClientInv, Earned, Told
  <2>2. refused[c] \in Int /\ comeBack[c] \in Int /\ Window \in Nat
    BY Clamped DEF IInv, TypeOK, Never
  <2>3. Oldest(c) \in Nat
    <3>1. admitted[c] \in Seq(Nat) /\ Total(c) >= Limit /\ Total(c) = Len(admitted[c])
      BY DEF IInv, TypeOK, ClientInv, Earned, Total
    <3>2. Total(c) - Limit + 1 \in 1..Len(admitted[c])
      BY <3>1, Clamped
    <3>3. QED
      BY <3>1, <3>2 DEF Oldest
  <2>4. QED
    BY <2>1, <2>2, <2>3
<1>2. QED
  BY <1>1, InvariantHolds, PTL
=============================================================================
