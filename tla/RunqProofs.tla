----------------------------- MODULE RunqProofs -----------------------------
(***************************************************************************)
(* EachOnce and EmptyJustified of module Runq, for any number of Ps and    *)
(* goroutines and any size of the rings.                                   *)
(*                                                                         *)
(* The free running indices are counted from Start: Gone(p) goroutines     *)
(* have left the ring of p and Came(p) have come into it.  NoLap says that *)
(* they do not come round to Start again within a behaviour, whose length  *)
(* RunqAssumption bounds; so two loads of an index that are equal mean     *)
(* that it has not moved, which is what the compare-and-swap of runqgrab   *)
(* and the second look of runqempty rely on.                               *)
(***************************************************************************)
EXTENDS Runq, FiniteSetTheorems, TLAPS

-----------------------------------------------------------------------------
(* Arithmetic.                                                             *)

LEMMA Consts ==
  /\ Len256 \in Nat /\ Len256 > 0 /\ Half \in Nat /\ Half > 0 /\ Half + Half = Len256
  /\ Wrap \in Nat /\ Wrap > 0 /\ Start \in 0 .. Wrap - 1 /\ Wrap % Len256 = 0
  /\ Nil \notin G /\ IsFiniteSet(P)
BY RunqAssumption DEF Half

\* The remainder is what is left of a multiple.
LEMMA ModUnique ==
  ASSUME NEW d \in Nat, d > 0, NEW q \in Int, NEW r \in 0 .. d - 1, NEW a \in Int, a = d * q + r
  PROVE  a % d = r
<1>1. PICK e \in Int, s \in 0 .. d - 1 : a = d * e + s /\ a % d = s
  OBVIOUS
<1>2. d * (q - e) = s - r
  BY <1>1
<1>3. q - e = 0
  <2>1. ASSUME q - e >= 1 PROVE FALSE
    <3>1. d * (q - e) >= d
      BY <2>1
    <3>. QED
      BY <1>1, <1>2, <3>1
  <2>2. ASSUME q - e <= -1 PROVE FALSE
    <3>1. d * (q - e) <= -d
      BY <2>2
    <3>. QED
      BY <1>1, <1>2, <3>1
  <2>. QED
    BY <2>1, <2>2
<1>. QED
  BY <1>1, <1>2, <1>3

LEMMA ModParts ==
  ASSUME NEW d \in Nat, d > 0, NEW a \in Int
  PROVE  a % d \in 0 .. d - 1 /\ \E q \in Int : a = d * q + (a % d)
OBVIOUS

LEMMA SlotType == \A a \in Int : Slot(a) \in 0 .. Len256 - 1
BY Consts, ModParts DEF Slot

\* Wrap is a number of laps of the ring.
LEMMA SlotWrap ==
  ASSUME NEW a \in Int
  PROVE  Slot(a - Wrap) = Slot(a)
<1>. DEFINE d == Len256
<1>0. d \in Nat /\ d > 0 /\ Wrap \in Int /\ Wrap % d = 0
  BY Consts
<1>. HIDE DEF d
<1>1. PICK q \in Int : a = d * q + (a % d)
  BY <1>0, ModParts
<1>2. PICK w \in Int : Wrap = d * w
  <2>1. PICK w \in Int : Wrap = d * w + (Wrap % d)
    BY <1>0, ModParts
  <2>. QED
    BY <1>0, <2>1
<1>3. a % d \in 0 .. d - 1
  BY <1>0, ModParts
<1>. DEFINE b == a - Wrap
            e == q - w
            r == a % d
<1>4. b = d * e + r /\ e \in Int /\ b \in Int /\ r \in 0 .. d - 1
  BY <1>0, <1>1, <1>2, <1>3
<1>5. b % d = r
  <2>. HIDE DEF b, e, r
  <2>. QED
    BY <1>0, <1>4, ModUnique
<1>. QED
  BY <1>5 DEF Slot, d

\* Fewer than Len256 apart, two goroutines are in different slots.
LEMMA SlotDiffer ==
  ASSUME NEW a \in Int, NEW b \in Int, a < b, b < a + Len256
  PROVE  Slot(a) # Slot(b)
<1>. DEFINE d == Len256
<1>0. d \in Nat /\ d > 0
  BY Consts
<1>1. a < b /\ b < a + d
  OBVIOUS
<1>. HIDE DEF d
<1>2. SUFFICES ASSUME a % d = b % d PROVE FALSE
  BY DEF Slot, d
<1>3. PICK q \in Int, r \in Int : a = d * q + (a % d) /\ b = d * r + (b % d)
  BY <1>0, ModParts
<1>4. a % d \in Int /\ b % d \in Int
  BY <1>0, ModParts
<1>5. b - a = d * (r - q)
  BY <1>0, <1>2, <1>3, <1>4
<1>6. r - q >= 1 => d * (r - q) >= d
  BY <1>0
<1>7. r - q <= 0 => d * (r - q) <= 0
  BY <1>0
<1>. QED
  BY <1>0, <1>1, <1>5, <1>6, <1>7

\* An index, counted from Start.
Since(x) == Sub(x, Start)

Word == 0 .. Wrap - 1

LEMMA SinceParts ==
  ASSUME NEW x \in Word
  PROVE  /\ Since(x) \in Word
         /\ x = IF Start + Since(x) < Wrap THEN Start + Since(x) ELSE Start + Since(x) - Wrap
<1>0. Wrap \in Nat /\ Wrap > 0 /\ Start \in Word
  BY Consts DEF Word
<1>1. CASE x >= Start
  <2>1. x - Start = Wrap * 0 + (x - Start) /\ x - Start \in Word
    BY <1>0, <1>1 DEF Word
  <2>2. Since(x) = x - Start
    BY <1>0, <2>1, ModUnique DEF Since, Sub, Word
  <2>. QED
    BY <1>0, <1>1, <2>2 DEF Word
<1>2. CASE x < Start
  <2>1. x - Start = Wrap * (-1) + (x - Start + Wrap) /\ x - Start + Wrap \in Word
    BY <1>0, <1>2 DEF Word
  <2>2. Since(x) = x - Start + Wrap
    BY <1>0, <2>1, ModUnique DEF Since, Sub, Word
  <2>. QED
    BY <1>0, <1>2, <2>2 DEF Word
<1>. QED
  BY <1>0, <1>1, <1>2 DEF Word

LEMMA SinceSame ==
  ASSUME NEW x \in Word, NEW y \in Word, Since(x) = Since(y)
  PROVE  x = y
BY SinceParts

LEMMA SincePlus ==
  ASSUME NEW x \in Word, NEW k \in Nat, Since(x) + k < Wrap
  PROVE  Plus(x, k) \in Word /\ Since(Plus(x, k)) = Since(x) + k
<1>. DEFINE s == Since(x)
            y == Plus(x, k)
<1>0. Wrap \in Nat /\ Wrap > 0 /\ Start \in Word /\ s \in Word /\ s + k < Wrap
  BY Consts, SinceParts DEF Word
<1>1. x = IF Start + s < Wrap THEN Start + s ELSE Start + s - Wrap
  BY SinceParts
<1>. HIDE DEF s
<1>2. x + k < Wrap + Wrap /\ x + k \in Nat
  BY <1>0, <1>1 DEF Word
<1>3. y = IF x + k < Wrap THEN x + k ELSE x + k - Wrap
  <2>1. CASE x + k < Wrap
    <3>1. x + k = Wrap * 0 + (x + k) /\ x + k \in Word
      BY <1>0, <1>2, <2>1 DEF Word
    <3>. QED
      BY <1>0, <2>1, <3>1, ModUnique DEF Plus, Word
  <2>2. CASE ~(x + k < Wrap)
    <3>1. x + k = Wrap * 1 + (x + k - Wrap) /\ x + k - Wrap \in Word
      BY <1>0, <1>2, <2>2 DEF Word
    <3>. QED
      BY <1>0, <2>2, <3>1, ModUnique DEF Plus, Word
  <2>. QED
    BY <2>1, <2>2
<1>. HIDE DEF y
<1>4. y \in Word
  BY <1>0, <1>2, <1>3 DEF Word
<1>5. Since(y) \in Word /\ y = IF Start + Since(y) < Wrap THEN Start + Since(y) ELSE Start + Since(y) - Wrap
  BY <1>4, SinceParts
<1>6. Since(y) = s + k
  BY <1>0, <1>1, <1>3, <1>4, <1>5 DEF Word
<1>. QED
  BY <1>4, <1>6 DEF s, y

LEMMA SinceSub ==
  ASSUME NEW x \in Word, NEW y \in Word, Since(y) <= Since(x)
  PROVE  Sub(x, y) = Since(x) - Since(y)
<1>. DEFINE s == Since(x)
            t == Since(y)
<1>0. Wrap \in Nat /\ Wrap > 0 /\ Start \in Word /\ s \in Word /\ t \in Word /\ t <= s
  BY Consts, SinceParts DEF Word
<1>1. /\ x = IF Start + s < Wrap THEN Start + s ELSE Start + s - Wrap
      /\ y = IF Start + t < Wrap THEN Start + t ELSE Start + t - Wrap
  BY SinceParts
<1>. HIDE DEF s, t
<1>2. x - y = s - t \/ x - y = s - t - Wrap
  BY <1>0, <1>1 DEF Word
<1>3. s - t \in Word /\ x - y \in Int
  BY <1>0, <1>1 DEF Word
<1>4. CASE x - y = s - t
  <2>1. x - y = Wrap * 0 + (s - t)
    BY <1>0, <1>3, <1>4
  <2>2. (x - y) % Wrap = s - t
    <3>. DEFINE e == x - y
                r == s - t
    <3>1. e \in Int /\ r \in 0 .. Wrap - 1 /\ e = Wrap * 0 + r /\ 0 \in Int
      BY <1>3, <2>1 DEF Word
    <3>. HIDE DEF e, r
    <3>2. e % Wrap = r
      BY <1>0, <3>1, ModUnique
    <3>. QED
      BY <3>2 DEF e, r
  <2>. QED
    BY <2>2 DEF Sub, s, t
<1>5. CASE x - y = s - t - Wrap
  <2>1. x - y = Wrap * (-1) + (s - t)
    <3>1. Wrap * (-1) = -Wrap
      BY <1>0
    <3>. QED
      BY <1>0, <1>3, <1>5, <3>1 DEF Word
  <2>2. (x - y) % Wrap = s - t
    <3>. DEFINE e == x - y
                r == s - t
    <3>1. e \in Int /\ r \in 0 .. Wrap - 1 /\ e = Wrap * (-1) + r /\ -1 \in Int
      BY <1>3, <2>1 DEF Word
    <3>. HIDE DEF e, r
    <3>2. e % Wrap = r
      BY <1>0, <3>1, ModUnique
    <3>. QED
      BY <3>2 DEF e, r
  <2>. QED
    BY <2>2 DEF Sub, s, t
<1>. QED
  BY <1>2, <1>4, <1>5

\* The slot of the goroutine k behind an index.
LEMMA SinceSlot ==
  ASSUME NEW x \in Word, NEW k \in Int
  PROVE  Slot(x + k) = Slot(Start + (Since(x) + k))
<1>. DEFINE s == Since(x)
<1>0. Wrap \in Nat /\ Start \in Nat /\ s \in Nat /\ x \in Nat
  BY Consts, SinceParts DEF Word
<1>1. x = IF Start + s < Wrap THEN Start + s ELSE Start + s - Wrap
  BY SinceParts
<1>. HIDE DEF s
<1>2. x + k = Start + (s + k) \/ x + k = (Start + (s + k)) - Wrap
  BY <1>0, <1>1
<1>3. Start + (s + k) \in Int
  BY <1>0
<1>. QED
  BY <1>2, <1>3, SlotWrap DEF s

-----------------------------------------------------------------------------
(* The invariant.                                                          *)

\* How many goroutines have left the ring of p, how many have come into it, and the
\* k-th that came (counted from 0), as long as it is there.
Gone(p)  == Since(runqhead[p])
Came(p)  == Since(runqtail[p])
At(p, k) == runq[p][Slot(Start + k)]

PC == {"idle", "run", "put", "tail", "global", "drain", "find", "globget", "batch", "batchTail",
       "steal", "grabTail", "copy", "grabNext", "stolen"}

\* Here p runs a goroutine; here it has none in its hands; here it has found its
\* ring empty, and only it puts goroutines there.
Busy      == {"run", "put", "tail", "global", "drain"}
EmptyHand == {"idle", "run", "find", "globget", "steal", "grabTail", "copy", "grabNext"}
Dry       == {"globget", "batch", "batchTail", "steal", "grabTail", "copy", "grabNext", "stolen"}

TypeOK ==
  /\ runnext \in [P -> G \cup {Nil}] /\ cur \in [P -> G \cup {Nil}]
  /\ runqhead \in [P -> Word] /\ runqtail \in [P -> Word]
  /\ runq \in [P -> [0 .. Len256 - 1 -> G \cup {Nil}]]
  /\ sched_runq \in Seq(G) /\ waiting \in SUBSET G /\ ready \in Nat /\ pc \in [P -> PC]
  /\ hand \in [P -> Seq(G)] /\ p2 \in [P -> P] /\ h \in [P -> Word]
  /\ n \in [P -> Nat] /\ i \in [P -> Nat] /\ ~throw

Has(s, g) == \E k \in DOMAIN s : s[k] = g
NoDup(s)  == \A k, l \in DOMAIN s : s[k] = s[l] => k = l

Lists == NoDup(sched_runq) /\ \A p \in P : NoDup(hand[p])

\* The ring holds Came(p) - Gone(p) goroutines, each once.
Ringed(p) ==
  /\ Gone(p) <= Came(p) /\ Came(p) <= Gone(p) + Len256
  /\ \A k \in Gone(p) .. Came(p) - 1 : At(p, k) \in G
  /\ \A k, l \in Gone(p) .. Came(p) - 1 : At(p, k) = At(p, l) => k = l
  /\ pc[p] \in Dry => Gone(p) = Came(p)

\* What p has in its hands, and has stored behind runqtail already.
Hands(p) ==
  /\ pc[p] \in Busy <=> cur[p] # Nil
  /\ pc[p] \in EmptyHand => hand[p] = <<>>
  /\ pc[p] \in {"put", "tail"} => Len(hand[p]) = 1
  /\ pc[p] = "tail" => Came(p) < Gone(p) + Len256 /\ At(p, Came(p)) = hand[p][1]
  /\ pc[p] \in {"batch", "batchTail", "stolen"} => Len(hand[p]) \in 1 .. Half
  /\ pc[p] = "batchTail" =>
       \A k \in 1 .. Len(hand[p]) - 1 : At(p, Came(p) + k - 1) = hand[p][k + 1]
  /\ pc[p] = "stolen" =>
       n[p] = Len(hand[p]) /\ \A k \in 1 .. n[p] : At(p, Came(p) + k - 1) = hand[p][k]

\* A thief may have a stale head; as long as it has not, what it wants, and what it
\* has copied of it, is there.
Copied(p) ==
  Since(h[p]) = Gone(p2[p]) =>
    /\ Since(h[p]) + n[p] <= Came(p2[p])
    /\ \A k \in 0 .. i[p] - 1 : At(p, Came(p) + k) = At(p2[p], Since(h[p]) + k)

Thief(p) ==
  /\ pc[p] \in {"grabTail", "copy", "grabNext"} => p2[p] # p
  /\ pc[p] \in {"grabTail", "copy"} => Since(h[p]) <= Gone(p2[p])
  /\ pc[p] = "copy" => n[p] \in 1 .. Half /\ i[p] <= n[p] /\ Copied(p)

InRing(p, g) == \E k \in Gone(p) .. Came(p) - 1 : At(p, k) = g

\* The places of g: waiting, the global queue and four places of each P x.
In(kind, x, g) ==
  \/ kind = "waiting" /\ x = Nil /\ g \in waiting
  \/ kind = "global" /\ x = Nil /\ Has(sched_runq, g)
  \/ x \in P /\ kind = "runnext" /\ runnext[x] = g
  \/ x \in P /\ kind = "cur" /\ cur[x] = g
  \/ x \in P /\ kind = "runq" /\ InRing(x, g)
  \/ x \in P /\ kind = "hand" /\ Has(hand[x], g)

Only(kind, x, g) == \A other, y : In(other, y, g) <=> other = kind /\ y = x
Home(g)  == \E kind, x : Only(kind, x, g)
Homes    == \A g \in G : Home(g)

\* The indices do not come round to Start: what is yet to come into a ring is
\* bounded by what is yet to become runnable, and by what is to be executed, since with each
\* batch that moves one goroutine is.
Queued  == {g \in G : g \notin waiting /\ \A p \in P : cur[p] # g}
Pend(p) == IF pc[p] \in {"put", "tail"} THEN 1 ELSE 0
Lap(p)  == Came(p) + Pend(p) + ready + (Cardinality(Queued) + ready) * (Half - 1)
NoLap   == IsFiniteSet(Queued) /\ \A p \in P : Lap(p) < Wrap

\* runqempty: its loads may be stale, but when runqtail is still the one it has
\* loaded, the ring has been empty since.
Checks ==
  /\ chk \in [at : {"out", "tail", "next", "again", "empty", "work"}, p : P \cup {Nil},
              head : Word, tail : Word, next : G \cup {Nil}, calls : Nat]
  /\ chk.at # "out" => chk.p \in P
  /\ chk.at \in {"tail", "next", "again"} => Since(chk.head) <= Gone(chk.p)
  /\ chk.at \in {"next", "again"} => Since(chk.tail) <= Came(chk.p)
  /\ chk.at = "again" /\ Verdict(chk) = "empty" /\ chk.tail = runqtail[chk.p] => seen
  /\ chk.at = "empty" => seen

RingInv == TypeOK /\ Lists /\ (\A p \in P : Ringed(p) /\ Hands(p) /\ Thief(p)) /\ Homes /\ NoLap
RunqInv == RingInv /\ Checks

-----------------------------------------------------------------------------
(* Lists of goroutines.                                                    *)

LEMMA HasConcat ==
  ASSUME NEW s \in Seq(G), NEW t \in Seq(G)
  PROVE  /\ s \o t \in Seq(G)
         /\ \A g : Has(s \o t, g) <=> Has(s, g) \/ Has(t, g)
         /\ NoDup(s) /\ NoDup(t) /\ (\A g \in G : ~(Has(s, g) /\ Has(t, g))) => NoDup(s \o t)
<1>1. /\ s \o t \in Seq(G) /\ Len(s \o t) = Len(s) + Len(t)
      /\ \A k \in 1 .. Len(s) + Len(t) : (s \o t)[k] = IF k <= Len(s) THEN s[k] ELSE t[k - Len(s)]
  OBVIOUS
<1>. DEFINE u == s \o t
<1>2. DOMAIN u = 1 .. Len(s) + Len(t) /\ DOMAIN s = 1 .. Len(s) /\ DOMAIN t = 1 .. Len(t)
  BY <1>1
<1>3. Len(s) \in Nat /\ Len(t) \in Nat
  OBVIOUS
<1>. HIDE DEF u
<1>4. ASSUME NEW g PROVE Has(u, g) <=> Has(s, g) \/ Has(t, g)
  <2>1. ASSUME NEW k \in DOMAIN u, u[k] = g PROVE Has(s, g) \/ Has(t, g)
    <3>1. CASE k <= Len(s)
      BY <1>1, <1>2, <1>3, <2>1, <3>1 DEF Has, u
    <3>2. CASE ~(k <= Len(s))
      <4>1. k - Len(s) \in DOMAIN t /\ t[k - Len(s)] = g
        BY <1>1, <1>2, <1>3, <2>1, <3>2 DEF u
      <4>. QED
        BY <4>1 DEF Has
    <3>. QED
      BY <3>1, <3>2
  <2>2. ASSUME NEW k \in DOMAIN s, s[k] = g PROVE Has(u, g)
    <3>1. k \in DOMAIN u /\ u[k] = g
      BY <1>1, <1>2, <1>3, <2>2 DEF u
    <3>. QED
      BY <3>1 DEF Has
  <2>3. ASSUME NEW k \in DOMAIN t, t[k] = g PROVE Has(u, g)
    <3>1. k + Len(s) \in DOMAIN u /\ u[k + Len(s)] = g
      BY <1>1, <1>2, <1>3, <2>3 DEF u
    <3>. QED
      BY <3>1 DEF Has
  <2>. QED
    BY <2>1, <2>2, <2>3 DEF Has
<1>5. ASSUME NoDup(s), NoDup(t), \A g \in G : ~(Has(s, g) /\ Has(t, g)) PROVE NoDup(u)
  <2>. SUFFICES ASSUME NEW k \in DOMAIN u, NEW l \in DOMAIN u, u[k] = u[l], k < l PROVE FALSE
    BY <1>2, <1>3 DEF NoDup
  <2>1. CASE l <= Len(s)
    <3>1. k \in DOMAIN s /\ l \in DOMAIN s /\ s[k] = s[l]
      BY <1>1, <1>2, <1>3, <2>1 DEF u
    <3>. QED
      BY <1>2, <1>5, <3>1 DEF NoDup
  <2>2. CASE ~(k <= Len(s))
    <3>1. /\ k - Len(s) \in DOMAIN t /\ l - Len(s) \in DOMAIN t /\ t[k - Len(s)] = t[l - Len(s)]
      BY <1>1, <1>2, <1>3, <2>2 DEF u
    <3>2. k - Len(s) = l - Len(s)
      BY <1>5, <3>1 DEF NoDup
    <3>. QED
      BY <1>2, <1>3, <3>2
  <2>3. CASE k <= Len(s) /\ ~(l <= Len(s))
    <3>1. /\ k \in DOMAIN s /\ l - Len(s) \in DOMAIN t /\ s[k] = t[l - Len(s)]
      BY <1>1, <1>2, <1>3, <2>3 DEF u
    <3>2. s[k] \in G /\ Has(s, s[k]) /\ Has(t, s[k])
      BY <3>1 DEF Has
    <3>. QED
      BY <1>5, <3>2
  <2>. QED
    BY <1>2, <1>3, <2>1, <2>2, <2>3
<1>. QED
  BY <1>1, <1>4, <1>5 DEF u

\* A list of one.
LEMMA HasOne ==
  ASSUME NEW e \in G
  PROVE  <<e>> \in Seq(G) /\ NoDup(<<e>>) /\ \A g : Has(<<e>>, g) <=> g = e
<1>1. <<e>> \in Seq(G) /\ DOMAIN <<e>> = {1} /\ <<e>>[1] = e
  OBVIOUS
<1>. QED
  BY <1>1 DEF Has, NoDup

LEMMA HasNone == NoDup(<<>>) /\ \A g : ~Has(<<>>, g)
BY DEF NoDup, Has

\* A list cut after its first k.
LEMMA HasSplit ==
  ASSUME NEW s \in Seq(G), NoDup(s), NEW k \in 0 .. Len(s)
  PROVE  LET a == SubSeq(s, 1, k)
             b == SubSeq(s, k + 1, Len(s))
         IN  /\ a \in Seq(G) /\ b \in Seq(G) /\ Len(a) = k /\ Len(b) = Len(s) - k
             /\ NoDup(a) /\ NoDup(b)
             /\ \A g : Has(s, g) <=> Has(a, g) \/ Has(b, g)
             /\ \A g : ~(Has(a, g) /\ Has(b, g))
<1>. DEFINE a == SubSeq(s, 1, k)
            b == SubSeq(s, k + 1, Len(s))
            m == Len(s)
<1>0. m \in Nat /\ k \in 0 .. m /\ DOMAIN s = 1 .. m
  OBVIOUS
<1>1. /\ a \in Seq(G) /\ Len(a) = k /\ DOMAIN a = 1 .. k /\ \A l \in 1 .. k : a[l] = s[l]
  OBVIOUS
<1>2. /\ b \in Seq(G) /\ Len(b) = m - k /\ DOMAIN b = 1 .. m - k /\ \A l \in 1 .. m - k : b[l] = s[k + l]
  <2>1. Len(b) = m - k /\ b \in Seq(G)
    OBVIOUS
  <2>. QED
    BY <2>1
<1>. HIDE DEF a, b, m
<1>3. NoDup(a)
  BY <1>0, <1>1 DEF NoDup
<1>4. NoDup(b)
  <2>. SUFFICES ASSUME NEW x \in 1 .. m - k, NEW y \in 1 .. m - k, b[x] = b[y] PROVE x = y
    BY <1>2 DEF NoDup
  <2>1. k + x \in DOMAIN s /\ k + y \in DOMAIN s /\ s[k + x] = s[k + y]
    BY <1>0, <1>2
  <2>2. k + x = k + y
    BY <2>1 DEF NoDup
  <2>. QED
    BY <1>0, <2>2
<1>5. ASSUME NEW g PROVE Has(s, g) <=> Has(a, g) \/ Has(b, g)
  <2>1. ASSUME NEW l \in DOMAIN s, s[l] = g PROVE Has(a, g) \/ Has(b, g)
    <3>1. CASE l <= k
      BY <1>0, <1>1, <2>1, <3>1 DEF Has
    <3>2. CASE ~(l <= k)
      <4>1. l - k \in DOMAIN b /\ b[l - k] = g
        BY <1>0, <1>2, <2>1, <3>2
      <4>. QED
        BY <4>1 DEF Has
    <3>. QED
      BY <3>1, <3>2
  <2>2. ASSUME NEW l \in DOMAIN a, a[l] = g PROVE Has(s, g)
    BY <1>0, <1>1, <2>2 DEF Has
  <2>3. ASSUME NEW l \in DOMAIN b, b[l] = g PROVE Has(s, g)
    <3>1. k + l \in DOMAIN s /\ s[k + l] = g
      BY <1>0, <1>2, <2>3
    <3>. QED
      BY <3>1 DEF Has
  <2>. QED
    BY <2>1, <2>2, <2>3 DEF Has
<1>6. ASSUME NEW g, Has(a, g), Has(b, g) PROVE FALSE
  <2>1. PICK x \in 1 .. k : a[x] = g
    BY <1>1, <1>6 DEF Has
  <2>2. PICK y \in 1 .. m - k : b[y] = g
    BY <1>2, <1>6 DEF Has
  <2>3. x \in DOMAIN s /\ k + y \in DOMAIN s /\ s[x] = s[k + y]
    BY <1>0, <1>1, <1>2, <2>1, <2>2
  <2>4. x = k + y
    BY <2>3 DEF NoDup
  <2>. QED
    BY <1>0, <2>4
<1>. QED
  BY <1>1, <1>2, <1>3, <1>4, <1>5, <1>6 DEF a, b, m

-----------------------------------------------------------------------------
(* What a step of one P leaves to the others.                              *)

\* The indices of q only advance, and what stays in its ring does not change.
Grows(q) ==
  /\ Gone(q) <= Gone(q)' /\ Gone(q)' <= Came(q)' /\ Came(q) <= Came(q)'
  /\ Gone(q)' <= Came(q)
  /\ \A k \in Gone(q)' .. Came(q) - 1 : At(q, k)' = At(q, k)

\* What is written by x only.
Own(x) ==
  /\ pc'[x] = pc[x] /\ hand'[x] = hand[x] /\ cur'[x] = cur[x]
  /\ runq'[x] = runq[x] /\ runqtail'[x] = runqtail[x]
  /\ p2'[x] = p2[x] /\ h'[x] = h[x] /\ n'[x] = n[x] /\ i'[x] = i[x]

LEMMA Counts ==
  ASSUME TypeOK, NEW p \in P
  PROVE  /\ Gone(p) \in Nat /\ Came(p) \in Nat /\ Since(h[p]) \in Nat
         /\ n[p] \in Nat /\ i[p] \in Nat
<1>1. /\ runqhead[p] \in Word /\ runqtail[p] \in Word /\ h[p] \in Word
      /\ n[p] \in Nat /\ i[p] \in Nat
  BY DEF TypeOK
<1>. QED
  BY <1>1, SinceParts DEF Word, Gone, Came

LEMMA CountsNext ==
  ASSUME TypeOK', NEW p \in P
  PROVE  /\ Gone(p)' \in Nat /\ Came(p)' \in Nat /\ Since(h'[p]) \in Nat
         /\ n'[p] \in Nat /\ i'[p] \in Nat
<1>1. /\ runqhead'[p] \in Word /\ runqtail'[p] \in Word /\ h'[p] \in Word
      /\ n'[p] \in Nat /\ i'[p] \in Nat
  BY DEF TypeOK
<1>. QED
  BY <1>1, SinceParts DEF Word, Gone, Came

LEMMA OwnParts ==
  ASSUME NEW x \in P, Own(x)
  PROVE  Came(x)' = Came(x) /\ \A k : At(x, k)' = At(x, k)
BY DEF Own, Came, At

LEMMA RingedKept ==
  ASSUME TypeOK, TypeOK', NEW x \in P, Own(x), Grows(x), Ringed(x)
  PROVE  Ringed(x)'
<1>1. Came(x)' = Came(x) /\ \A k : At(x, k)' = At(x, k)
  BY OwnParts
<1>2. Gone(x) \in Nat /\ Came(x) \in Nat /\ Gone(x)' \in Nat
  BY Counts, CountsNext
<1>3. Gone(x) <= Gone(x)' /\ Gone(x)' <= Came(x)
  BY <1>1 DEF Grows
<1>4. pc'[x] = pc[x]
  BY DEF Own
<1>. QED
  BY <1>1, <1>2, <1>3, <1>4, Consts DEF Ringed

LEMMA HandsKept ==
  ASSUME TypeOK, TypeOK', NEW x \in P, Own(x), Grows(x), Hands(x)
  PROVE  Hands(x)'
<1>1. Came(x)' = Came(x) /\ \A k : At(x, k)' = At(x, k)
  BY OwnParts
<1>2. Gone(x) \in Nat /\ Came(x) \in Nat /\ Gone(x)' \in Nat /\ Gone(x) <= Gone(x)'
  BY Counts, CountsNext DEF Grows
<1>3. pc'[x] = pc[x] /\ hand'[x] = hand[x] /\ cur'[x] = cur[x] /\ n'[x] = n[x]
  BY DEF Own
<1>. QED
  BY <1>1, <1>2, <1>3, Consts DEF Hands

LEMMA ThiefKept ==
  ASSUME TypeOK, TypeOK', NEW x \in P, NEW q \in P, p2[x] = q, Own(x), Grows(q), Thief(x)
  PROVE  Thief(x)'
<1>1. Came(x)' = Came(x) /\ \A k : At(x, k)' = At(x, k)
  BY OwnParts
<1>2. /\ Gone(q) \in Nat /\ Came(q) \in Nat /\ Gone(q)' \in Nat /\ Came(q)' \in Nat
      /\ Gone(q) <= Gone(q)' /\ Came(q) <= Came(q)' /\ Since(h[x]) \in Nat
      /\ n[x] \in Nat /\ i[x] \in Nat
  BY Counts, CountsNext DEF Grows
<1>3. pc'[x] = pc[x] /\ p2'[x] = q /\ h'[x] = h[x] /\ n'[x] = n[x] /\ i'[x] = i[x]
  BY DEF Own
<1>4. ASSUME pc[x] = "copy" PROVE Copied(x)'
  <2>. SUFFICES ASSUME Since(h[x]) = Gone(q)'
                PROVE  /\ Since(h[x]) + n[x] <= Came(q)'
                       /\ \A k \in 0 .. i[x] - 1 : At(x, Came(x) + k)' = At(q, Since(h[x]) + k)'
    BY <1>3 DEF Copied, Gone, Came, At
  <2>1. Since(h[x]) = Gone(q) /\ Gone(q)' = Gone(q) /\ i[x] <= n[x]
    BY <1>2, <1>4 DEF Thief
  <2>2. /\ Since(h[x]) + n[x] <= Came(q)
        /\ \A k \in 0 .. i[x] - 1 : At(x, Came(x) + k) = At(q, Since(h[x]) + k)
    BY <1>4, <2>1 DEF Thief, Copied
  <2>3. \A k \in 0 .. i[x] - 1 : runq'[q][Slot(Start + (Since(h[x]) + k))] = At(q, Since(h[x]) + k)
    <3>. SUFFICES ASSUME NEW k \in 0 .. i[x] - 1
                  PROVE  runq'[q][Slot(Start + (Since(h[x]) + k))] = At(q, Since(h[x]) + k)
      OBVIOUS
    <3>. DEFINE y == Since(h[x]) + k
    <3>1. y \in Gone(q)' .. Came(q) - 1
      BY <1>2, <2>1, <2>2
    <3>. HIDE DEF y
    <3>2. runq'[q][Slot(Start + y)] = At(q, y)
      BY <3>1 DEF Grows, At
    <3>. QED
      BY <3>2 DEF y
  <2>4. \A k : runq'[x][Slot(Start + (Came(x) + k))] = At(x, Came(x) + k)
    BY <1>1 DEF At
  <2>. QED
    BY <1>1, <1>2, <1>3, <2>2, <2>3, <2>4 DEF At
<1>5. pc[x] \in {"grabTail", "copy"} => Since(h[x]) <= Gone(q)'
  BY <1>2 DEF Thief
<1>. QED
  BY <1>3, <1>4, <1>5 DEF Thief, Gone

\* The other Ps, and the thread in runqempty.
LEMMA Others ==
  ASSUME TypeOK, TypeOK', \A x \in P : Ringed(x) /\ Hands(x) /\ Thief(x),
         NEW p \in P, \A x \in P \ {p} : Own(x), \A q \in P : Grows(q)
  PROVE  \A x \in P \ {p} : Ringed(x)' /\ Hands(x)' /\ Thief(x)'
<1>. SUFFICES ASSUME NEW x \in P \ {p} PROVE Ringed(x)' /\ Hands(x)' /\ Thief(x)'
  OBVIOUS
<1>1. PICK q \in P : p2[x] = q
  BY DEF TypeOK
<1>2. Ringed(x)' /\ Hands(x)'
  BY RingedKept, HandsKept
<1>3. Thief(x)'
  BY <1>1, ThiefKept
<1>. QED
  BY <1>2, <1>3

LEMMA ChecksKept ==
  ASSUME TypeOK, TypeOK', Checks, chk' = chk, chk.at # "out" /\ seen => seen',
         \A q \in P : Grows(q)
  PROVE  Checks'
<1>1. CASE chk.at = "out"
  BY <1>1 DEF Checks
<1>2. CASE chk.at # "out"
  <2>1. PICK q \in P : chk.p = q
    BY <1>2 DEF Checks
  <2>2. /\ Gone(q) \in Nat /\ Came(q) \in Nat /\ Gone(q)' \in Nat /\ Came(q)' \in Nat
        /\ Gone(q) <= Gone(q)' /\ Came(q) <= Came(q)'
    BY Counts, CountsNext DEF Grows
  <2>3. chk.head \in Word /\ chk.tail \in Word /\ runqtail[q] \in Word /\ runqtail'[q] \in Word
    BY DEF Checks, TypeOK
  <2>4. Since(chk.head) \in Nat /\ Since(chk.tail) \in Nat
    BY <2>3, SinceParts DEF Word
  <2>5. ASSUME chk.at = "again", Verdict(chk) = "empty", chk.tail = runqtail'[q] PROVE seen'
    <3>1. Since(chk.tail) <= Came(q) /\ Since(chk.tail) = Came(q)'
      BY <2>1, <2>5 DEF Checks, Came
    <3>2. Since(chk.tail) = Came(q)
      BY <2>2, <2>4, <3>1
    <3>3. chk.tail = runqtail[q]
      BY <2>3, <3>2, SinceSame DEF Came
    <3>. QED
      BY <1>2, <2>1, <2>5, <3>3 DEF Checks
  <2>6. chk.at \in {"tail", "next", "again"} => Since(chk.head) <= Gone(q)'
    BY <2>1, <2>2, <2>4 DEF Checks
  <2>7. chk.at \in {"next", "again"} => Since(chk.tail) <= Came(q)'
    BY <2>1, <2>2, <2>4 DEF Checks
  <2>8. Verdict(chk') = Verdict(chk)
    OBVIOUS
  <2>. QED
    BY <1>2, <2>1, <2>5, <2>6, <2>7, <2>8 DEF Checks, Gone, Came
<1>. QED
  BY <1>1, <1>2

\* The sequence Ring(p) holds what InRing says.
LEMMA RingIs ==
  ASSUME TypeOK, NEW p \in P, Ringed(p)
  PROVE  /\ Ring(p) \in Seq(G) /\ Len(Ring(p)) = Came(p) - Gone(p)
         /\ Sub(runqtail[p], runqhead[p]) = Came(p) - Gone(p)
         /\ \A k \in 1 .. Came(p) - Gone(p) : Ring(p)[k] = At(p, Gone(p) + k - 1)
         /\ NoDup(Ring(p))
         /\ \A g : Has(Ring(p), g) <=> InRing(p, g)
<1>. DEFINE a == Gone(p)
            b == Came(p)
            s == Ring(p)
<1>0. a \in Nat /\ b \in Nat /\ a <= b
  BY Counts DEF Ringed
<1>1. runqhead[p] \in Word /\ runqtail[p] \in Word
  BY DEF TypeOK
<1>2. Sub(runqtail[p], runqhead[p]) = b - a
  BY <1>0, <1>1, SinceSub DEF Gone, Came
<1>3. ASSUME NEW k \in Int PROVE Slot(runqhead[p] + k - 1) = Slot(Start + (a + k - 1))
  <2>1. runqhead[p] + k - 1 = runqhead[p] + (k - 1) /\ a + k - 1 = a + (k - 1)
    BY <1>0, <1>1, Consts DEF Word
  <2>2. Slot(runqhead[p] + (k - 1)) = Slot(Start + (a + (k - 1)))
    BY <1>1, SinceSlot DEF Gone
  <2>. QED
    BY <2>1, <2>2
<1>4. s = [k \in 1 .. b - a |-> At(p, a + k - 1)]
  BY <1>2, <1>3 DEF Ring, At
<1>5. \A k \in a .. b - 1 : At(p, k) \in G
  BY DEF Ringed
<1>6. \A k, l \in a .. b - 1 : At(p, k) = At(p, l) => k = l
  BY DEF Ringed
<1>. HIDE DEF a, b, s
<1>8. ASSUME NEW k \in 1 .. b - a PROVE a + k - 1 \in a .. b - 1
  BY <1>0
<1>9. s \in Seq(G) /\ Len(s) = b - a /\ DOMAIN s = 1 .. b - a
  <2>1. b - a \in Nat /\ \A k \in 1 .. b - a : At(p, a + k - 1) \in G
    BY <1>0, <1>5, <1>8
  <2>. QED
    BY <1>4, <2>1
<1>10. NoDup(s)
  <2>. SUFFICES ASSUME NEW k \in 1 .. b - a, NEW l \in 1 .. b - a, s[k] = s[l] PROVE k = l
    BY <1>9 DEF NoDup
  <2>1. a + k - 1 = a + l - 1
    BY <1>4, <1>6, <1>8
  <2>. QED
    BY <1>0, <2>1
<1>11. ASSUME NEW g PROVE Has(s, g) <=> \E k \in a .. b - 1 : At(p, k) = g
  <2>1. ASSUME NEW k \in DOMAIN s, s[k] = g PROVE \E l \in a .. b - 1 : At(p, l) = g
    BY <1>4, <1>8, <1>9, <2>1
  <2>2. ASSUME NEW k \in a .. b - 1, At(p, k) = g PROVE Has(s, g)
    <3>1. k - a + 1 \in 1 .. b - a /\ a + (k - a + 1) - 1 = k
      BY <1>0
    <3>2. s[k - a + 1] = g
      BY <1>4, <2>2, <3>1
    <3>. QED
      BY <1>9, <3>1, <3>2 DEF Has
  <2>. QED
    BY <2>1, <2>2 DEF Has
<1>. QED
  BY <1>2, <1>4, <1>9, <1>10, <1>11 DEF a, b, s, InRing

LEMMA GrowsSame ==
  ASSUME TypeOK, NEW x \in P, Ringed(x),
         runqhead'[x] = runqhead[x], runqtail'[x] = runqtail[x], runq'[x] = runq[x]
  PROVE  /\ Grows(x) /\ Gone(x)' = Gone(x) /\ Came(x)' = Came(x)
         /\ \A k : At(x, k)' = At(x, k)
         /\ \A g : InRing(x, g)' <=> InRing(x, g)
<1>1. Gone(x)' = Gone(x) /\ Came(x)' = Came(x) /\ \A k : At(x, k)' = At(x, k)
  BY DEF Gone, Came, At
<1>2. Gone(x) \in Nat /\ Came(x) \in Nat /\ Gone(x) <= Came(x)
  BY Counts DEF Ringed
<1>. QED
  BY <1>1, <1>2 DEF Grows, InRing

-----------------------------------------------------------------------------
(* Where a goroutine is.                                                   *)

LEMMA PlaceOf ==
  ASSUME Homes, NEW g \in G, NEW kind, NEW x, In(kind, x, g)
  PROVE  Only(kind, x, g)
BY DEF Homes, Home, Only

\* Those in M go from one place to another, those in N too, the rest stay.
Moved(g, M, k1, x1, k2, x2, N, k3, x3, k4, x4) ==
  \A kind, x :
    In(kind, x, g)' <=>
      \/ In(kind, x, g) /\ ~(g \in M /\ kind = k1 /\ x = x1) /\ ~(g \in N /\ kind = k3 /\ x = x3)
      \/ g \in M /\ kind = k2 /\ x = x2
      \/ g \in N /\ kind = k4 /\ x = x4

LEMMA Move ==
  ASSUME Homes, NEW M, NEW k1, NEW x1, NEW k2, NEW x2, NEW N, NEW k3, NEW x3, NEW k4, NEW x4,
         \A g \in M : In(k1, x1, g), \A g \in N : In(k3, x3, g) /\ g \notin M,
         \A g \in G : Moved(g, M, k1, x1, k2, x2, N, k3, x3, k4, x4)
  PROVE  Homes'
<1>. SUFFICES ASSUME NEW g \in G PROVE Home(g)'
  BY DEF Homes
<1>0. Moved(g, M, k1, x1, k2, x2, N, k3, x3, k4, x4)
  OBVIOUS
<1>1. CASE g \in M
  <2>1. Only(k1, x1, g)
    BY <1>1, PlaceOf
  <2>2. Only(k2, x2, g)'
    BY <1>0, <1>1, <2>1 DEF Only, Moved
  <2>. QED
    BY <2>2 DEF Home
<1>2. CASE g \in N
  <2>1. Only(k3, x3, g)
    BY <1>2, PlaceOf
  <2>2. Only(k4, x4, g)'
    BY <1>0, <1>2, <2>1 DEF Only, Moved
  <2>. QED
    BY <2>2 DEF Home
<1>3. CASE g \notin M /\ g \notin N
  <2>1. PICK kind, x : Only(kind, x, g)
    BY DEF Homes, Home
  <2>2. Only(kind, x, g)'
    BY <1>0, <1>3, <2>1 DEF Only, Moved
  <2>. QED
    BY <2>2 DEF Home
<1>. QED
  BY <1>1, <1>2, <1>3

LEMMA Stay ==
  ASSUME Homes, \A g \in G : \A kind, x : In(kind, x, g)' <=> In(kind, x, g)
  PROVE  Homes'
<1>1. ASSUME NEW g \in G PROVE Home(g)'
  <2>1. PICK kind, x : Only(kind, x, g)
    BY DEF Homes, Home
  <2>2. Only(kind, x, g)'
    BY <2>1 DEF Only
  <2>. QED
    BY <2>2 DEF Home
<1>. QED
  BY <1>1 DEF Homes

-----------------------------------------------------------------------------
(* NoLap.                                                                  *)

\* There is room for what is yet to come.
LEMMA Room ==
  ASSUME TypeOK, NoLap, NEW p \in P
  PROVE  /\ Cardinality(Queued) \in Nat
         /\ Came(p) + Pend(p) < Wrap
         /\ Queued # {} => Came(p) + Pend(p) + (Half - 1) < Wrap
<1>. DEFINE c == Cardinality(Queued)
            m == Half - 1
<1>1. c \in Nat /\ (Queued # {} => c > 0)
  BY FS_CardinalityType, FS_EmptySet DEF NoLap
<1>2. Came(p) \in Nat /\ Pend(p) \in Nat /\ ready \in Nat /\ Wrap \in Nat /\ m \in Nat
  <2>1. Pend(p) \in Nat
    BY DEF Pend
  <2>. QED
    BY <2>1, Counts, Consts DEF TypeOK
<1>3. Came(p) + Pend(p) + ready + (c + ready) * m < Wrap
  BY DEF NoLap, Lap
<1>. HIDE DEF c, m
<1>4. (c + ready) * m \in Nat /\ (c > 0 => (c + ready) * m >= m)
  <2>1. (c + ready) * m \in Nat
    BY <1>1, <1>2
  <2>2. ASSUME c > 0 PROVE (c + ready) * m >= m
    <3>. DEFINE z == c + ready - 1
    <3>1. z \in Nat /\ (c + ready) * m = z * m + m
      BY <1>1, <1>2, <2>2
    <3>2. z * m \in Nat
      BY <1>2, <3>1
    <3>. QED
      BY <1>2, <3>1, <3>2
  <2>. QED
    BY <2>1, <2>2
<1>. QED
  BY <1>1, <1>2, <1>3, <1>4 DEF c, m

\* A step that lets no more goroutines in than it pays for.
LEMMA LapKept ==
  ASSUME TypeOK, TypeOK', NoLap, IsFiniteSet(Queued'),
         ready' <= ready,
         \/ /\ Cardinality(Queued') + ready' <= Cardinality(Queued) + ready
            /\ \A p \in P : Came(p)' + Pend(p)' + ready' <= Came(p) + Pend(p) + ready
         \/ /\ Cardinality(Queued') + ready' < Cardinality(Queued) + ready
            /\ \A p \in P : Came(p)' + Pend(p)' + ready' <= Came(p) + Pend(p) + ready + (Half - 1)
  PROVE  NoLap'
<1>. DEFINE m == Half - 1
            c == Cardinality(Queued) + ready
            d == Cardinality(Queued') + ready'
<1>0. m \in Nat /\ c \in Nat /\ d \in Nat /\ ready \in Nat /\ ready' \in Nat /\ Wrap \in Nat
  BY FS_CardinalityType, Consts DEF NoLap, TypeOK
<1>. SUFFICES ASSUME NEW p \in P PROVE Lap(p)' < Wrap
  BY DEF NoLap
<1>. DEFINE a == Came(p) + Pend(p) + ready
            b == Came(p)' + Pend(p)' + ready'
<1>1. a \in Nat /\ b \in Nat
  BY <1>0, Counts, CountsNext DEF Pend
<1>2. a + c * m < Wrap
  BY DEF NoLap, Lap
<1>3. \/ d <= c /\ b <= a
      \/ d < c /\ b <= a + m
  OBVIOUS
<1>4. Lap(p)' = b + d * m
  BY DEF Lap
<1>. HIDE DEF a, b, c, d, m
<1>5. CASE d <= c /\ b <= a
  <2>1. d * m <= c * m
    <3>. DEFINE z == c - d
    <3>1. z \in Nat /\ c * m = d * m + z * m
      BY <1>0, <1>5
    <3>2. z * m \in Nat /\ d * m \in Nat
      BY <1>0, <3>1
    <3>. QED
      BY <3>1, <3>2
  <2>2. d * m \in Nat /\ c * m \in Nat
    BY <1>0
  <2>. QED
    BY <1>0, <1>1, <1>2, <1>4, <1>5, <2>1, <2>2
<1>6. CASE d < c /\ b <= a + m
  <2>1. d * m + m <= c * m
    <3>. DEFINE z == c - d - 1
    <3>1. z \in Nat /\ c * m = d * m + m + z * m
      BY <1>0, <1>6
    <3>2. z * m \in Nat /\ d * m \in Nat
      BY <1>0, <3>1
    <3>. QED
      BY <1>0, <3>1, <3>2
  <2>2. d * m \in Nat /\ c * m \in Nat
    BY <1>0
  <2>. QED
    BY <1>0, <1>1, <1>2, <1>4, <1>6, <2>1, <2>2
<1>. QED
  BY <1>3, <1>5, <1>6

LEMMA QueuedSame ==
  ASSUME TypeOK, NoLap, waiting' = waiting, cur' = cur
  PROVE  IsFiniteSet(Queued') /\ Cardinality(Queued') = Cardinality(Queued) /\ Cardinality(Queued) \in Nat
<1>1. Queued' = Queued
  BY DEF Queued
<1>. QED
  BY <1>1, FS_CardinalityType DEF NoLap

\* p runs g.
LEMMA QueuedLess ==
  ASSUME TypeOK, NoLap, NEW p \in P, NEW g \in Queued, cur[p] = Nil,
         waiting' = waiting, cur' = [cur EXCEPT ![p] = g]
  PROVE  /\ IsFiniteSet(Queued') /\ Cardinality(Queued') = Cardinality(Queued) - 1
         /\ Cardinality(Queued) \in Nat
<1>1. Queued' = Queued \ {g}
  BY Consts DEF Queued, TypeOK
<1>. QED
  BY <1>1, FS_RemoveElement, FS_CardinalityType DEF NoLap

\* g becomes runnable.
LEMMA QueuedMore ==
  ASSUME TypeOK, NoLap, NEW g \in G, g \notin Queued, Queued' = Queued \cup {g}
  PROVE  /\ IsFiniteSet(Queued') /\ Cardinality(Queued') = Cardinality(Queued) + 1
         /\ Cardinality(Queued) \in Nat
BY FS_AddElement, FS_CardinalityType DEF NoLap

\* A goroutine in a queue or in a hand is queued.
LEMMA QueuedIn ==
  ASSUME Homes, NEW g \in G, NEW kind \in {"global", "runnext", "runq", "hand"}, NEW x, In(kind, x, g)
  PROVE  g \in Queued
<1>1. Only(kind, x, g)
  BY PlaceOf
<1>2. g \notin waiting
  <2>1. g \in waiting => In("waiting", Nil, g)
    BY DEF In
  <2>. QED
    BY <1>1, <2>1 DEF Only
<1>3. ASSUME NEW y \in P, cur[y] = g PROVE FALSE
  <2>1. In("cur", y, g)
    BY <1>3 DEF In
  <2>. QED
    BY <1>1, <2>1 DEF Only
<1>. QED
  BY <1>2, <1>3 DEF Queued

\* No index advances.
LEMMA LapSame ==
  ASSUME TypeOK, TypeOK', NoLap, IsFiniteSet(Queued'),
         ready' <= ready, Cardinality(Queued') + ready' <= Cardinality(Queued) + ready,
         NEW p \in P, \A x \in P \ {p} : Own(x), \A x \in P : Came(x)' = Came(x),
         pc'[p] \in {"put", "tail"} => pc[p] \in {"put", "tail"} \/ ready' < ready
  PROVE  NoLap'
<1>1. ready \in Nat /\ ready' \in Nat
  BY DEF TypeOK
<1>2. ASSUME NEW x \in P PROVE Came(x)' + Pend(x)' + ready' <= Came(x) + Pend(x) + ready
  <2>1. Came(x)' = Came(x) /\ Came(x) \in Nat
    BY Counts
  <2>2. Pend(x)' + ready' <= Pend(x) + ready /\ Pend(x) \in Nat /\ Pend(x)' \in Nat
    BY <1>1 DEF Pend, Own
  <2>. QED
    BY <1>1, <2>1, <2>2
<1>. QED
  BY <1>2, LapKept

-----------------------------------------------------------------------------
(* The steps that leave the rings alone.                                   *)

\* What every step has to keep.
Fine(p) == Ringed(p) /\ Hands(p) /\ Thief(p)

LEMMA SameRings ==
  ASSUME TypeOK, TypeOK', \A x \in P : Fine(x),
         runqhead' = runqhead, runqtail' = runqtail, runq' = runq
  PROVE  \A x \in P :
           /\ Grows(x) /\ Gone(x)' = Gone(x) /\ Came(x)' = Came(x)
           /\ (\A k : At(x, k)' = At(x, k)) /\ (\A g : InRing(x, g)' <=> InRing(x, g))
           /\ (pc'[x] \in Dry => Gone(x) = Came(x)) => Ringed(x)'
<1>. SUFFICES ASSUME NEW x \in P
              PROVE  /\ Grows(x) /\ Gone(x)' = Gone(x) /\ Came(x)' = Came(x)
                     /\ (\A k : At(x, k)' = At(x, k)) /\ (\A g : InRing(x, g)' <=> InRing(x, g))
                     /\ (pc'[x] \in Dry => Gone(x) = Came(x)) => Ringed(x)'
  OBVIOUS
<1>1. Ringed(x)
  BY DEF Fine
<1>2. /\ Grows(x) /\ Gone(x)' = Gone(x) /\ Came(x)' = Came(x)
      /\ (\A k : At(x, k)' = At(x, k)) /\ (\A g : InRing(x, g)' <=> InRing(x, g))
  BY <1>1, GrowsSame
<1>3. (pc'[x] \in Dry => Gone(x) = Came(x)) => Ringed(x)'
  BY <1>1, <1>2 DEF Ringed
<1>. QED
  BY <1>2, <1>3

LEMMA RingInvParts ==
  RingInv <=> TypeOK /\ Lists /\ (\A x \in P : Fine(x)) /\ Homes /\ NoLap
BY DEF RingInv, Fine

\* The parts of the next state put together.
LEMMA Together ==
  ASSUME RingInv, TypeOK', Lists', NEW p \in P, \A x \in P \ {p} : Own(x), \A q \in P : Grows(q),
         Fine(p)', Homes', NoLap'
  PROVE  RingInv'
<1>1. TypeOK /\ \A x \in P : Ringed(x) /\ Hands(x) /\ Thief(x)
  BY DEF RingInv
<1>2. \A x \in P \ {p} : Ringed(x)' /\ Hands(x)' /\ Thief(x)'
  BY <1>1, Others
<1>. QED
  BY <1>2 DEF RingInv, Fine

LEMMA ParkStep ==
  ASSUME RingInv, NEW p \in P, park(p)
  PROVE  RingInv' /\ \A q \in P : Grows(q)
<1>0. TypeOK /\ Lists /\ (\A x \in P : Fine(x)) /\ Homes /\ NoLap
  BY RingInvParts
<1>. USE DEF park, Goto, ringVars, thiefVars
<1>1. cur[p] \in G /\ hand[p] = <<>>
  BY <1>0 DEF Fine, Hands, Busy, EmptyHand, TypeOK
<1>2. TypeOK'
  BY <1>0, <1>1 DEF TypeOK, PC
<1>3. \A x \in P \ {p} : Own(x)
  BY <1>0 DEF Own, TypeOK
<1>4. Lists'
  BY <1>0 DEF Lists
<1>5. pc'[p] = "find" /\ hand'[p] = <<>> /\ cur'[p] = Nil
  BY <1>0, <1>1 DEF TypeOK
<1>6. \A x \in P : Grows(x) /\ Came(x)' = Came(x) /\ (\A g : InRing(x, g)' <=> InRing(x, g))
  BY <1>0, <1>2, SameRings
<1>7. Fine(p)'
  <2>1. Ringed(p)'
    BY <1>0, <1>2, <1>5, SameRings DEF Dry
  <2>. QED
    BY <1>5, <2>1 DEF Fine, Hands, Thief, Busy, EmptyHand
<1>8. Homes'
  <2>. DEFINE M == {cur[p]}
  <2>1. \A g \in M : In("cur", p, g)
    BY DEF In
  <2>2. ASSUME NEW g \in G PROVE Moved(g, M, "cur", p, "waiting", Nil, {}, "", Nil, "", Nil)
    BY <1>0, <1>1, <1>6, Consts DEF Moved, In, TypeOK
  <2>. QED
    BY <1>0, <2>1, <2>2, Move
<1>9. NoLap'
  <2>1. Queued' = Queued
    BY <1>0, <1>1, Consts DEF Queued, TypeOK
  <2>2. ready' = ready /\ ready \in Nat /\ IsFiniteSet(Queued) /\ Cardinality(Queued) \in Nat
    BY <1>0, FS_CardinalityType DEF TypeOK, NoLap
  <2>. QED
    BY <1>0, <1>2, <1>3, <1>5, <1>6, <2>1, <2>2, LapSame
<1>. QED
  BY <1>2, <1>3, <1>4, <1>6, <1>7, <1>8, <1>9, Together

LEMMA HasAppend ==
  ASSUME NEW s \in Seq(G), NEW e \in G
  PROVE  /\ Append(s, e) \in Seq(G)
         /\ \A g : Has(Append(s, e), g) <=> Has(s, g) \/ g = e
         /\ NoDup(s) /\ ~Has(s, e) => NoDup(Append(s, e))
<1>1. <<e>> \in Seq(G) /\ NoDup(<<e>>) /\ \A g : Has(<<e>>, g) <=> g = e
  BY HasOne
<1>2. Append(s, e) = s \o <<e>>
  OBVIOUS
<1>. DEFINE t == <<e>>
<1>3. t \in Seq(G) /\ NoDup(t) /\ \A g : Has(t, g) <=> g = e
  BY <1>1
<1>. HIDE DEF t
<1>4. /\ s \o t \in Seq(G)
      /\ \A g : Has(s \o t, g) <=> Has(s, g) \/ Has(t, g)
      /\ NoDup(s) /\ NoDup(t) /\ (\A g \in G : ~(Has(s, g) /\ Has(t, g))) => NoDup(s \o t)
  BY <1>3, HasConcat
<1>5. NoDup(s) /\ ~Has(s, e) => NoDup(s \o t)
  BY <1>3, <1>4
<1>6. Append(s, e) = s \o t
  BY <1>2 DEF t
<1>. QED
  BY <1>3, <1>4, <1>5, <1>6

LEMMA HasTail ==
  ASSUME NEW s \in Seq(G), NoDup(s), s # <<>>
  PROVE  /\ Head(s) \in G /\ Tail(s) \in Seq(G) /\ NoDup(Tail(s)) /\ Len(s) > 0 /\ Head(s) = s[1]
         /\ \A g : Has(s, g) <=> g = Head(s) \/ Has(Tail(s), g)
         /\ ~Has(Tail(s), Head(s))
<1>. DEFINE t == Tail(s)
            m == Len(s)
<1>1. m \in Nat /\ m > 0 /\ Head(s) \in G /\ Head(s) = s[1] /\ DOMAIN s = 1 .. m
  OBVIOUS
<1>2. /\ t \in Seq(G) /\ Len(t) = m - 1 /\ DOMAIN t = 1 .. m - 1
      /\ \A k \in 1 .. m - 1 : t[k] = s[k + 1]
  OBVIOUS
<1>. HIDE DEF t, m
<1>3. NoDup(t)
  <2>. SUFFICES ASSUME NEW k \in 1 .. m - 1, NEW l \in 1 .. m - 1, t[k] = t[l] PROVE k = l
    BY <1>2 DEF NoDup
  <2>1. k + 1 \in DOMAIN s /\ l + 1 \in DOMAIN s /\ s[k + 1] = s[l + 1]
    BY <1>1, <1>2
  <2>2. k + 1 = l + 1
    BY <2>1 DEF NoDup
  <2>. QED
    BY <1>1, <2>2
<1>4. ASSUME NEW g PROVE Has(s, g) <=> g = s[1] \/ Has(t, g)
  <2>1. ASSUME NEW k \in 1 .. m, s[k] = g PROVE g = s[1] \/ Has(t, g)
    <3>1. CASE k = 1
      BY <2>1, <3>1
    <3>2. CASE k # 1
      <4>1. k - 1 \in DOMAIN t /\ t[k - 1] = g
        BY <1>1, <1>2, <2>1, <3>2
      <4>. QED
        BY <4>1 DEF Has
    <3>. QED
      BY <3>1, <3>2
  <2>2. ASSUME NEW k \in DOMAIN t, t[k] = g PROVE Has(s, g)
    <3>1. k + 1 \in DOMAIN s /\ s[k + 1] = g
      BY <1>1, <1>2, <2>2
    <3>. QED
      BY <3>1 DEF Has
  <2>3. Has(s, s[1])
    BY <1>1 DEF Has
  <2>. QED
    BY <1>1, <2>1, <2>2, <2>3 DEF Has
<1>5. ~Has(t, s[1])
  <2>. SUFFICES ASSUME NEW k \in DOMAIN t, t[k] = s[1] PROVE FALSE
    BY DEF Has
  <2>1. k + 1 \in DOMAIN s /\ 1 \in DOMAIN s /\ s[k + 1] = s[1]
    BY <1>1, <1>2
  <2>2. k + 1 = 1
    BY <2>1 DEF NoDup
  <2>. QED
    BY <1>1, <1>2, <2>2
<1>. QED
  BY <1>1, <1>2, <1>3, <1>4, <1>5 DEF t, m

LEMMA GoschedStep ==
  ASSUME RingInv, NEW p \in P, goschedImpl(p)
  PROVE  RingInv' /\ \A q \in P : Grows(q)
<1>0. TypeOK /\ Lists /\ (\A x \in P : Fine(x)) /\ Homes /\ NoLap
  BY RingInvParts
<1>. USE DEF goschedImpl, Goto, ringVars, thiefVars
<1>1. cur[p] \in G /\ hand[p] = <<>>
  BY <1>0 DEF Fine, Hands, Busy, EmptyHand, TypeOK
<1>a. In("cur", p, cur[p]) /\ Only("cur", p, cur[p])
  BY <1>0, <1>1, PlaceOf DEF In
<1>b. ~Has(sched_runq, cur[p]) /\ cur[p] \notin waiting
  BY <1>a DEF Only, In
<1>c. /\ sched_runq' \in Seq(G) /\ NoDup(sched_runq')
      /\ \A g : Has(sched_runq', g) <=> Has(sched_runq, g) \/ g = cur[p]
  BY <1>0, <1>1, <1>b, HasAppend DEF TypeOK, Lists
<1>2. TypeOK'
  BY <1>0, <1>1, <1>c DEF TypeOK, PC
<1>3. \A x \in P \ {p} : Own(x)
  BY <1>0 DEF Own, TypeOK
<1>4. Lists'
  BY <1>0, <1>c DEF Lists
<1>5. pc'[p] = "find" /\ hand'[p] = <<>> /\ cur'[p] = Nil
  BY <1>0, <1>1 DEF TypeOK
<1>6. \A x \in P : Grows(x) /\ Came(x)' = Came(x) /\ (\A g : InRing(x, g)' <=> InRing(x, g))
  BY <1>0, <1>2, SameRings
<1>7. Fine(p)'
  <2>1. Ringed(p)'
    BY <1>0, <1>2, <1>5, SameRings DEF Dry
  <2>. QED
    BY <1>5, <2>1 DEF Fine, Hands, Thief, Busy, EmptyHand
<1>8. Homes'
  <2>. DEFINE M == {cur[p]}
  <2>1. \A g \in M : In("cur", p, g)
    BY <1>a
  <2>2. ASSUME NEW g \in G PROVE Moved(g, M, "cur", p, "global", Nil, {}, "", Nil, "", Nil)
    BY <1>0, <1>1, <1>6, <1>c, Consts DEF Moved, In, TypeOK
  <2>. QED
    BY <1>0, <2>1, <2>2, Move
<1>9. NoLap'
  <2>1. Queued' = Queued \cup {cur[p]} /\ cur[p] \notin Queued
    <3>1. ASSUME NEW x \in P \ {p}, cur[x] = cur[p] PROVE FALSE
      <4>1. In("cur", x, cur[p])
        BY <3>1 DEF In
      <4>. QED
        BY <1>a, <4>1 DEF Only
    <3>2. \A x \in P \ {p} : cur'[x] = cur[x]
      BY <1>3 DEF Own
    <3>. QED
      BY <1>0, <1>1, <1>5, <1>b, <3>1, <3>2, Consts DEF Queued
  <2>2. /\ IsFiniteSet(Queued') /\ Cardinality(Queued') = Cardinality(Queued) + 1
        /\ Cardinality(Queued) \in Nat
    BY <1>0, <1>1, <2>1, QueuedMore
  <2>3. ready' <= ready /\ Cardinality(Queued') + ready' <= Cardinality(Queued) + ready
    BY <1>0, <2>2 DEF TypeOK
  <2>. QED
    BY <1>0, <1>2, <1>3, <1>5, <1>6, <2>2, <2>3, LapSame
<1>. QED
  BY <1>2, <1>3, <1>4, <1>6, <1>7, <1>8, <1>9, Together

LEMMA GetNextStep ==
  ASSUME RingInv, NEW p \in P, runqgetNext(p)
  PROVE  RingInv' /\ \A q \in P : Grows(q)
<1>0. TypeOK /\ Lists /\ (\A x \in P : Fine(x)) /\ Homes /\ NoLap
  BY RingInvParts
<1>. USE DEF runqgetNext, Execute, Goto, ringVars, thiefVars
<1>1. runnext[p] \in G /\ hand[p] = <<>> /\ cur[p] = Nil
  <2>1. pc[p] = "find" /\ runnext[p] # Nil
    OBVIOUS
  <2>2. Hands(p) /\ runnext[p] \in G
    BY <1>0, <2>1 DEF Fine, TypeOK
  <2>. QED
    BY <2>1, <2>2 DEF Hands, Busy, EmptyHand
<1>2. TypeOK'
  BY <1>0, <1>1 DEF TypeOK, PC
<1>3. \A x \in P \ {p} : Own(x)
  BY <1>0 DEF Own, TypeOK
<1>4. Lists'
  BY <1>0 DEF Lists
<1>5. pc'[p] = "run" /\ hand'[p] = <<>> /\ cur'[p] \in G
  BY <1>0, <1>1 DEF TypeOK
<1>6. \A x \in P : Grows(x) /\ Came(x)' = Came(x) /\ (\A g : InRing(x, g)' <=> InRing(x, g))
  BY <1>0, <1>2, SameRings
<1>7. Fine(p)'
  <2>1. Ringed(p)'
    BY <1>0, <1>2, <1>5, SameRings DEF Dry
  <2>. QED
    BY <1>5, <2>1, Consts DEF Fine, Hands, Thief, Busy, EmptyHand
<1>a. \A g \in {runnext[p]} : In("runnext", p, g)
  BY DEF In
<1>8. Homes'
  <2>. DEFINE M == {runnext[p]}
  <2>2. ASSUME NEW g \in G PROVE Moved(g, M, "runnext", p, "cur", p, {}, "", Nil, "", Nil)
    BY <1>0, <1>1, <1>6, Consts DEF Moved, In, TypeOK
  <2>. QED
    BY <1>0, <1>a, <2>2, Move
<1>9. NoLap'
  <2>1. runnext[p] \in Queued
    BY <1>0, <1>1, <1>a, QueuedIn
  <2>2. /\ IsFiniteSet(Queued') /\ Cardinality(Queued') = Cardinality(Queued) - 1
        /\ Cardinality(Queued) \in Nat
    BY <1>0, <1>1, <2>1, QueuedLess
  <2>3. ready' <= ready /\ Cardinality(Queued') + ready' <= Cardinality(Queued) + ready
    BY <1>0, <2>2 DEF TypeOK
  <2>. QED
    BY <1>0, <1>2, <1>3, <1>5, <1>6, <2>2, <2>3, LapSame
<1>. QED
  BY <1>2, <1>3, <1>4, <1>6, <1>7, <1>8, <1>9, Together

LEMMA GlobgetStep ==
  ASSUME RingInv, NEW p \in P, globrunqget(p)
  PROVE  RingInv' /\ \A q \in P : Grows(q)
<1>0. TypeOK /\ Lists /\ (\A x \in P : Fine(x)) /\ Homes /\ NoLap
  BY RingInvParts
<1>. USE DEF globrunqget, Execute, Goto, ringVars, thiefVars
<1>. DEFINE e == Head(sched_runq)
<1>1. hand[p] = <<>> /\ cur[p] = Nil
  BY <1>0 DEF Fine, Hands, Busy, EmptyHand
<1>c. /\ e \in G /\ sched_runq' \in Seq(G) /\ NoDup(sched_runq')
      /\ \A g : Has(sched_runq, g) <=> g = e \/ Has(sched_runq', g)
      /\ ~Has(sched_runq', e)
  BY <1>0, HasTail DEF TypeOK, Lists
<1>d. cur' = [cur EXCEPT ![p] = e]
  OBVIOUS
<1>. HIDE DEF e
<1>2. TypeOK'
  BY <1>0, <1>1, <1>c, <1>d DEF TypeOK, PC
<1>3. \A x \in P \ {p} : Own(x)
  BY <1>0, <1>d DEF Own, TypeOK
<1>4. Lists'
  BY <1>0, <1>c DEF Lists
<1>5. pc'[p] = "run" /\ hand'[p] = <<>> /\ cur'[p] \in G
  BY <1>0, <1>1, <1>c, <1>d DEF TypeOK
<1>6. \A x \in P : Grows(x) /\ Came(x)' = Came(x) /\ (\A g : InRing(x, g)' <=> InRing(x, g))
  BY <1>0, <1>2, SameRings
<1>7. Fine(p)'
  <2>1. Ringed(p)'
    BY <1>0, <1>2, <1>5, SameRings DEF Dry
  <2>. QED
    BY <1>5, <2>1, Consts DEF Fine, Hands, Thief, Busy, EmptyHand
<1>a. \A g \in {e} : In("global", Nil, g)
  BY <1>c DEF In
<1>8. Homes'
  <2>. DEFINE M == {e}
  <2>2. ASSUME NEW g \in G PROVE Moved(g, M, "global", Nil, "cur", p, {}, "", Nil, "", Nil)
    BY <1>0, <1>1, <1>6, <1>c, <1>d, Consts DEF Moved, In, TypeOK
  <2>. QED
    BY <1>0, <1>a, <2>2, Move
<1>9. NoLap'
  <2>1. e \in Queued
    BY <1>0, <1>c, <1>a, QueuedIn
  <2>2. /\ IsFiniteSet(Queued') /\ Cardinality(Queued') = Cardinality(Queued) - 1
        /\ Cardinality(Queued) \in Nat
    BY <1>0, <1>1, <1>d, <2>1, QueuedLess
  <2>3. ready' <= ready /\ Cardinality(Queued') + ready' <= Cardinality(Queued) + ready
    BY <1>0, <2>2 DEF TypeOK
  <2>. QED
    BY <1>0, <1>2, <1>3, <1>5, <1>6, <2>2, <2>3, LapSame
<1>. QED
  BY <1>2, <1>3, <1>4, <1>6, <1>7, <1>8, <1>9, Together

\* The batch in the hands of p.
Batch(p) == {g \in G : Has(hand[p], g)}

LEMMA HandOnly ==
  ASSUME Homes, NEW p \in P, NEW g \in G, Has(hand[p], g)
  PROVE  /\ ~Has(sched_runq, g) /\ ~InRing(p, g) /\ g \notin waiting /\ g \in Queued
         /\ \A x \in P : cur[x] # g /\ runnext[x] # g
<1>1. In("hand", p, g)
  BY DEF In
<1>2. Only("hand", p, g)
  BY <1>1, PlaceOf
<1>3. ~In("global", Nil, g) /\ ~In("waiting", Nil, g) /\ ~In("runq", p, g)
  BY <1>2 DEF Only
<1>4. \A x : ~In("cur", x, g) /\ ~In("runnext", x, g)
  BY <1>2 DEF Only
<1>5. g \in Queued
  BY <1>1, QueuedIn
<1>. QED
  BY <1>3, <1>4, <1>5 DEF In

LEMMA GlobputStep ==
  ASSUME RingInv, NEW p \in P, globrunqputbatch(p)
  PROVE  RingInv' /\ \A q \in P : Grows(q)
<1>0. TypeOK /\ Lists /\ (\A x \in P : Fine(x)) /\ Homes /\ NoLap
  BY RingInvParts
<1>. USE DEF globrunqputbatch, Goto, Hold, ringVars, thiefVars
<1>1. cur[p] \in G /\ hand[p] \in Seq(G)
  BY <1>0 DEF Fine, Hands, Busy, TypeOK
<1>a. \A g \in G : Has(hand[p], g) => ~Has(sched_runq, g)
  BY <1>0, HandOnly
<1>c. /\ sched_runq' \in Seq(G) /\ NoDup(sched_runq')
      /\ \A g : Has(sched_runq', g) <=> Has(sched_runq, g) \/ Has(hand[p], g)
  BY <1>0, <1>1, <1>a, HasConcat DEF TypeOK, Lists
<1>5. pc'[p] = "run" /\ hand'[p] = <<>> /\ cur'[p] = cur[p]
  BY <1>0, <1>1, Consts DEF TypeOK
<1>2. TypeOK'
  BY <1>0, <1>1, <1>c DEF TypeOK, PC
<1>3. \A x \in P \ {p} : Own(x)
  BY <1>0 DEF Own, TypeOK
<1>d. \A x \in P : hand'[x] = IF x = p THEN <<>> ELSE hand[x]
  BY <1>0 DEF TypeOK
<1>4. Lists'
  BY <1>0, <1>c, <1>d, HasNone DEF Lists
<1>6. \A x \in P : Grows(x) /\ Came(x)' = Came(x) /\ (\A g : InRing(x, g)' <=> InRing(x, g))
  BY <1>0, <1>2, SameRings
<1>7. Fine(p)'
  <2>1. Ringed(p)'
    BY <1>0, <1>2, <1>5, SameRings DEF Dry
  <2>. QED
    BY <1>1, <1>5, <2>1, Consts DEF Fine, Hands, Thief, Busy, EmptyHand
<1>8. Homes'
  <2>. DEFINE M == Batch(p)
  <2>1. \A g \in M : In("hand", p, g)
    BY DEF In, Batch
  <2>2. ASSUME NEW g \in G PROVE Moved(g, M, "hand", p, "global", Nil, {}, "", Nil, "", Nil)
    BY <1>0, <1>1, <1>6, <1>c, <1>d, HasNone, Consts DEF Moved, In, Batch
  <2>. QED
    BY <1>0, <2>1, <2>2, Move
<1>9. NoLap'
  <2>2. IsFiniteSet(Queued') /\ Cardinality(Queued') = Cardinality(Queued) /\ Cardinality(Queued) \in Nat
    BY <1>0, QueuedSame
  <2>3. ready' <= ready /\ Cardinality(Queued') + ready' <= Cardinality(Queued) + ready
    BY <1>0, <2>2 DEF TypeOK
  <2>. QED
    BY <1>0, <1>2, <1>3, <1>5, <1>6, <2>2, <2>3, LapSame
<1>. QED
  BY <1>2, <1>3, <1>4, <1>6, <1>7, <1>8, <1>9, Together

LEMMA DrainNextStep ==
  ASSUME RingInv, NEW p \in P, runqdrainNext(p)
  PROVE  RingInv' /\ \A q \in P : Grows(q)
<1>0. TypeOK /\ Lists /\ (\A x \in P : Fine(x)) /\ Homes /\ NoLap
  BY RingInvParts
<1>. USE DEF runqdrainNext, Goto, Hold, ringVars, thiefVars
<1>. DEFINE s == IF runnext[p] = Nil THEN <<>> ELSE <<runnext[p]>>
<1>1. cur[p] \in G /\ hand[p] = <<>> /\ runnext[p] \in G \cup {Nil}
  BY <1>0 DEF Fine, Hands, Busy, EmptyHand, TypeOK
<1>c. s \in Seq(G) /\ NoDup(s) /\ \A g \in G : Has(s, g) <=> g = runnext[p]
  <2>1. CASE runnext[p] = Nil
    BY <2>1, HasNone, Consts
  <2>2. CASE runnext[p] # Nil
    BY <1>1, <2>2, HasOne
  <2>. QED
    BY <2>1, <2>2
<1>d. hand' = [hand EXCEPT ![p] = s]
  OBVIOUS
<1>. HIDE DEF s
<1>5. pc'[p] = "drain" /\ cur'[p] = cur[p]
  BY <1>0 DEF TypeOK
<1>2. TypeOK'
  BY <1>0, <1>1, <1>c, <1>d DEF TypeOK, PC
<1>3. \A x \in P \ {p} : Own(x)
  BY <1>0, <1>d DEF Own, TypeOK
<1>e. \A x \in P : hand'[x] = IF x = p THEN s ELSE hand[x]
  BY <1>0, <1>d DEF TypeOK
<1>4. Lists'
  BY <1>0, <1>c, <1>e DEF Lists
<1>6. \A x \in P : Grows(x) /\ Came(x)' = Came(x) /\ (\A g : InRing(x, g)' <=> InRing(x, g))
  BY <1>0, <1>2, SameRings
<1>7. Fine(p)'
  <2>1. Ringed(p)'
    BY <1>0, <1>2, <1>5, SameRings DEF Dry
  <2>. QED
    BY <1>1, <1>5, <2>1, Consts DEF Fine, Hands, Thief, Busy, EmptyHand
<1>8. Homes'
  <2>. DEFINE M == {runnext[p]}
  <2>1. \A g \in M : In("runnext", p, g)
    BY DEF In
  <2>f. \A x \in P : runnext'[x] = IF x = p THEN Nil ELSE runnext[x]
    BY <1>0 DEF TypeOK
  <2>2. ASSUME NEW g \in G PROVE Moved(g, M, "runnext", p, "hand", p, {}, "", Nil, "", Nil)
    BY <1>0, <1>1, <1>6, <1>c, <1>e, <2>f, HasNone, Consts DEF Moved, In
  <2>. QED
    BY <1>0, <2>1, <2>2, Move
<1>9. NoLap'
  <2>2. IsFiniteSet(Queued') /\ Cardinality(Queued') = Cardinality(Queued) /\ Cardinality(Queued) \in Nat
    BY <1>0, QueuedSame
  <2>3. ready' <= ready /\ Cardinality(Queued') + ready' <= Cardinality(Queued) + ready
    BY <1>0, <2>2 DEF TypeOK
  <2>. QED
    BY <1>0, <1>2, <1>3, <1>5, <1>6, <2>2, <2>3, LapSame
<1>. QED
  BY <1>2, <1>3, <1>4, <1>6, <1>7, <1>8, <1>9, Together

LEMMA Least3 ==
  ASSUME NEW a \in Int, NEW b \in Int, NEW c \in Int
  PROVE  /\ Least({a, b, c}) \in {a, b, c}
         /\ Least({a, b, c}) <= a /\ Least({a, b, c}) <= b /\ Least({a, b, c}) <= c
<1>1. \E x \in {a, b, c} : \A y \in {a, b, c} : x <= y
  <2>1. CASE a <= b /\ a <= c
    BY <2>1
  <2>2. CASE b <= a /\ b <= c
    BY <2>2
  <2>3. CASE c <= a /\ c <= b
    BY <2>3
  <2>. QED
    BY <2>1, <2>2, <2>3
<1>. QED
  BY <1>1 DEF Least

LEMMA GlobgetbatchStep ==
  ASSUME RingInv, NEW p \in P, globrunqgetbatch(p)
  PROVE  RingInv' /\ \A q \in P : Grows(q)
<1>0. TypeOK /\ Lists /\ (\A x \in P : Fine(x)) /\ Homes /\ NoLap
  BY RingInvParts
<1>. DEFINE c == Cardinality(P)
            m == Len(sched_runq)
            z == m \div c
            k == Least({Half, m, z + 1})
            s == SubSeq(sched_runq, 1, k)
            t == SubSeq(sched_runq, k + 1, m)
<1>x. /\ pc[p] = "globget"
      /\ \/ /\ sched_runq = <<>> /\ pc' = [pc EXCEPT ![p] = "steal"]
            /\ sched_runq' = sched_runq /\ hand' = hand
         \/ /\ sched_runq # <<>> /\ pc' = [pc EXCEPT ![p] = "batch"]
            /\ sched_runq' = t /\ hand' = [hand EXCEPT ![p] = s]
      /\ runnext' = runnext /\ runqhead' = runqhead /\ runqtail' = runqtail /\ runq' = runq
      /\ cur' = cur /\ waiting' = waiting /\ ready' = ready
      /\ p2' = p2 /\ h' = h /\ n' = n /\ i' = i /\ throw' = throw
  BY DEF globrunqgetbatch, Goto, Hold, ringVars, thiefVars
<1>1. cur[p] = Nil /\ hand[p] = <<>> /\ sched_runq \in Seq(G) /\ NoDup(sched_runq) /\ Gone(p) = Came(p)
  BY <1>0, <1>x DEF Fine, Hands, Ringed, Busy, EmptyHand, Dry, TypeOK, Lists
<1>k. sched_runq # <<>> => k \in 1 .. Half /\ k \in 0 .. m
  <2>. SUFFICES ASSUME sched_runq # <<>> PROVE k \in 1 .. Half /\ k \in 0 .. m
    OBVIOUS
  <2>1. m \in Nat /\ m > 0
    BY <1>1
  <2>2. c \in Nat /\ c > 0
    BY Consts, FS_CardinalityType, FS_EmptySet
  <2>3. z \in Nat
    <3>. HIDE DEF m, c
    <3>. QED
      BY <2>1, <2>2
  <2>4. Half \in Nat /\ Half > 0
    BY Consts
  <2>. HIDE DEF m, z
  <2>5. /\ k \in {Half, m, z + 1} /\ k <= Half /\ k <= m
    <3>1. Half \in Int /\ m \in Int /\ z + 1 \in Int
      BY <2>1, <2>3, <2>4
    <3>. QED
      BY <3>1, Least3
  <2>. HIDE DEF k
  <2>. QED
    BY <2>1, <2>3, <2>4, <2>5
<1>s. sched_runq # <<>> =>
        /\ s \in Seq(G) /\ t \in Seq(G) /\ Len(s) = k /\ NoDup(s) /\ NoDup(t)
        /\ \A g : Has(sched_runq, g) <=> Has(s, g) \/ Has(t, g)
        /\ \A g : ~(Has(s, g) /\ Has(t, g))
  <2>. HIDE DEF k
  <2>. QED
    BY <1>1, <1>k, HasSplit
<1>. HIDE DEF k, s, t, m, z
<1>2. TypeOK'
  <2>1. CASE sched_runq = <<>>
    BY <1>0, <1>x, <2>1 DEF TypeOK, PC
  <2>2. CASE sched_runq # <<>>
    <3>1. /\ pc' = [pc EXCEPT ![p] = "batch"] /\ sched_runq' = t /\ hand' = [hand EXCEPT ![p] = s]
          /\ t \in Seq(G) /\ s \in Seq(G)
      BY <1>x, <1>s, <2>2
    <3>2. pc' \in [P -> PC] /\ hand' \in [P -> Seq(G)] /\ sched_runq' \in Seq(G)
      BY <1>0, <3>1 DEF TypeOK, PC
    <3>. QED
      BY <1>0, <1>x, <3>2 DEF TypeOK
  <2>. QED
    BY <2>1, <2>2
<1>3. \A x \in P \ {p} : Own(x)
  BY <1>0, <1>x DEF Own, TypeOK
<1>4. Lists'
  <2>1. CASE sched_runq = <<>>
    BY <1>0, <1>x, <2>1 DEF Lists
  <2>2. CASE sched_runq # <<>>
    <3>1. \A x \in P : hand'[x] = IF x = p THEN s ELSE hand[x]
      BY <1>0, <1>x, <2>2 DEF TypeOK
    <3>. QED
      BY <1>0, <1>x, <1>s, <2>2, <3>1 DEF Lists
  <2>. QED
    BY <2>1, <2>2
<1>5. /\ cur'[p] = Nil
      /\ \/ pc'[p] = "steal" /\ hand'[p] = <<>>
         \/ pc'[p] = "batch" /\ Len(hand'[p]) \in 1 .. Half
  BY <1>0, <1>1, <1>x, <1>s, <1>k DEF TypeOK
<1>6. \A x \in P : Grows(x) /\ Came(x)' = Came(x) /\ (\A g : InRing(x, g)' <=> InRing(x, g))
  BY <1>0, <1>2, <1>x, SameRings
<1>7. Fine(p)'
  <2>1. Ringed(p)'
    BY <1>0, <1>1, <1>2, <1>x, SameRings
  <2>. QED
    BY <1>5, <2>1 DEF Fine, Hands, Thief, Busy, EmptyHand
<1>8. Homes'
  <2>1. CASE sched_runq = <<>>
    <3>1. \A g \in G : \A kind, x : In(kind, x, g)' <=> In(kind, x, g)
      BY <1>6, <1>x, <2>1 DEF In
    <3>. QED
      BY <1>0, <3>1, Stay
  <2>2. CASE sched_runq # <<>>
    <3>. DEFINE M == {g \in G : Has(s, g)}
    <3>1. \A g \in M : In("global", Nil, g)
      BY <1>s, <2>2 DEF In
    <3>f. \A x \in P : hand'[x] = IF x = p THEN s ELSE hand[x]
      BY <1>0, <1>x, <2>2 DEF TypeOK
    <3>2. ASSUME NEW g \in G PROVE Moved(g, M, "global", Nil, "hand", p, {}, "", Nil, "", Nil)
      BY <1>0, <1>1, <1>6, <1>s, <1>x, <2>2, <3>f, HasNone, Consts DEF Moved, In
    <3>. QED
      BY <1>0, <3>1, <3>2, Move
  <2>. QED
    BY <2>1, <2>2
<1>9. NoLap'
  <2>2. IsFiniteSet(Queued') /\ Cardinality(Queued') = Cardinality(Queued) /\ Cardinality(Queued) \in Nat
    BY <1>0, <1>x, QueuedSame
  <2>3. ready' <= ready /\ Cardinality(Queued') + ready' <= Cardinality(Queued) + ready
    BY <1>0, <1>x, <2>2 DEF TypeOK
  <2>. QED
    BY <1>0, <1>2, <1>3, <1>5, <1>6, <2>2, <2>3, LapSame
<1>. QED
  BY <1>2, <1>3, <1>4, <1>6, <1>7, <1>8, <1>9, Together

\* g was waiting; with next it is in runnext now, and what was there in the hand.
LEMMA RunqputStep ==
  ASSUME RingInv, NEW p \in P, NEW g \in G, NEW next \in BOOLEAN, runqput(p, g, next)
  PROVE  RingInv' /\ \A q \in P : Grows(q)
<1>0. TypeOK /\ Lists /\ (\A x \in P : Fine(x)) /\ Homes /\ NoLap
  BY RingInvParts
<1>. DEFINE old == runnext[p]
<1>x. /\ pc[p] = "run" /\ ready > 0 /\ g \in waiting
      /\ waiting' = waiting \ {g} /\ ready' = ready - 1
      /\ \/ next /\ old = Nil /\ runnext' = [runnext EXCEPT ![p] = g] /\ pc' = pc /\ hand' = hand
         \/ /\ next /\ old # Nil /\ runnext' = [runnext EXCEPT ![p] = g]
            /\ pc' = [pc EXCEPT ![p] = "put"] /\ hand' = [hand EXCEPT ![p] = <<old>>]
         \/ /\ ~next /\ runnext' = runnext
            /\ pc' = [pc EXCEPT ![p] = "put"] /\ hand' = [hand EXCEPT ![p] = <<g>>]
      /\ runqhead' = runqhead /\ runqtail' = runqtail /\ runq' = runq
      /\ sched_runq' = sched_runq /\ cur' = cur
      /\ p2' = p2 /\ h' = h /\ n' = n /\ i' = i /\ throw' = throw
  BY DEF runqput, Goto, Hold, ringVars, thiefVars
<1>1. cur[p] \in G /\ hand[p] = <<>> /\ old \in G \cup {Nil}
  BY <1>0, <1>x DEF Fine, Hands, Busy, EmptyHand, TypeOK
<1>a. Only("waiting", Nil, g)
  <2>1. In("waiting", Nil, g)
    BY <1>x DEF In
  <2>. QED
    BY <1>0, <2>1, PlaceOf
<1>s. \A e \in G : <<e>> \in Seq(G) /\ NoDup(<<e>>) /\ Len(<<e>>) = 1 /\ \A f : Has(<<e>>, f) <=> f = e
  BY HasOne
<1>. HIDE DEF old
<1>b. \E s \in Seq(G) :
        /\ hand' = [hand EXCEPT ![p] = s] /\ NoDup(s)
        /\ \/ s = <<>> /\ pc' = pc
           \/ Len(s) = 1 /\ pc' = [pc EXCEPT ![p] = "put"]
  <2>1. CASE next /\ old = Nil
    <3>1. hand' = [hand EXCEPT ![p] = <<>>]
      BY <1>0, <1>1, <1>x, <2>1 DEF TypeOK
    <3>2. <<>> \in Seq(G) /\ pc' = pc
      BY <1>x, <2>1
    <3>. QED
      BY <3>1, <3>2, HasNone
  <2>2. CASE next /\ old # Nil
    BY <1>1, <1>x, <1>s, <2>2
  <2>3. CASE ~next
    BY <1>x, <1>s, <2>3
  <2>. QED
    BY <2>1, <2>2, <2>3
<1>c. PICK s \in Seq(G) :
        /\ hand' = [hand EXCEPT ![p] = s] /\ NoDup(s)
        /\ \/ s = <<>> /\ pc' = pc
           \/ Len(s) = 1 /\ pc' = [pc EXCEPT ![p] = "put"]
  BY <1>b
<1>d. runnext' \in [P -> G \cup {Nil}] /\ ready' \in Nat /\ waiting' \in SUBSET G
  <2>1. runnext' = runnext \/ runnext' = [runnext EXCEPT ![p] = g]
    BY <1>x
  <2>a. runnext \in [P -> G \cup {Nil}]
    BY <1>0 DEF TypeOK
  <2>2. runnext' \in [P -> G \cup {Nil}]
    BY <2>1, <2>a
  <2>3. ready' \in Nat /\ waiting' \in SUBSET G
    BY <1>0, <1>x DEF TypeOK
  <2>. QED
    BY <2>2, <2>3
<1>2. TypeOK'
  <2>1. hand' \in [P -> Seq(G)] /\ pc' \in [P -> PC]
    BY <1>0, <1>c DEF TypeOK, PC
  <2>. QED
    BY <1>0, <1>x, <1>d, <2>1 DEF TypeOK
<1>3. \A x \in P \ {p} : Own(x)
  BY <1>0, <1>c, <1>x DEF Own, TypeOK
<1>4. Lists'
  <2>1. \A x \in P : hand'[x] = IF x = p THEN s ELSE hand[x]
    BY <1>0, <1>c DEF TypeOK
  <2>. QED
    BY <1>0, <1>x, <1>c, <2>1 DEF Lists
<1>5. /\ cur'[p] = cur[p]
      /\ \/ pc'[p] = "run" /\ hand'[p] = <<>>
         \/ pc'[p] = "put" /\ Len(hand'[p]) = 1
  BY <1>0, <1>1, <1>x, <1>c DEF TypeOK
<1>6. \A x \in P : Grows(x) /\ Came(x)' = Came(x) /\ (\A f : InRing(x, f)' <=> InRing(x, f))
  BY <1>0, <1>2, <1>x, SameRings
<1>7. Fine(p)'
  <2>1. Ringed(p)'
    BY <1>0, <1>2, <1>5, <1>x, SameRings DEF Dry
  <2>. QED
    BY <1>1, <1>5, <2>1, Consts DEF Fine, Hands, Thief, Busy, EmptyHand
<1>8. Homes'
  <2>. DEFINE M == {g}
  <2>1. \A f \in M : In("waiting", Nil, f)
    BY <1>x DEF In
  <2>2. CASE next /\ old = Nil
    <3>1. \A x \in P : runnext'[x] = IF x = p THEN g ELSE runnext[x]
      BY <1>0, <1>x, <2>2 DEF TypeOK
    <3>2. ASSUME NEW f \in G PROVE Moved(f, M, "waiting", Nil, "runnext", p, {}, "", Nil, "", Nil)
      BY <1>6, <1>x, <2>2, <3>1, Consts DEF Moved, In, old
    <3>. QED
      BY <1>0, <2>1, <3>2, Move
  <2>3. CASE next /\ old # Nil
    <3>. DEFINE N == {old}
    <3>0. \A f \in N : In("runnext", p, f) /\ f \notin M
      <4>1. In("runnext", p, old)
        BY DEF In, old
      <4>. QED
        BY <1>a, <4>1 DEF Only
    <3>1. \A x \in P : runnext'[x] = IF x = p THEN g ELSE runnext[x]
      BY <1>0, <1>x, <2>3 DEF TypeOK
    <3>2. \A x \in P : hand'[x] = IF x = p THEN <<old>> ELSE hand[x]
      BY <1>0, <1>x, <2>3 DEF TypeOK
    <3>3. old \in G /\ runnext[p] = old
      BY <1>1, <2>3 DEF old
    <3>4. ASSUME NEW f \in G
          PROVE  Moved(f, M, "waiting", Nil, "runnext", p, N, "runnext", p, "hand", p)
      BY <1>1, <1>6, <1>s, <1>x, <2>3, <3>1, <3>2, <3>3, HasNone, Consts DEF Moved, In
    <3>. QED
      BY <1>0, <2>1, <3>0, <3>4, Move
  <2>4. CASE ~next
    <3>1. \A x \in P : hand'[x] = IF x = p THEN <<g>> ELSE hand[x]
      BY <1>0, <1>x, <2>4 DEF TypeOK
    <3>2. ASSUME NEW f \in G PROVE Moved(f, M, "waiting", Nil, "hand", p, {}, "", Nil, "", Nil)
      BY <1>1, <1>6, <1>s, <1>x, <2>4, <3>1, HasNone, Consts DEF Moved, In
    <3>. QED
      BY <1>0, <2>1, <3>2, Move
  <2>. QED
    BY <2>2, <2>3, <2>4
<1>9. NoLap'
  <2>1. Queued' = Queued \cup {g} /\ g \notin Queued
    <3>1. ASSUME NEW x \in P, cur[x] = g PROVE FALSE
      <4>1. In("cur", x, g)
        BY <3>1 DEF In
      <4>. QED
        BY <1>a, <4>1 DEF Only
    <3>. QED
      BY <1>x, <3>1 DEF Queued
  <2>2. /\ IsFiniteSet(Queued') /\ Cardinality(Queued') = Cardinality(Queued) + 1
        /\ Cardinality(Queued) \in Nat
    BY <1>0, <2>1, QueuedMore
  <2>3. ready' < ready /\ ready' <= ready /\ Cardinality(Queued') + ready' <= Cardinality(Queued) + ready
    BY <1>0, <1>x, <2>2 DEF TypeOK
  <2>. QED
    BY <1>0, <1>2, <1>3, <1>6, <2>2, <2>3, LapSame
<1>. QED
  BY <1>2, <1>3, <1>4, <1>6, <1>7, <1>8, <1>9, Together

\* Steps that only look.
LEMMA LookStep ==
  ASSUME RingInv, NEW p \in P, TypeOK', \A x \in P \ {p} : Own(x),
         ringVars' = ringVars, sched_runq' = sched_runq, cur' = cur, waiting' = waiting,
         ready' = ready, hand' = hand,
         pc[p] \in EmptyHand \ Busy, pc'[p] \in EmptyHand \ Busy, pc'[p] \in Dry => Gone(p) = Came(p),
         Thief(p)'
  PROVE  RingInv' /\ \A q \in P : Grows(q)
<1>0. TypeOK /\ Lists /\ (\A x \in P : Fine(x)) /\ Homes /\ NoLap
  BY RingInvParts
<1>1. /\ runnext' = runnext /\ runqhead' = runqhead /\ runqtail' = runqtail /\ runq' = runq
      /\ hand[p] = <<>> /\ cur[p] = Nil
  BY <1>0 DEF ringVars, Fine, Hands
<1>4. Lists'
  BY <1>0 DEF Lists
<1>6. \A x \in P : Grows(x) /\ Came(x)' = Came(x) /\ (\A g : InRing(x, g)' <=> InRing(x, g))
  BY <1>0, <1>1, SameRings
<1>7. Fine(p)'
  <2>1. Ringed(p)'
    BY <1>0, <1>1, SameRings
  <2>2. pc'[p] \notin {"put", "tail", "batch", "batchTail", "stolen"}
    BY DEF EmptyHand
  <2>. QED
    BY <1>1, <2>1, <2>2 DEF Fine, Hands
<1>8. Homes'
  <2>1. \A g \in G : \A kind, x : In(kind, x, g)' <=> In(kind, x, g)
    BY <1>1, <1>6 DEF In
  <2>. QED
    BY <1>0, <2>1, Stay
<1>9. NoLap'
  <2>2. IsFiniteSet(Queued') /\ Cardinality(Queued') = Cardinality(Queued) /\ Cardinality(Queued) \in Nat
    BY <1>0, QueuedSame
  <2>3. ready' <= ready /\ Cardinality(Queued') + ready' <= Cardinality(Queued) + ready
    BY <1>0, <2>2 DEF TypeOK
  <2>4. pc'[p] \notin {"put", "tail"}
    BY DEF EmptyHand
  <2>. QED
    BY <1>0, <1>6, <2>2, <2>3, <2>4, LapSame
<1>. QED
  BY <1>4, <1>6, <1>7, <1>8, <1>9, Together

LEMMA GrabHeadStep ==
  ASSUME RingInv, NEW p \in P, NEW q \in P, grabHead(p, q)
  PROVE  RingInv' /\ \A x \in P : Grows(x)
<1>0. TypeOK /\ Ringed(p)
  BY DEF RingInv
<1>1. /\ pc[p] = "steal" /\ q # p /\ pc'[p] = "grabTail" /\ p2'[p] = q /\ h'[p] = runqhead[q]
      /\ runqhead' = runqhead
  BY <1>0 DEF grabHead, Goto, TypeOK, ringVars
<1>2. TypeOK'
  BY <1>0 DEF grabHead, Goto, TypeOK, ringVars, PC
<1>3. \A x \in P \ {p} : Own(x)
  BY <1>0 DEF Own, TypeOK, grabHead, Goto, ringVars
<1>4. Gone(p) = Came(p)
  BY <1>0, <1>1 DEF Ringed, Dry
<1>5. Thief(p)'
  <2>1. Since(h'[p]) \in Nat
    BY <1>2, CountsNext
  <2>. QED
    BY <1>1, <2>1 DEF Thief, Gone
<1>6. pc[p] \in EmptyHand \ Busy /\ pc'[p] \in EmptyHand \ Busy
  BY <1>1 DEF EmptyHand, Busy
<1>. QED
  BY <1>2, <1>3, <1>4, <1>5, <1>6, LookStep DEF grabHead

LEMMA GrabTailStep ==
  ASSUME RingInv, NEW p \in P, grabTail(p)
  PROVE  RingInv' /\ \A x \in P : Grows(x)
<1>0. TypeOK /\ Ringed(p) /\ Thief(p) /\ \A x \in P : Ringed(x)
  BY DEF RingInv
<1>. DEFINE d == Sub(runqtail[p2[p]], h[p])
            k == d - d \div 2
<1>x. /\ pc[p] = "grabTail"
      /\ pc' = [pc EXCEPT ![p] = IF k = 0 THEN "grabNext" ELSE IF k > Half THEN "steal" ELSE "copy"]
      /\ n' = [n EXCEPT ![p] = IF k > Half THEN 0 ELSE k] /\ i' = [i EXCEPT ![p] = 0]
      /\ ringVars' = ringVars /\ sched_runq' = sched_runq /\ cur' = cur /\ waiting' = waiting
      /\ ready' = ready /\ hand' = hand /\ p2' = p2 /\ h' = h /\ throw' = throw
  BY DEF grabTail, Goto
<1>q. PICK q \in P : p2[p] = q /\ q # p
  BY <1>0, <1>x DEF TypeOK, Thief
<1>1. /\ Since(h[p]) \in Nat /\ Gone(q) \in Nat /\ Came(q) \in Nat
      /\ Since(h[p]) <= Gone(q) /\ Gone(q) <= Came(q)
  BY <1>0, <1>q, <1>x, Counts DEF Ringed, Thief
<1>2. d = Came(q) - Since(h[p])
  <2>1. runqtail[q] \in Word /\ h[p] \in Word
    BY <1>0 DEF TypeOK
  <2>. QED
    BY <1>1, <1>q, <2>1, SinceSub DEF Came
<1>3. k \in Nat /\ k <= d /\ d \in Nat
  <2>1. d \in Nat
    BY <1>1, <1>2
  <2>. HIDE DEF d
  <2>. QED
    BY <2>1
<1>. HIDE DEF k, d
<1>4. TypeOK'
  BY <1>0, <1>3, <1>x DEF TypeOK, ringVars, PC
<1>5. \A x \in P \ {p} : Own(x)
  BY <1>0, <1>x DEF Own, TypeOK, ringVars
<1>6. Gone(p) = Came(p)
  BY <1>0, <1>x DEF Ringed, Dry
<1>7. /\ pc'[p] \in {"grabNext", "steal", "copy"} /\ i'[p] = 0 /\ p2'[p] = q /\ h'[p] = h[p]
      /\ pc'[p] = "copy" => n'[p] = k /\ k # 0 /\ k <= Half
      /\ runqhead' = runqhead /\ runqtail' = runqtail
  <2>1. Half \in Nat
    BY Consts
  <2>. QED
    BY <1>0, <1>3, <1>q, <1>x, <2>1 DEF TypeOK, ringVars
<1>8. Thief(p)'
  <2>0. Gone(q)' = Gone(q) /\ Came(q)' = Came(q)
    BY <1>7 DEF Gone, Came
  <2>1. ASSUME pc'[p] = "copy" PROVE Copied(p)'
    <3>1. Since(h[p]) + k <= Came(q)
      BY <1>1, <1>2, <1>3
    <3>2. Since(h'[p]) + n'[p] <= Since(runqtail'[p2'[p]])
      BY <1>7, <2>1, <3>1 DEF Came
    <3>3. \A j : j \notin 0 .. i'[p] - 1
      BY <1>7
    <3>. QED
      BY <3>2, <3>3 DEF Copied, Came
  <2>2. pc'[p] = "copy" => n'[p] \in 1 .. Half /\ i'[p] <= n'[p]
    BY <1>3, <1>7, Consts
  <2>3. Since(h'[p]) <= Gone(p2[p])'
    BY <1>1, <1>7, <2>0 DEF Gone
  <2>4. p2'[p] # p
    BY <1>q, <1>7
  <2>. QED
    BY <1>7, <2>1, <2>2, <2>3, <2>4 DEF Thief
<1>9. pc[p] \in EmptyHand \ Busy /\ pc'[p] \in EmptyHand \ Busy
  BY <1>7, <1>x DEF EmptyHand, Busy
<1>. QED
  BY <1>4, <1>5, <1>6, <1>8, <1>9, <1>x, LookStep

\* The thief gives up: somebody else was faster, or there is nothing.
GiveUp(p) ==
  /\ pc[p] \in {"copy", "grabNext"} /\ (Goto(p, "steal") \/ Goto(p, "find"))
  /\ Forget(p)
  /\ ringVars' = ringVars /\ sched_runq' = sched_runq /\ cur' = cur /\ waiting' = waiting
  /\ ready' = ready /\ hand' = hand /\ n' = n /\ throw' = throw

LEMMA GiveUpStep ==
  ASSUME RingInv, NEW p \in P, GiveUp(p)
  PROVE  RingInv' /\ \A x \in P : Grows(x)
<1>0. TypeOK /\ Ringed(p)
  BY DEF RingInv
<1>1. 0 \in Word
  BY Consts DEF Word
<1>2. TypeOK'
  BY <1>0, <1>1 DEF GiveUp, Goto, Forget, TypeOK, ringVars, PC
<1>3. \A x \in P \ {p} : Own(x)
  BY <1>0 DEF Own, TypeOK, GiveUp, Goto, Forget, ringVars
<1>4. Gone(p) = Came(p)
  BY <1>0 DEF Ringed, Dry, GiveUp
<1>5. pc'[p] \in {"steal", "find"}
  BY <1>0 DEF GiveUp, Goto, TypeOK
<1>6. Thief(p)'
  BY <1>5 DEF Thief
<1>7. pc[p] \in EmptyHand \ Busy /\ pc'[p] \in EmptyHand \ Busy
  BY <1>5 DEF EmptyHand, Busy, GiveUp
<1>. QED
  BY <1>2, <1>3, <1>4, <1>6, <1>7, LookStep DEF GiveUp

\* The ring was empty.
GetNone(p) ==
  /\ pc[p] = "find" /\ runqhead[p] = runqtail[p] /\ Goto(p, "globget")
  /\ ringVars' = ringVars /\ sched_runq' = sched_runq /\ cur' = cur /\ waiting' = waiting
  /\ ready' = ready /\ hand' = hand /\ thiefVars' = thiefVars /\ throw' = throw

LEMMA GetNoneStep ==
  ASSUME RingInv, NEW p \in P, GetNone(p)
  PROVE  RingInv' /\ \A x \in P : Grows(x)
<1>0. TypeOK
  BY DEF RingInv
<1>2. TypeOK'
  BY <1>0 DEF GetNone, Goto, TypeOK, ringVars, thiefVars, PC
<1>3. \A x \in P \ {p} : Own(x)
  BY <1>0 DEF Own, TypeOK, GetNone, Goto, ringVars, thiefVars
<1>4. Gone(p) = Came(p)
  BY DEF Gone, Came, GetNone
<1>5. pc'[p] = "globget"
  BY <1>0 DEF GetNone, Goto, TypeOK
<1>6. Thief(p)'
  BY <1>5 DEF Thief
<1>7. pc[p] \in EmptyHand \ Busy /\ pc'[p] \in EmptyHand \ Busy
  BY <1>5 DEF EmptyHand, Busy, GetNone
<1>. QED
  BY <1>2, <1>3, <1>4, <1>6, <1>7, LookStep DEF GetNone

-----------------------------------------------------------------------------
(* The steps that take goroutines from the head of a ring.                 *)

\* g is among the first k of the ring of q.
Leaves(q, k, g) == \E j \in Gone(q) .. Gone(q) + k - 1 : At(q, j) = g

LEMMA LeavesIs ==
  ASSUME TypeOK, NEW q \in P, Ringed(q), NEW k \in 0 .. Came(q) - Gone(q), NEW s, DOMAIN s = 1 .. k,
         \A j \in 1 .. k : s[j] = At(q, Gone(q) + j - 1)
  PROVE  /\ NoDup(s) /\ \A g : Has(s, g) <=> Leaves(q, k, g)
         /\ \A j \in 1 .. k : s[j] \in G
<1>. DEFINE a == Gone(q)
            b == Came(q)
<1>0. a \in Nat /\ b \in Nat /\ a <= b /\ k \in 0 .. b - a
  BY Counts DEF Ringed
<1>1. \A j \in 1 .. k : s[j] = At(q, a + j - 1)
  OBVIOUS
<1>2. \A j \in a .. b - 1 : At(q, j) \in G
  BY DEF Ringed
<1>3. \A j, l \in a .. b - 1 : At(q, j) = At(q, l) => j = l
  BY DEF Ringed
<1>. HIDE DEF a, b
<1>4. ASSUME NEW j \in 1 .. k PROVE a + j - 1 \in a .. b - 1 /\ a + j - 1 \in a .. a + k - 1
  BY <1>0
<1>5. NoDup(s)
  <2>. SUFFICES ASSUME NEW j \in 1 .. k, NEW l \in 1 .. k, s[j] = s[l] PROVE j = l
    BY DEF NoDup
  <2>1. a + j - 1 = a + l - 1
    BY <1>1, <1>3, <1>4
  <2>. QED
    BY <1>0, <2>1
<1>6. ASSUME NEW g PROVE Has(s, g) <=> \E j \in a .. a + k - 1 : At(q, j) = g
  <2>1. ASSUME NEW j \in 1 .. k, s[j] = g PROVE \E l \in a .. a + k - 1 : At(q, l) = g
    BY <1>1, <1>4, <2>1
  <2>2. ASSUME NEW j \in a .. a + k - 1, At(q, j) = g PROVE Has(s, g)
    <3>1. j - a + 1 \in 1 .. k /\ a + (j - a + 1) - 1 = j
      BY <1>0
    <3>2. s[j - a + 1] = g
      BY <1>1, <2>2, <3>1
    <3>. QED
      BY <3>1, <3>2 DEF Has
  <2>. QED
    BY <2>1, <2>2 DEF Has
<1>7. \A j \in 1 .. k : s[j] \in G
  BY <1>1, <1>2, <1>4
<1>. QED
  BY <1>5, <1>6, <1>7 DEF a, Leaves

LEMMA HeadOn ==
  ASSUME TypeOK, NEW q \in P, Ringed(q), NEW k \in 0 .. Came(q) - Gone(q)
  PROVE  Plus(runqhead[q], k) \in Word /\ Since(Plus(runqhead[q], k)) = Gone(q) + k
<1>1. runqhead[q] \in Word /\ runqtail[q] \in Word
  BY DEF TypeOK
<1>2. Gone(q) \in Nat /\ Came(q) \in Nat /\ Came(q) < Wrap /\ Wrap \in Nat
  BY <1>1, Counts, SinceParts, Consts DEF Came, Word
<1>3. k \in Nat /\ Gone(q) + k < Wrap
  BY <1>2
<1>. QED
  BY <1>1, <1>3, SincePlus DEF Gone

LEMMA Advance ==
  ASSUME TypeOK, \A x \in P : Fine(x), NEW q \in P, NEW k \in 0 .. Came(q) - Gone(q),
         runqhead' = [runqhead EXCEPT ![q] = Plus(@, k)], runqtail' = runqtail, runq' = runq
  PROVE  /\ runqhead' \in [P -> Word]
         /\ Gone(q)' = Gone(q) + k
         /\ \A x \in P : /\ Grows(x) /\ Came(x)' = Came(x) /\ (\A j : At(x, j)' = At(x, j))
                         /\ x # q => Gone(x)' = Gone(x) /\ \A g : InRing(x, g)' <=> InRing(x, g)
         /\ \A g : InRing(q, g)' <=> InRing(q, g) /\ ~Leaves(q, k, g)
         /\ \A g : Leaves(q, k, g) => InRing(q, g)
         /\ (pc'[q] \in Dry => Gone(q) + k = Came(q)) => Ringed(q)'
<1>0. \A x \in P : Ringed(x)
  BY DEF Fine
<1>1. Plus(runqhead[q], k) \in Word /\ Since(Plus(runqhead[q], k)) = Gone(q) + k
  BY <1>0, HeadOn
<1>2. runqhead' \in [P -> Word] /\ runqhead'[q] = Plus(runqhead[q], k)
  BY <1>1 DEF TypeOK
<1>3. Gone(q)' = Gone(q) + k
  BY <1>1, <1>2 DEF Gone
<1>4. \A x \in P : Came(x)' = Came(x) /\ (\A j : At(x, j)' = At(x, j))
  BY DEF Came, At
<1>5. \A x \in P \ {q} : Gone(x)' = Gone(x)
  BY DEF Gone, TypeOK
<1>6. \A x \in P : Gone(x) \in Nat /\ Came(x) \in Nat /\ Gone(x) <= Came(x)
  BY <1>0, Counts DEF Ringed
<1>7. \A x \in P : Grows(x)
  <2>1. Grows(q)
    BY <1>3, <1>4, <1>6 DEF Grows
  <2>2. \A x \in P \ {q} : Grows(x)
    BY <1>4, <1>5, <1>6 DEF Grows
  <2>. QED
    BY <2>1, <2>2
<1>8. \A x \in P \ {q} : \A g : InRing(x, g)' <=> InRing(x, g)
  BY <1>4, <1>5 DEF InRing
<1>9. ASSUME NEW g PROVE InRing(q, g)' <=> InRing(q, g) /\ ~Leaves(q, k, g)
  <2>. DEFINE a == Gone(q)
              b == Came(q)
  <2>1. a \in Nat /\ b \in Nat /\ a <= b /\ k \in 0 .. b - a
    BY <1>6
  <2>2. InRing(q, g)' <=> \E j \in a + k .. b - 1 : At(q, j) = g
    BY <1>3, <1>4 DEF InRing
  <2>3. \A j, l \in a .. b - 1 : At(q, j) = At(q, l) => j = l
    BY <1>0 DEF Ringed
  <2>4. InRing(q, g) <=> \E j \in a .. b - 1 : At(q, j) = g
    BY DEF InRing
  <2>5. Leaves(q, k, g) <=> \E j \in a .. a + k - 1 : At(q, j) = g
    BY DEF Leaves
  <2>. HIDE DEF a, b
  <2>6. \A j : j \in a .. b - 1 <=> j \in a .. a + k - 1 \/ j \in a + k .. b - 1
    BY <2>1
  <2>7. \A j : ~(j \in a .. a + k - 1 /\ j \in a + k .. b - 1)
    BY <2>1
  <2>. QED
    BY <2>2, <2>3, <2>4, <2>5, <2>6, <2>7
<1>10. ASSUME NEW g, Leaves(q, k, g) PROVE InRing(q, g)
  BY <1>6, <1>10 DEF Leaves, InRing
<1>11. ASSUME pc'[q] \in Dry => Gone(q) + k = Came(q) PROVE Ringed(q)'
  <2>1. /\ Gone(q) \in Nat /\ Came(q) \in Nat /\ Gone(q)' = Gone(q) + k /\ Came(q)' = Came(q)
        /\ Gone(q)' <= Came(q)' /\ Gone(q) <= Gone(q)'
    BY <1>3, <1>4, <1>6
  <2>2. Came(q)' <= Gone(q)' + Len256
    BY <1>0, <2>1, Consts DEF Ringed
  <2>3. \A j \in Gone(q)' .. Came(q)' - 1 : j \in Gone(q) .. Came(q) - 1
    BY <2>1
  <2>4. /\ \A j \in Gone(q)' .. Came(q)' - 1 : At(q, j)' \in G
        /\ \A j, l \in Gone(q)' .. Came(q)' - 1 : At(q, j)' = At(q, l)' => j = l
    BY <1>0, <1>4, <2>3 DEF Ringed
  <2>. QED
    BY <1>11, <2>1, <2>2, <2>4 DEF Ringed
<1>. QED
  BY <1>2, <1>3, <1>4, <1>5, <1>7, <1>8, <1>9, <1>10, <1>11

LEMMA PutslowStep ==
  ASSUME RingInv, NEW p \in P, runqputslow(p)
  PROVE  RingInv' /\ \A q \in P : Grows(q)
<1>0. TypeOK /\ Lists /\ (\A x \in P : Fine(x)) /\ Homes /\ NoLap
  BY RingInvParts
<1>. DEFINE s == SubSeq(Ring(p), 1, Half)
            t == s \o hand[p]
<1>x. /\ pc[p] = "put" /\ Sub(runqtail[p], runqhead[p]) >= Len256
      /\ throw' = (throw \/ Sub(runqtail[p], runqhead[p]) \div 2 # Half)
      /\ hand' = [hand EXCEPT ![p] = t]
      /\ runqhead' = [runqhead EXCEPT ![p] = Plus(@, Half)]
      /\ pc' = [pc EXCEPT ![p] = "global"]
      /\ runnext' = runnext /\ runqtail' = runqtail /\ runq' = runq /\ sched_runq' = sched_runq
      /\ cur' = cur /\ waiting' = waiting /\ ready' = ready
      /\ p2' = p2 /\ h' = h /\ n' = n /\ i' = i
  BY DEF runqputslow, Goto, Hold, thiefVars
<1>1. Ringed(p) /\ cur[p] \in G /\ hand[p] \in Seq(G) /\ NoDup(hand[p])
  BY <1>0, <1>x DEF Fine, Hands, Busy, TypeOK, Lists
<1>r. /\ Ring(p) \in Seq(G) /\ Len(Ring(p)) = Came(p) - Gone(p)
      /\ Sub(runqtail[p], runqhead[p]) = Came(p) - Gone(p)
      /\ \A k \in 1 .. Came(p) - Gone(p) : Ring(p)[k] = At(p, Gone(p) + k - 1)
  BY <1>0, <1>1, RingIs
<1>l. /\ Gone(p) \in Nat /\ Came(p) \in Nat /\ Came(p) - Gone(p) = Len256
      /\ Half \in 0 .. Came(p) - Gone(p) /\ Half \in Nat
  <2>1. Gone(p) \in Nat /\ Came(p) \in Nat /\ Gone(p) <= Came(p) /\ Came(p) <= Gone(p) + Len256
    BY <1>0, <1>1, Counts DEF Ringed
  <2>2. Came(p) - Gone(p) >= Len256
    BY <1>r, <1>x
  <2>. QED
    BY <2>1, <2>2, Consts
<1>t. throw' = FALSE
  <2>1. Len256 \div 2 = Half
    BY DEF Half
  <2>. QED
    BY <1>0, <1>l, <1>r, <1>x, <2>1 DEF TypeOK
<1>s. s \in Seq(G) /\ NoDup(s) /\ \A g : Has(s, g) <=> Leaves(p, Half, g)
  <2>1. s \in Seq(G) /\ DOMAIN s = 1 .. Half /\ \A j \in 1 .. Half : s[j] = Ring(p)[j]
    BY <1>l, <1>r
  <2>2. \A j \in 1 .. Half : s[j] = At(p, Gone(p) + j - 1)
    BY <1>l, <1>r, <2>1
  <2>. HIDE DEF s
  <2>. QED
    BY <1>0, <1>1, <1>l, <2>1, <2>2, LeavesIs
<1>. HIDE DEF s
<1>v. /\ runqhead' \in [P -> Word]
      /\ \A x \in P : /\ Grows(x) /\ Came(x)' = Came(x)
                      /\ x # p => \A g : InRing(x, g)' <=> InRing(x, g)
      /\ \A g : InRing(p, g)' <=> InRing(p, g) /\ ~Leaves(p, Half, g)
      /\ \A g : Leaves(p, Half, g) => InRing(p, g)
      /\ (pc'[p] \in Dry => Gone(p) + Half = Came(p)) => Ringed(p)'
  BY <1>0, <1>l, <1>x, Advance
<1>c. /\ t \in Seq(G) /\ NoDup(t)
      /\ \A g : Has(t, g) <=> Leaves(p, Half, g) \/ Has(hand[p], g)
  <2>1. \A g \in G : ~(Has(s, g) /\ Has(hand[p], g))
    BY <1>0, <1>s, <1>v, HandOnly
  <2>. QED
    BY <1>1, <1>s, <2>1, HasConcat
<1>. HIDE DEF t
<1>2. TypeOK'
  BY <1>0, <1>c, <1>t, <1>v, <1>x DEF TypeOK, PC
<1>3. \A x \in P \ {p} : Own(x)
  BY <1>0, <1>x DEF Own, TypeOK
<1>d. \A x \in P : hand'[x] = IF x = p THEN t ELSE hand[x]
  BY <1>0, <1>x DEF TypeOK
<1>4. Lists'
  BY <1>0, <1>c, <1>d, <1>x DEF Lists
<1>5. pc'[p] = "global" /\ cur'[p] = cur[p]
  BY <1>0, <1>x DEF TypeOK
<1>7. Fine(p)'
  <2>1. Ringed(p)'
    BY <1>5, <1>v DEF Dry
  <2>. QED
    BY <1>1, <1>5, <2>1, Consts DEF Fine, Hands, Thief, Busy, EmptyHand
<1>8. Homes'
  <2>. DEFINE M == {g \in G : Leaves(p, Half, g)}
  <2>1. \A g \in M : In("runq", p, g)
    BY <1>v DEF In
  <2>2. ASSUME NEW g \in G PROVE Moved(g, M, "runq", p, "hand", p, {}, "", Nil, "", Nil)
    BY <1>c, <1>d, <1>v, <1>x DEF Moved, In
  <2>. QED
    BY <1>0, <2>1, <2>2, Move
<1>9. NoLap'
  <2>2. IsFiniteSet(Queued') /\ Cardinality(Queued') = Cardinality(Queued) /\ Cardinality(Queued) \in Nat
    BY <1>0, <1>x, QueuedSame
  <2>3. ready' <= ready /\ Cardinality(Queued') + ready' <= Cardinality(Queued) + ready
    BY <1>0, <1>x, <2>2 DEF TypeOK
  <2>. QED
    BY <1>0, <1>2, <1>3, <1>5, <1>v, <2>2, <2>3, LapSame
<1>. QED
  BY <1>2, <1>3, <1>4, <1>v, <1>7, <1>8, <1>9, Together

LEMMA DrainStep ==
  ASSUME RingInv, NEW p \in P, runqdrain(p)
  PROVE  RingInv' /\ \A q \in P : Grows(q)
<1>0. TypeOK /\ Lists /\ (\A x \in P : Fine(x)) /\ Homes /\ NoLap
  BY RingInvParts
<1>. DEFINE t == hand[p] \o Ring(p)
            k == Came(p) - Gone(p)
<1>x. /\ pc[p] = "drain" /\ hand' = [hand EXCEPT ![p] = t]
      /\ runqhead' = [runqhead EXCEPT ![p] = runqtail[p]]
      /\ pc' = [pc EXCEPT ![p] = "global"]
      /\ runnext' = runnext /\ runqtail' = runqtail /\ runq' = runq /\ sched_runq' = sched_runq
      /\ cur' = cur /\ waiting' = waiting /\ ready' = ready /\ throw' = throw
      /\ p2' = p2 /\ h' = h /\ n' = n /\ i' = i
  BY DEF runqdrain, Goto, Hold, thiefVars
<1>1. Ringed(p) /\ cur[p] \in G /\ hand[p] \in Seq(G) /\ NoDup(hand[p])
  BY <1>0, <1>x DEF Fine, Hands, Busy, TypeOK, Lists
<1>r. Ring(p) \in Seq(G) /\ NoDup(Ring(p)) /\ \A g : Has(Ring(p), g) <=> InRing(p, g)
  BY <1>0, <1>1, RingIs
<1>l. Gone(p) \in Nat /\ Came(p) \in Nat /\ k \in 0 .. k /\ k \in Nat /\ Gone(p) + k = Came(p)
  BY <1>0, <1>1, Counts DEF Ringed
<1>h. runqhead' = [runqhead EXCEPT ![p] = Plus(@, k)]
  <2>1. Plus(runqhead[p], k) \in Word /\ Since(Plus(runqhead[p], k)) = Came(p) /\ runqtail[p] \in Word
    BY <1>0, <1>1, <1>l, HeadOn DEF TypeOK
  <2>2. Plus(runqhead[p], k) = runqtail[p]
    BY <2>1, SinceSame DEF Came
  <2>. QED
    BY <1>0, <1>x, <2>2
<1>v. /\ runqhead' \in [P -> Word]
      /\ \A x \in P : /\ Grows(x) /\ Came(x)' = Came(x)
                      /\ x # p => \A g : InRing(x, g)' <=> InRing(x, g)
      /\ Ringed(p)'
      /\ Gone(p)' = Came(p)
  BY <1>0, <1>h, <1>l, <1>x, Advance
<1>e. \A g : ~InRing(p, g)'
  <2>1. \A j : j \notin Gone(p)' .. Came(p)' - 1
    BY <1>l, <1>v
  <2>. QED
    BY <2>1 DEF InRing
<1>c. /\ t \in Seq(G) /\ NoDup(t)
      /\ \A g : Has(t, g) <=> InRing(p, g) \/ Has(hand[p], g)
  <2>1. \A g \in G : ~(Has(hand[p], g) /\ Has(Ring(p), g))
    BY <1>0, <1>r, HandOnly
  <2>. QED
    BY <1>1, <1>r, <2>1, HasConcat
<1>. HIDE DEF t, k
<1>2. TypeOK'
  BY <1>0, <1>c, <1>v, <1>x DEF TypeOK, PC
<1>3. \A x \in P \ {p} : Own(x)
  BY <1>0, <1>x DEF Own, TypeOK
<1>d. \A x \in P : hand'[x] = IF x = p THEN t ELSE hand[x]
  BY <1>0, <1>x DEF TypeOK
<1>4. Lists'
  BY <1>0, <1>c, <1>d, <1>x DEF Lists
<1>5. pc'[p] = "global" /\ cur'[p] = cur[p]
  BY <1>0, <1>x DEF TypeOK
<1>7. Fine(p)'
  BY <1>1, <1>5, <1>v, Consts DEF Fine, Hands, Thief, Busy, EmptyHand
<1>8. Homes'
  <2>. DEFINE M == {g \in G : InRing(p, g)}
  <2>1. \A g \in M : In("runq", p, g)
    BY DEF In
  <2>2. ASSUME NEW g \in G PROVE Moved(g, M, "runq", p, "hand", p, {}, "", Nil, "", Nil)
    BY <1>c, <1>d, <1>e, <1>v, <1>x DEF Moved, In
  <2>. QED
    BY <1>0, <2>1, <2>2, Move
<1>9. NoLap'
  <2>2. IsFiniteSet(Queued') /\ Cardinality(Queued') = Cardinality(Queued) /\ Cardinality(Queued) \in Nat
    BY <1>0, <1>x, QueuedSame
  <2>3. ready' <= ready /\ Cardinality(Queued') + ready' <= Cardinality(Queued) + ready
    BY <1>0, <1>x, <2>2 DEF TypeOK
  <2>. QED
    BY <1>0, <1>2, <1>3, <1>5, <1>v, <2>2, <2>3, LapSame
<1>. QED
  BY <1>2, <1>3, <1>4, <1>v, <1>7, <1>8, <1>9, Together

\* The first goroutine of the ring is run.
GetFirst(p) ==
  /\ pc[p] = "find" /\ runqhead[p] # runqtail[p]
  /\ cur' = [cur EXCEPT ![p] = runq[p][Slot(runqhead[p])]] /\ pc' = [pc EXCEPT ![p] = "run"]
  /\ runqhead' = [runqhead EXCEPT ![p] = Plus(@, 1)]
  /\ runnext' = runnext /\ runqtail' = runqtail /\ runq' = runq /\ sched_runq' = sched_runq
  /\ hand' = hand /\ waiting' = waiting /\ ready' = ready /\ throw' = throw
  /\ p2' = p2 /\ h' = h /\ n' = n /\ i' = i

LEMMA GetFirstStep ==
  ASSUME RingInv, NEW p \in P, GetFirst(p)
  PROVE  RingInv' /\ \A q \in P : Grows(q)
<1>0. TypeOK /\ Lists /\ (\A x \in P : Fine(x)) /\ Homes /\ NoLap
  BY RingInvParts
<1>. DEFINE e == At(p, Gone(p))
<1>1. Ringed(p) /\ cur[p] = Nil /\ hand[p] = <<>> /\ runqhead[p] \in Word /\ runqtail[p] \in Word
  BY <1>0 DEF Fine, Hands, Busy, EmptyHand, TypeOK, GetFirst
<1>l. Gone(p) \in Nat /\ Came(p) \in Nat /\ Gone(p) < Came(p) /\ 1 \in 0 .. Came(p) - Gone(p)
  <2>1. Gone(p) # Came(p)
    BY <1>1, SinceSame DEF Gone, Came, GetFirst
  <2>. QED
    BY <1>0, <1>1, <2>1, Counts DEF Ringed
<1>c. cur' = [cur EXCEPT ![p] = e]
  <2>1. \A z \in Int : Slot(runqhead[p] + z) = Slot(Start + (Gone(p) + z))
    BY <1>1, SinceSlot DEF Gone
  <2>2. runqhead[p] \in Nat
    BY <1>1, Consts DEF Word
  <2>3. Slot(runqhead[p]) = Slot(Start + Gone(p))
    BY <1>l, <2>1, <2>2
  <2>. QED
    BY <2>3 DEF GetFirst, At
<1>e. e \in G /\ \A g : Leaves(p, 1, g) <=> g = e
  <2>1. Gone(p) \in Gone(p) .. Came(p) - 1 /\ \A j : j \in Gone(p) .. Gone(p) + 1 - 1 <=> j = Gone(p)
    BY <1>l
  <2>2. e \in G
    BY <1>1, <2>1 DEF Ringed
  <2>. QED
    BY <2>1, <2>2 DEF Leaves
<1>. HIDE DEF e
<1>v. /\ runqhead' \in [P -> Word]
      /\ \A x \in P : /\ Grows(x) /\ Came(x)' = Came(x)
                      /\ x # p => \A g : InRing(x, g)' <=> InRing(x, g)
      /\ \A g : InRing(p, g)' <=> InRing(p, g) /\ ~Leaves(p, 1, g)
      /\ \A g : Leaves(p, 1, g) => InRing(p, g)
      /\ (pc'[p] \in Dry => Gone(p) + 1 = Came(p)) => Ringed(p)'
  BY <1>0, <1>l, Advance DEF GetFirst
<1>2. TypeOK'
  BY <1>0, <1>c, <1>e, <1>v DEF TypeOK, PC, GetFirst
<1>3. \A x \in P \ {p} : Own(x)
  BY <1>0, <1>c DEF Own, TypeOK, GetFirst
<1>4. Lists'
  BY <1>0 DEF Lists, GetFirst
<1>5. pc'[p] = "run" /\ cur'[p] = e /\ hand'[p] = <<>>
  BY <1>0, <1>1, <1>c DEF TypeOK, GetFirst
<1>7. Fine(p)'
  <2>1. Ringed(p)'
    BY <1>5, <1>v DEF Dry
  <2>. QED
    BY <1>5, <1>e, <2>1, Consts DEF Fine, Hands, Thief, Busy, EmptyHand
<1>a. \A g \in {e} : In("runq", p, g)
  BY <1>e, <1>v DEF In
<1>8. Homes'
  <2>. DEFINE M == {e}
  <2>2. ASSUME NEW g \in G PROVE Moved(g, M, "runq", p, "cur", p, {}, "", Nil, "", Nil)
    <3>1. \A x \in P : cur'[x] = IF x = p THEN e ELSE cur[x]
      BY <1>0, <1>c DEF TypeOK
    <3>. QED
      BY <1>1, <1>e, <1>v, <3>1, Consts DEF Moved, In, GetFirst
  <2>. QED
    BY <1>0, <1>a, <2>2, Move
<1>9. NoLap'
  <2>1. e \in Queued
    BY <1>0, <1>e, <1>a, QueuedIn
  <2>2. /\ IsFiniteSet(Queued') /\ Cardinality(Queued') = Cardinality(Queued) - 1
        /\ Cardinality(Queued) \in Nat
    BY <1>0, <1>1, <1>c, <2>1, QueuedLess DEF GetFirst
  <2>3. ready' <= ready /\ Cardinality(Queued') + ready' <= Cardinality(Queued) + ready
    BY <1>0, <2>2 DEF TypeOK, GetFirst
  <2>. QED
    BY <1>0, <1>2, <1>3, <1>5, <1>v, <2>2, <2>3, LapSame
<1>. QED
  BY <1>2, <1>3, <1>4, <1>v, <1>7, <1>8, <1>9, Together

LEMMA TailSlot ==
  ASSUME TypeOK, NEW p \in P
  PROVE  \A k \in Int : Slot(runqtail[p] + k) = Slot(Start + (Came(p) + k))
<1>1. runqtail[p] \in Word
  BY DEF TypeOK
<1>. QED
  BY <1>1, SinceSlot DEF Came

\* The compare-and-swap of runqgrab succeeds.
Grab(p) ==
  /\ pc[p] = "copy" /\ i[p] = n[p] /\ runqhead[p2[p]] = h[p]
  /\ runqhead' = [runqhead EXCEPT ![p2[p]] = Plus(@, n[p])]
  /\ hand' = [hand EXCEPT ![p] = Grabbed(p)] /\ pc' = [pc EXCEPT ![p] = "stolen"]
  /\ Forget(p)
  /\ runnext' = runnext /\ runqtail' = runqtail /\ runq' = runq /\ sched_runq' = sched_runq
  /\ cur' = cur /\ waiting' = waiting /\ ready' = ready /\ n' = n /\ throw' = throw

LEMMA GrabStep ==
  ASSUME RingInv, NEW p \in P, Grab(p)
  PROVE  RingInv' /\ \A x \in P : Grows(x)
<1>0. TypeOK /\ Lists /\ (\A x \in P : Fine(x)) /\ Homes /\ NoLap
  BY RingInvParts
<1>q. PICK q \in P : p2[p] = q
  BY <1>0 DEF TypeOK
<1>. DEFINE k == n[p]
            s == Grabbed(p)
<1>1. /\ q # p /\ Ringed(p) /\ Ringed(q) /\ Gone(p) = Came(p) /\ cur[p] = Nil /\ hand[p] = <<>>
      /\ k \in 1 .. Half /\ i[p] = k /\ Copied(p)
  BY <1>0, <1>q DEF Fine, Thief, Ringed, Hands, Dry, Busy, EmptyHand, Grab
<1>l. /\ Gone(q) \in Nat /\ Came(q) \in Nat /\ Came(p) \in Nat /\ k \in Nat
      /\ Since(h[p]) = Gone(q) /\ k \in 0 .. Came(q) - Gone(q)
      /\ \A j \in 0 .. k - 1 : At(p, Came(p) + j) = At(q, Gone(q) + j)
  <2>1. Since(h[p]) = Gone(q)
    BY <1>q DEF Grab, Gone
  <2>2. /\ Gone(q) + k <= Came(q)
        /\ \A j \in 0 .. k - 1 : At(p, Came(p) + j) = At(q, Gone(q) + j)
    BY <1>1, <1>q, <2>1 DEF Copied
  <2>. QED
    BY <1>0, <1>1, <2>1, <2>2, Counts, Consts
<1>s. /\ s \in Seq(G) /\ Len(s) = k /\ NoDup(s) /\ \A g : Has(s, g) <=> Leaves(q, k, g)
      /\ \A j \in 1 .. k : s[j] = At(p, Came(p) + j - 1)
  <2>1. ASSUME NEW j \in 1 .. k
        PROVE  /\ runq[p][Slot(runqtail[p] + j - 1)] = At(p, Came(p) + j - 1)
               /\ At(p, Came(p) + j - 1) = At(q, Gone(q) + j - 1)
    <3>1. j - 1 \in 0 .. k - 1 /\ j - 1 \in Int /\ Came(p) + j - 1 = Came(p) + (j - 1)
          /\ Gone(q) + j - 1 = Gone(q) + (j - 1)
      BY <1>l
    <3>2. runqtail[p] + j - 1 = runqtail[p] + (j - 1)
      BY <1>0, Consts DEF TypeOK, Word
    <3>. QED
      BY <1>0, <1>l, <3>1, <3>2, TailSlot DEF At
  <2>2. s = [j \in 1 .. k |-> At(p, Came(p) + j - 1)]
    BY <2>1 DEF Grabbed
  <2>3. DOMAIN s = 1 .. k /\ \A j \in 1 .. k : s[j] = At(q, Gone(q) + j - 1)
    BY <2>1, <2>2
  <2>4. NoDup(s) /\ (\A g : Has(s, g) <=> Leaves(q, k, g)) /\ \A j \in 1 .. k : s[j] \in G
    <3>. HIDE DEF k, s
    <3>. QED
      BY <1>0, <1>1, <1>l, <2>3, LeavesIs
  <2>. HIDE DEF k
  <2>5. s \in Seq(G) /\ Len(s) = k
    BY <1>l, <2>2, <2>4
  <2>. QED
    BY <2>2, <2>4, <2>5
<1>h. runqhead' = [runqhead EXCEPT ![q] = Plus(@, k)] /\ hand' = [hand EXCEPT ![p] = s] /\ n'[p] = k
  BY <1>q DEF Grab
<1>. HIDE DEF k, s
<1>v. /\ runqhead' \in [P -> Word]
      /\ \A x \in P : /\ Grows(x) /\ Came(x)' = Came(x) /\ (\A j : At(x, j)' = At(x, j))
                      /\ x # q => Gone(x)' = Gone(x) /\ \A g : InRing(x, g)' <=> InRing(x, g)
      /\ \A g : InRing(q, g)' <=> InRing(q, g) /\ ~Leaves(q, k, g)
      /\ \A g : Leaves(q, k, g) => InRing(q, g)
  BY <1>0, <1>h, <1>l, Advance DEF Grab
<1>2. TypeOK'
  <2>1. 0 \in Word
    BY Consts DEF Word
  <2>. QED
    BY <1>0, <1>h, <1>s, <1>v, <2>1 DEF TypeOK, PC, Grab, Forget
<1>3. \A x \in P \ {p} : Own(x)
  BY <1>0, <1>h DEF Own, TypeOK, Grab, Forget
<1>d. \A x \in P : hand'[x] = IF x = p THEN s ELSE hand[x]
  BY <1>0, <1>h DEF TypeOK
<1>4. Lists'
  BY <1>0, <1>d, <1>s DEF Lists, Grab
<1>5. pc'[p] = "stolen" /\ cur'[p] = Nil /\ hand'[p] = s
  BY <1>0, <1>1, <1>h DEF TypeOK, Grab
<1>7. Fine(p)'
  <2>1. Ringed(p)'
    BY <1>1, <1>v DEF Ringed
  <2>2. \A j \in 1 .. k : At(p, Came(p) + j - 1)' = s[j]
    <3>1. \A j : runq'[p][Slot(Start + j)] = runq[p][Slot(Start + j)]
      BY DEF Grab
    <3>2. Came(p)' = Came(p)
      BY <1>v
    <3>. QED
      BY <1>s, <3>1, <3>2 DEF At
  <2>3. Hands(p)'
    BY <1>1, <1>5, <1>h, <1>s, <2>2 DEF Hands, Busy, EmptyHand
  <2>. QED
    BY <1>5, <2>1, <2>3 DEF Fine, Thief
<1>8. Homes'
  <2>. DEFINE M == {g \in G : Leaves(q, k, g)}
  <2>1. \A g \in M : In("runq", q, g)
    BY <1>v DEF In
  <2>2. ASSUME NEW g \in G PROVE Moved(g, M, "runq", q, "hand", p, {}, "", Nil, "", Nil)
    BY <1>1, <1>d, <1>s, <1>v, HasNone DEF Moved, In, Grab
  <2>. QED
    BY <1>0, <2>1, <2>2, Move
<1>9. NoLap'
  <2>2. IsFiniteSet(Queued') /\ Cardinality(Queued') = Cardinality(Queued) /\ Cardinality(Queued) \in Nat
    BY <1>0, QueuedSame DEF Grab
  <2>3. ready' <= ready /\ Cardinality(Queued') + ready' <= Cardinality(Queued) + ready
    BY <1>0, <2>2 DEF TypeOK, Grab
  <2>. QED
    BY <1>0, <1>2, <1>3, <1>5, <1>v, <2>2, <2>3, LapSame
<1>. QED
  BY <1>2, <1>3, <1>4, <1>v, <1>7, <1>8, <1>9, Together

-----------------------------------------------------------------------------
(* The steps that store behind the tail of a ring.                         *)

LEMMA Stored ==
  ASSUME TypeOK, \A x \in P : Fine(x), NEW p \in P, NEW f \in [0 .. Len256 - 1 -> G \cup {Nil}],
         runq' = [runq EXCEPT ![p] = f], runqhead' = runqhead, runqtail' = runqtail,
         \A j \in Gone(p) .. Came(p) - 1 : f[Slot(Start + j)] = At(p, j)
  PROVE  /\ runq' \in [P -> [0 .. Len256 - 1 -> G \cup {Nil}]]
         /\ \A x \in P : /\ Grows(x) /\ Gone(x)' = Gone(x) /\ Came(x)' = Came(x)
                         /\ \A g : InRing(x, g)' <=> InRing(x, g)
                         /\ x # p => runq'[x] = runq[x]
         /\ runq'[p] = f
         /\ (pc'[p] \in Dry => Gone(p) = Came(p)) => Ringed(p)'
<1>0. \A x \in P : Ringed(x)
  BY DEF Fine
<1>1. runq' \in [P -> [0 .. Len256 - 1 -> G \cup {Nil}]] /\ runq'[p] = f
  BY DEF TypeOK
<1>2. \A x \in P \ {p} : runq'[x] = runq[x]
  BY DEF TypeOK
<1>3. \A x \in P : Gone(x)' = Gone(x) /\ Came(x)' = Came(x)
  BY DEF Gone, Came
<1>4. \A x \in P \ {p} : Grows(x) /\ \A g : InRing(x, g)' <=> InRing(x, g)
  BY <1>0, <1>2, GrowsSame
<1>5. \A j \in Gone(p) .. Came(p) - 1 : At(p, j)' = At(p, j)
  BY <1>1 DEF At
<1>6. Gone(p) \in Nat /\ Came(p) \in Nat /\ Gone(p) <= Came(p)
  BY <1>0, Counts DEF Ringed
<1>7. Grows(p) /\ \A g : InRing(p, g)' <=> InRing(p, g)
  BY <1>3, <1>5, <1>6 DEF Grows, InRing
<1>8. ASSUME pc'[p] \in Dry => Gone(p) = Came(p) PROVE Ringed(p)'
  BY <1>0, <1>3, <1>5, <1>8 DEF Ringed
<1>. QED
  BY <1>1, <1>2, <1>3, <1>4, <1>7, <1>8

\* Different places within one lap.
LEMMA SlotApart ==
  ASSUME NEW a \in Int, NEW b \in Int, a # b, a < b + Len256, b < a + Len256
  PROVE  Slot(Start + a) # Slot(Start + b)
<1>0. Start \in Int /\ Len256 \in Int
  BY Consts
<1>. DEFINE u == Start + a
            v == Start + b
<1>1. u \in Int /\ v \in Int /\ ((u < v /\ v < u + Len256) \/ (v < u /\ u < v + Len256))
  BY <1>0
<1>. HIDE DEF u, v
<1>2. Slot(u) # Slot(v)
  BY <1>1, SlotDiffer
<1>. QED
  BY <1>2 DEF u, v

LEMMA PutStoreStep ==
  ASSUME RingInv, NEW p \in P, runqputStore(p)
  PROVE  RingInv' /\ \A x \in P : Grows(x)
<1>0. TypeOK /\ Lists /\ (\A x \in P : Fine(x)) /\ Homes /\ NoLap
  BY RingInvParts
<1>. DEFINE c == Slot(Start + Came(p))
            e == hand[p][1]
            f == [runq[p] EXCEPT ![c] = e]
<1>1. Ringed(p) /\ cur[p] # Nil /\ Len(hand[p]) = 1 /\ hand[p] \in Seq(G) /\ runqtail[p] \in Word
  BY <1>0 DEF Fine, Hands, Busy, TypeOK, runqputStore
<1>l. Gone(p) \in Nat /\ Came(p) \in Nat /\ Gone(p) <= Came(p) /\ Came(p) < Gone(p) + Len256
  <2>1. Sub(runqtail[p], runqhead[p]) = Came(p) - Gone(p)
    BY <1>0, <1>1, RingIs
  <2>2. Came(p) - Gone(p) < Len256
    BY <2>1 DEF runqputStore
  <2>. QED
    BY <1>0, <1>1, <2>2, Counts, Consts DEF Ringed
<1>c. Slot(runqtail[p]) = c /\ c \in 0 .. Len256 - 1
  <2>1. Slot(runqtail[p] + 0) = Slot(Start + (Came(p) + 0))
    BY <1>0, TailSlot
  <2>2. runqtail[p] + 0 = runqtail[p] /\ Came(p) + 0 = Came(p) /\ Start + Came(p) \in Int
    BY <1>1, <1>l, Consts DEF Word
  <2>. QED
    BY <2>1, <2>2, SlotType
<1>e. e \in G /\ Head(hand[p]) = e
  BY <1>1
<1>f. f \in [0 .. Len256 - 1 -> G \cup {Nil}] /\ f[c] = e /\ \A y \in 0 .. Len256 - 1 : y # c => f[y] = runq[p][y]
  BY <1>0, <1>c, <1>e DEF TypeOK
<1>r. runq' = [runq EXCEPT ![p] = f]
  BY <1>c, <1>e DEF runqputStore
<1>k. \A j \in Gone(p) .. Came(p) - 1 : f[Slot(Start + j)] = At(p, j)
  <2>. SUFFICES ASSUME NEW j \in Gone(p) .. Came(p) - 1 PROVE f[Slot(Start + j)] = At(p, j)
    OBVIOUS
  <2>0. j \in Int /\ j # Came(p) /\ j < Came(p) + Len256 /\ Came(p) < j + Len256
    BY <1>l, Consts
  <2>1. Slot(Start + j) # c
    BY <1>l, <2>0, SlotApart
  <2>2. Slot(Start + j) \in 0 .. Len256 - 1
    BY <2>0, SlotType, Consts
  <2>. QED
    BY <1>f, <2>1, <2>2 DEF At
<1>. HIDE DEF f, e, c
<1>v. /\ runq' \in [P -> [0 .. Len256 - 1 -> G \cup {Nil}]]
      /\ \A x \in P : /\ Grows(x) /\ Gone(x)' = Gone(x) /\ Came(x)' = Came(x)
                      /\ \A g : InRing(x, g)' <=> InRing(x, g)
                      /\ x # p => runq'[x] = runq[x]
      /\ runq'[p] = f
      /\ (pc'[p] \in Dry => Gone(p) = Came(p)) => Ringed(p)'
  BY <1>0, <1>f, <1>k, <1>r, Stored DEF runqputStore
<1>2. TypeOK'
  BY <1>0, <1>v DEF TypeOK, PC, runqputStore, Goto, thiefVars
<1>3. \A x \in P \ {p} : Own(x)
  BY <1>0, <1>v DEF Own, TypeOK, runqputStore, Goto, thiefVars
<1>4. Lists'
  BY <1>0 DEF Lists, runqputStore
<1>5. pc'[p] = "tail" /\ cur'[p] # Nil /\ hand'[p] = hand[p]
  BY <1>0, <1>1 DEF TypeOK, runqputStore, Goto
<1>7. Fine(p)'
  <2>1. Ringed(p)'
    BY <1>5, <1>v DEF Dry
  <2>2. At(p, Came(p))' = e
    <3>1. runq'[p][Slot(Start + Came(p)')] = e
      BY <1>f, <1>v DEF c
    <3>. QED
      BY <3>1 DEF At
  <2>3. Hands(p)'
    BY <1>1, <1>5, <1>l, <1>v, <2>2 DEF Hands, Busy, EmptyHand, e
  <2>. QED
    BY <1>5, <2>1, <2>3 DEF Fine, Thief
<1>8. Homes'
  <2>1. \A g \in G : \A kind, x : In(kind, x, g)' <=> In(kind, x, g)
    BY <1>v DEF In, runqputStore
  <2>. QED
    BY <1>0, <2>1, Stay
<1>9. NoLap'
  <2>2. IsFiniteSet(Queued') /\ Cardinality(Queued') = Cardinality(Queued) /\ Cardinality(Queued) \in Nat
    BY <1>0, QueuedSame DEF runqputStore
  <2>3. ready' <= ready /\ Cardinality(Queued') + ready' <= Cardinality(Queued) + ready
    BY <1>0, <2>2 DEF TypeOK, runqputStore
  <2>. QED
    BY <1>0, <1>2, <1>3, <1>v, <2>2, <2>3, LapSame DEF runqputStore
<1>. QED
  BY <1>2, <1>3, <1>4, <1>v, <1>7, <1>8, <1>9, Together

LEMMA PutbatchStep ==
  ASSUME RingInv, NEW p \in P, runqputbatch(p)
  PROVE  RingInv' /\ \A x \in P : Grows(x)
<1>0. TypeOK /\ Lists /\ (\A x \in P : Fine(x)) /\ Homes /\ NoLap
  BY RingInvParts
<1>. DEFINE k == Len(hand[p]) - 1
            Of(x, y) == x = Slot(runqtail[p] + y - 1)
            f == [x \in 0 .. Len256 - 1 |->
                    IF \E y \in 1 .. k : Of(x, y)
                    THEN hand[p][1 + CHOOSE y \in 1 .. k : Of(x, y)]
                    ELSE runq[p][x]]
<1>x. /\ pc[p] = "batch"
      /\ throw' = (throw \/ Sub(runqtail[p], runqhead[p]) + k > Len256)
      /\ runq' = [runq EXCEPT ![p] = f]
      /\ pc' = [pc EXCEPT ![p] = "batchTail"]
      /\ runnext' = runnext /\ runqhead' = runqhead /\ runqtail' = runqtail
      /\ sched_runq' = sched_runq /\ cur' = cur /\ waiting' = waiting /\ ready' = ready
      /\ hand' = hand /\ p2' = p2 /\ h' = h /\ n' = n /\ i' = i
  BY DEF runqputbatch, Goto, thiefVars
<1>1. /\ Ringed(p) /\ cur[p] = Nil /\ Len(hand[p]) \in 1 .. Half /\ hand[p] \in Seq(G)
      /\ Gone(p) = Came(p)
  BY <1>0, <1>x DEF Fine, Hands, Ringed, Busy, Dry, TypeOK
<1>l. Gone(p) \in Nat /\ Came(p) \in Nat /\ k \in 0 .. Half - 1 /\ Half \in Nat /\ Half + Half = Len256
      /\ Len(hand[p]) = k + 1
  BY <1>0, <1>1, Counts, Consts
<1>t. throw' = FALSE
  <2>1. Sub(runqtail[p], runqhead[p]) = 0
    BY <1>0, <1>1, <1>l, RingIs
  <2>2. ~(0 + k > Len256)
    BY <1>l, Consts
  <2>. QED
    BY <1>0, <1>x, <2>1, <2>2 DEF TypeOK
<1>s. ASSUME NEW y \in 1 .. k
      PROVE  runqtail[p] + y - 1 = runqtail[p] + (y - 1) /\ Slot(runqtail[p] + y - 1) = Slot(Start + (Came(p) + y - 1))
  <2>1. y - 1 \in Int /\ Came(p) + y - 1 = Came(p) + (y - 1) /\ runqtail[p] + y - 1 = runqtail[p] + (y - 1)
    BY <1>0, <1>l, Consts DEF TypeOK, Word
  <2>. QED
    BY <1>0, <2>1, TailSlot
<1>h. \A y \in 1 .. k : hand[p][1 + y] \in G
  BY <1>1, <1>l
<1>f. f \in [0 .. Len256 - 1 -> G \cup {Nil}]
  <2>. SUFFICES ASSUME NEW x \in 0 .. Len256 - 1 PROVE f[x] \in G \cup {Nil}
    OBVIOUS
  <2>1. CASE \E y \in 1 .. k : Of(x, y)
    <3>1. (CHOOSE y \in 1 .. k : Of(x, y)) \in 1 .. k
      <4>. HIDE DEF Of
      <4>. QED
        BY <2>1
    <3>. QED
      BY <1>h, <2>1, <3>1
  <2>2. CASE ~\E y \in 1 .. k : Of(x, y)
    <3>0. runq \in [P -> [0 .. Len256 - 1 -> G \cup {Nil}]]
      BY <1>0 DEF TypeOK
    <3>1. runq[p][x] \in G \cup {Nil}
      BY <3>0
    <3>. QED
      BY <2>2, <3>1
  <2>. QED
    BY <2>1, <2>2
<1>g. \A y \in 1 .. k : f[Slot(Start + (Came(p) + y - 1))] = hand[p][y + 1]
  <2>. SUFFICES ASSUME NEW y \in 1 .. k PROVE f[Slot(Start + (Came(p) + y - 1))] = hand[p][y + 1]
    OBVIOUS
  <2>. DEFINE x == Slot(Start + (Came(p) + y - 1))
  <2>1. x \in 0 .. Len256 - 1
    <3>1. Start + (Came(p) + y - 1) \in Int
      BY <1>l, Consts
    <3>. QED
      BY <3>1, SlotType
  <2>2. Of(x, y)
    BY <1>s
  <2>3. \A z \in 1 .. k : Of(x, z) => z = y
    <3>. SUFFICES ASSUME NEW z \in 1 .. k, z # y PROVE ~Of(x, z)
      OBVIOUS
    <3>. DEFINE a == Came(p) + y - 1
                b == Came(p) + z - 1
    <3>1. a \in Int /\ b \in Int /\ a # b /\ a < b + Len256 /\ b < a + Len256
      <4>1. k \in 0 .. Half - 1 /\ Half \in Nat /\ Half + Half = Len256 /\ Came(p) \in Nat
        BY <1>l
      <4>. HIDE DEF k
      <4>2. y - z < Half /\ z - y < Half /\ y \in Int /\ z \in Int /\ y # z
        BY <4>1
      <4>. QED
        BY <4>1, <4>2
    <3>2. Slot(Start + a) # Slot(Start + b)
      <4>. HIDE DEF a, b
      <4>. QED
        BY <3>1, SlotApart
    <3>. QED
      BY <1>s, <3>2
  <2>4. (CHOOSE z \in 1 .. k : Of(x, z)) = y
    <3>. HIDE DEF Of, x
    <3>. QED
      BY <2>2, <2>3
  <2>5. f[x] = hand[p][1 + y]
    <3>. HIDE DEF Of, x
    <3>. QED
      BY <2>1, <2>2, <2>4
  <2>6. 1 + y = y + 1
    BY <1>l
  <2>. QED
    BY <2>5, <2>6
<1>k. \A j \in Gone(p) .. Came(p) - 1 : f[Slot(Start + j)] = At(p, j)
  <2>1. \A j : j \notin Gone(p) .. Came(p) - 1
    BY <1>1, <1>l
  <2>. QED
    BY <2>1
<1>. HIDE DEF f, k
<1>v. /\ runq' \in [P -> [0 .. Len256 - 1 -> G \cup {Nil}]]
      /\ \A x \in P : /\ Grows(x) /\ Gone(x)' = Gone(x) /\ Came(x)' = Came(x)
                      /\ \A g : InRing(x, g)' <=> InRing(x, g)
                      /\ x # p => runq'[x] = runq[x]
      /\ runq'[p] = f
      /\ (pc'[p] \in Dry => Gone(p) = Came(p)) => Ringed(p)'
  BY <1>0, <1>f, <1>k, <1>x, Stored
<1>2. TypeOK'
  BY <1>0, <1>t, <1>v, <1>x DEF TypeOK, PC
<1>3. \A x \in P \ {p} : Own(x)
  BY <1>0, <1>v, <1>x DEF Own, TypeOK
<1>4. Lists'
  BY <1>0, <1>x DEF Lists
<1>5. pc'[p] = "batchTail" /\ cur'[p] = Nil /\ hand'[p] = hand[p]
  BY <1>0, <1>1, <1>x DEF TypeOK
<1>7. Fine(p)'
  <2>1. Ringed(p)'
    BY <1>1, <1>v
  <2>2. \A y \in 1 .. k : At(p, Came(p) + y - 1)' = hand[p][y + 1]
    <3>1. \A y \in 1 .. k : runq'[p][Slot(Start + (Came(p)' + y - 1))] = hand[p][y + 1]
      BY <1>g, <1>v
    <3>. QED
      BY <3>1 DEF At
  <2>3. \A y \in 1 .. Len(hand'[p]) - 1 : At(p, Came(p) + y - 1)' = hand'[p][y + 1]
    BY <1>5, <2>2 DEF k
  <2>4. Len(hand'[p]) \in 1 .. Half
    BY <1>1, <1>5
  <2>5. Hands(p)'
    BY <1>5, <2>3, <2>4 DEF Hands, Busy, EmptyHand
  <2>. QED
    BY <1>5, <2>1, <2>5 DEF Fine, Thief
<1>8. Homes'
  <2>1. \A g \in G : \A kind, x : In(kind, x, g)' <=> In(kind, x, g)
    BY <1>v, <1>x DEF In
  <2>. QED
    BY <1>0, <2>1, Stay
<1>9. NoLap'
  <2>2. IsFiniteSet(Queued') /\ Cardinality(Queued') = Cardinality(Queued) /\ Cardinality(Queued) \in Nat
    BY <1>0, <1>x, QueuedSame
  <2>3. ready' <= ready /\ Cardinality(Queued') + ready' <= Cardinality(Queued) + ready
    BY <1>0, <1>x, <2>2 DEF TypeOK
  <2>. QED
    BY <1>0, <1>2, <1>3, <1>5, <1>v, <2>2, <2>3, LapSame
<1>. QED
  BY <1>2, <1>3, <1>4, <1>v, <1>7, <1>8, <1>9, Together

LEMMA GrabCopyStep ==
  ASSUME RingInv, NEW p \in P, grabCopy(p)
  PROVE  RingInv' /\ \A x \in P : Grows(x)
<1>0. TypeOK /\ Lists /\ (\A x \in P : Fine(x)) /\ Homes /\ NoLap
  BY RingInvParts
<1>q. PICK q \in P : p2[p] = q
  BY <1>0 DEF TypeOK
<1>. DEFINE j == i[p]
            c == Slot(Start + (Came(p) + j))
            e == At(q, Since(h[p]) + j)
            f == [runq[p] EXCEPT ![c] = e]
<1>1. /\ q # p /\ Ringed(p) /\ Gone(p) = Came(p) /\ cur[p] = Nil /\ hand[p] = <<>>
      /\ n[p] \in 1 .. Half /\ j < n[p] /\ Copied(p) /\ Since(h[p]) <= Gone(q)
  BY <1>0, <1>q DEF Fine, Thief, Ringed, Hands, Dry, Busy, EmptyHand, grabCopy
<1>l. /\ Gone(p) \in Nat /\ Came(p) \in Nat /\ Since(h[p]) \in Nat /\ j \in Nat /\ n[p] \in Nat
      /\ Half + Half = Len256 /\ Half \in Nat /\ Start \in Nat
  BY <1>0, Counts, Consts
<1>c. Slot(runqtail[p] + j) = c /\ c \in 0 .. Len256 - 1
  <2>1. j \in Int /\ Start + (Came(p) + j) \in Int
    BY <1>l
  <2>. QED
    BY <1>0, <2>1, TailSlot, SlotType
<1>e. e \in G \cup {Nil} /\ runq[q][Slot(h[p] + j)] = e
  <2>1. h[p] \in Word /\ j \in Int /\ runq[q] \in [0 .. Len256 - 1 -> G \cup {Nil}]
    BY <1>0, <1>l DEF TypeOK
  <2>2. Slot(h[p] + j) = Slot(Start + (Since(h[p]) + j))
    BY <2>1, SinceSlot
  <2>3. Slot(Start + (Since(h[p]) + j)) \in 0 .. Len256 - 1
    <3>1. Start + (Since(h[p]) + j) \in Int
      BY <1>l
    <3>. QED
      BY <3>1, SlotType
  <2>. QED
    BY <2>1, <2>2, <2>3 DEF At
<1>f. f \in [0 .. Len256 - 1 -> G \cup {Nil}] /\ f[c] = e /\ \A y \in 0 .. Len256 - 1 : y # c => f[y] = runq[p][y]
  <2>1. runq[p] \in [0 .. Len256 - 1 -> G \cup {Nil}]
    BY <1>0 DEF TypeOK
  <2>. HIDE DEF c, e
  <2>. QED
    BY <1>c, <1>e, <2>1
<1>r. runq' = [runq EXCEPT ![p] = f]
  BY <1>c, <1>e, <1>q DEF grabCopy
<1>k. \A y \in Gone(p) .. Came(p) - 1 : f[Slot(Start + y)] = At(p, y)
  <2>1. \A y : y \notin Gone(p) .. Came(p) - 1
    BY <1>1, <1>l
  <2>. QED
    BY <2>1
<1>b. \A y \in 0 .. j - 1 : f[Slot(Start + (Came(p) + y))] = At(p, Came(p) + y)
  <2>. SUFFICES ASSUME NEW y \in 0 .. j - 1 PROVE f[Slot(Start + (Came(p) + y))] = At(p, Came(p) + y)
    OBVIOUS
  <2>. DEFINE a == Came(p) + y
              b == Came(p) + j
  <2>1. a \in Int /\ b \in Int /\ a # b /\ a < b + Len256 /\ b < a + Len256 /\ Start + a \in Int
    <3>1. j \in Nat /\ n[p] \in Nat /\ j < n[p] /\ n[p] <= Half
      BY <1>1, <1>l
    <3>. HIDE DEF j
    <3>. QED
      BY <1>l, <3>1
  <2>. HIDE DEF a
  <2>2. Slot(Start + a) # c
    <3>. HIDE DEF b
    <3>1. Slot(Start + a) # Slot(Start + b)
      BY <2>1, SlotApart
    <3>. QED
      BY <3>1 DEF b
  <2>3. Slot(Start + a) \in 0 .. Len256 - 1
    BY <2>1, SlotType
  <2>4. f[Slot(Start + a)] = At(p, a)
    BY <1>f, <2>2, <2>3 DEF At
  <2>. QED
    BY <2>4 DEF a
<1>x. /\ pc[p] = "copy" /\ i' = [i EXCEPT ![p] = j + 1]
      /\ runnext' = runnext /\ runqhead' = runqhead /\ runqtail' = runqtail
      /\ sched_runq' = sched_runq /\ cur' = cur /\ waiting' = waiting /\ ready' = ready
      /\ pc' = pc /\ hand' = hand /\ p2' = p2 /\ h' = h /\ n' = n /\ throw' = throw
  BY DEF grabCopy
<1>. HIDE DEF f, e, c, j
<1>v. /\ runq' \in [P -> [0 .. Len256 - 1 -> G \cup {Nil}]]
      /\ \A x \in P : /\ Grows(x) /\ Gone(x)' = Gone(x) /\ Came(x)' = Came(x)
                      /\ \A g : InRing(x, g)' <=> InRing(x, g)
                      /\ x # p => runq'[x] = runq[x]
      /\ runq'[p] = f
      /\ (pc'[p] \in Dry => Gone(p) = Came(p)) => Ringed(p)'
  BY <1>0, <1>f, <1>k, <1>r, <1>x, Stored
<1>2. TypeOK'
  <2>1. i' \in [P -> Nat]
    BY <1>0, <1>l, <1>x DEF TypeOK
  <2>. QED
    BY <1>0, <1>v, <1>x, <2>1 DEF TypeOK
<1>3. \A x \in P \ {p} : Own(x)
  BY <1>0, <1>v, <1>x DEF Own, TypeOK
<1>4. Lists'
  BY <1>0, <1>x DEF Lists
<1>5. pc'[p] = "copy" /\ i'[p] = j + 1 /\ p2'[p] = q /\ h'[p] = h[p] /\ n'[p] = n[p]
  BY <1>0, <1>q, <1>x DEF TypeOK
<1>7. Fine(p)'
  <2>1. Ringed(p)'
    BY <1>1, <1>v
  <2>2. Hands(p)'
    BY <1>1, <1>5, <1>x DEF Hands, Busy, EmptyHand
  <2>3. Copied(p)'
    <3>. SUFFICES ASSUME Since(h'[p]) = Since(runqhead'[p2'[p]])
                  PROVE  /\ Since(h'[p]) + n'[p] <= Since(runqtail'[p2'[p]])
                         /\ \A y \in 0 .. i'[p] - 1 : runq'[p][Slot(Start + (Since(runqtail'[p]) + y))]
                                                     = runq'[p2'[p]][Slot(Start + (Since(h'[p]) + y))]
      BY DEF Copied, At, Gone, Came
    <3>a. /\ Since(runqhead'[q]) = Gone(q) /\ Since(runqtail'[q]) = Came(q)
          /\ Since(runqtail'[p]) = Came(p)
      BY <1>x DEF Gone, Came
    <3>0. Since(h[p]) = Gone(q)
      BY <1>5, <3>a
    <3>1. /\ Since(h[p]) + n[p] <= Came(q)
          /\ \A y \in 0 .. j - 1 : At(p, Came(p) + y) = At(q, Since(h[p]) + y)
      BY <1>1, <1>q, <3>0 DEF Copied, j
    <3>2. runq'[q] = runq[q] /\ runq'[p] = f
      BY <1>1, <1>v
    <3>3. ASSUME NEW y \in 0 .. j + 1 - 1
          PROVE  f[Slot(Start + (Came(p) + y))] = runq[q][Slot(Start + (Since(h[p]) + y))]
      <4>1. CASE y = j
        BY <1>f, <4>1 DEF e, c, At
      <4>2. CASE y # j
        <5>1. y \in 0 .. j - 1
          BY <1>l, <4>2
        <5>. QED
          BY <1>b, <3>1, <5>1 DEF At
      <4>. QED
        BY <4>1, <4>2
    <3>4. ASSUME NEW y \in 0 .. i'[p] - 1
          PROVE  runq'[p][Slot(Start + (Since(runqtail'[p]) + y))]
                   = runq'[p2'[p]][Slot(Start + (Since(h'[p]) + y))]
      <4>1. y \in 0 .. j + 1 - 1
        BY <1>5, <1>l
      <4>2. /\ runq'[p] = f /\ runq'[p2'[p]] = runq[q] /\ Since(runqtail'[p]) = Came(p)
            /\ Since(h'[p]) = Since(h[p])
        BY <1>5, <3>2, <3>a
      <4>. QED
        BY <3>3, <4>1, <4>2
    <3>. QED
      BY <1>5, <3>1, <3>4, <3>a
  <2>4. Thief(p)'
    <3>1. n'[p] \in 1 .. Half /\ i'[p] <= n'[p] /\ p2'[p] # p
      BY <1>1, <1>5, <1>l
    <3>2. Since(h'[p]) <= Gone(p2[p])'
      BY <1>1, <1>5, <1>x DEF Gone
    <3>. QED
      BY <1>5, <2>3, <3>1, <3>2 DEF Thief
  <2>. QED
    BY <2>1, <2>2, <2>4 DEF Fine
<1>8. Homes'
  <2>1. \A g \in G : \A kind, x : In(kind, x, g)' <=> In(kind, x, g)
    BY <1>v, <1>x DEF In
  <2>. QED
    BY <1>0, <2>1, Stay
<1>9. NoLap'
  <2>2. IsFiniteSet(Queued') /\ Cardinality(Queued') = Cardinality(Queued) /\ Cardinality(Queued) \in Nat
    BY <1>0, <1>x, QueuedSame
  <2>3. ready' <= ready /\ Cardinality(Queued') + ready' <= Cardinality(Queued) + ready
    BY <1>0, <1>x, <2>2 DEF TypeOK
  <2>. QED
    BY <1>0, <1>2, <1>3, <1>5, <1>v, <2>2, <2>3, LapSame
<1>. QED
  BY <1>2, <1>3, <1>4, <1>v, <1>7, <1>8, <1>9, Together

\* runqgrab takes runnext.
TakeNext(p) ==
  /\ pc[p] = "grabNext" /\ runnext[p2[p]] # Nil
  /\ runnext' = [runnext EXCEPT ![p2[p]] = Nil]
  /\ runq' = [runq EXCEPT ![p][Slot(runqtail[p])] = runnext[p2[p]]]
  /\ n' = [n EXCEPT ![p] = 1]
  /\ hand' = [hand EXCEPT ![p] = <<runnext[p2[p]]>>] /\ pc' = [pc EXCEPT ![p] = "stolen"]
  /\ Forget(p)
  /\ runqhead' = runqhead /\ runqtail' = runqtail /\ sched_runq' = sched_runq
  /\ cur' = cur /\ waiting' = waiting /\ ready' = ready /\ throw' = throw

LEMMA TakeNextStep ==
  ASSUME RingInv, NEW p \in P, TakeNext(p)
  PROVE  RingInv' /\ \A x \in P : Grows(x)
<1>0. TypeOK /\ Lists /\ (\A x \in P : Fine(x)) /\ Homes /\ NoLap
  BY RingInvParts
<1>q. PICK q \in P : p2[p] = q
  BY <1>0 DEF TypeOK
<1>. DEFINE c == Slot(Start + Came(p))
            e == runnext[q]
            f == [runq[p] EXCEPT ![c] = e]
<1>1. /\ Ringed(p) /\ Gone(p) = Came(p) /\ cur[p] = Nil /\ hand[p] = <<>> /\ e \in G
      /\ runqtail[p] \in Word
  <2>1. Ringed(p) /\ Gone(p) = Came(p) /\ cur[p] = Nil /\ hand[p] = <<>>
    BY <1>0 DEF Fine, Ringed, Hands, Dry, Busy, EmptyHand, TakeNext
  <2>2. e \in G /\ runqtail[p] \in Word
    BY <1>0, <1>q DEF TakeNext, TypeOK
  <2>. QED
    BY <2>1, <2>2
<1>l. Gone(p) \in Nat /\ Came(p) \in Nat /\ 1 \in 1 .. Half
  BY <1>0, Counts, Consts
<1>c. Slot(runqtail[p]) = c /\ c \in 0 .. Len256 - 1
  <2>1. Slot(runqtail[p] + 0) = Slot(Start + (Came(p) + 0))
    BY <1>0, TailSlot
  <2>2. runqtail[p] + 0 = runqtail[p] /\ Came(p) + 0 = Came(p) /\ Start + Came(p) \in Int
    BY <1>1, <1>l, Consts DEF Word
  <2>. QED
    BY <2>1, <2>2, SlotType
<1>f. f \in [0 .. Len256 - 1 -> G \cup {Nil}] /\ f[c] = e
  <2>1. runq[p] \in [0 .. Len256 - 1 -> G \cup {Nil}]
    BY <1>0 DEF TypeOK
  <2>. HIDE DEF c, e
  <2>. QED
    BY <1>1, <1>c, <2>1
<1>r. runq' = [runq EXCEPT ![p] = f]
  BY <1>c, <1>q DEF TakeNext
<1>k. \A y \in Gone(p) .. Came(p) - 1 : f[Slot(Start + y)] = At(p, y)
  <2>1. \A y : y \notin Gone(p) .. Came(p) - 1
    BY <1>1, <1>l
  <2>. QED
    BY <2>1
<1>x. /\ runnext' = [runnext EXCEPT ![q] = Nil] /\ hand' = [hand EXCEPT ![p] = <<e>>]
  BY <1>q DEF TakeNext
<1>s. <<e>> \in Seq(G) /\ NoDup(<<e>>) /\ (\A g : Has(<<e>>, g) <=> g = e) /\ Len(<<e>>) = 1 /\ <<e>>[1] = e
  BY <1>1, HasOne
<1>y. runnext[q] = e
  OBVIOUS
<1>. HIDE DEF f, e, c
<1>v. /\ runq' \in [P -> [0 .. Len256 - 1 -> G \cup {Nil}]]
      /\ \A x \in P : /\ Grows(x) /\ Gone(x)' = Gone(x) /\ Came(x)' = Came(x)
                      /\ \A g : InRing(x, g)' <=> InRing(x, g)
                      /\ x # p => runq'[x] = runq[x]
      /\ runq'[p] = f
      /\ (pc'[p] \in Dry => Gone(p) = Came(p)) => Ringed(p)'
  BY <1>0, <1>f, <1>k, <1>r, Stored DEF TakeNext
<1>2. TypeOK'
  <2>1. 0 \in Word
    BY Consts DEF Word
  <2>2. hand' \in [P -> Seq(G)] /\ n' \in [P -> Nat] /\ pc' \in [P -> PC] /\ runnext' \in [P -> G \cup {Nil}]
    BY <1>0, <1>s, <1>x DEF TypeOK, TakeNext, PC
  <2>3. p2' \in [P -> P] /\ h' \in [P -> Word] /\ i' \in [P -> Nat]
    BY <1>0, <2>1 DEF TypeOK, TakeNext, Forget
  <2>. QED
    BY <1>0, <1>v, <2>2, <2>3 DEF TypeOK, TakeNext
<1>3. \A x \in P \ {p} : Own(x)
  BY <1>0, <1>v, <1>x DEF Own, TypeOK, TakeNext, Forget
<1>d. \A x \in P : hand'[x] = IF x = p THEN <<e>> ELSE hand[x]
  BY <1>0, <1>x DEF TypeOK
<1>4. Lists'
  BY <1>0, <1>d, <1>s DEF Lists, TakeNext
<1>5. pc'[p] = "stolen" /\ cur'[p] = Nil /\ n'[p] = 1
  BY <1>0, <1>1 DEF TypeOK, TakeNext
<1>7. Fine(p)'
  <2>1. Ringed(p)'
    BY <1>1, <1>v
  <2>2. \A y \in 1 .. 1 : At(p, Came(p) + y - 1)' = <<e>>[y]
    <3>1. \A y \in 1 .. 1 : Came(p)' + y - 1 = Came(p) /\ <<e>>[y] = e
      BY <1>l, <1>s, <1>v
    <3>2. f[Slot(Start + Came(p))] = e /\ runq'[p] = f
      BY <1>f, <1>v DEF c
    <3>. QED
      BY <3>1, <3>2 DEF At
  <2>3. Hands(p)'
    <3>1. hand'[p] = <<e>> /\ Len(hand'[p]) \in 1 .. Half /\ n'[p] = Len(hand'[p])
      BY <1>5, <1>d, <1>l, <1>s
    <3>2. \A y \in 1 .. n'[p] : At(p, Came(p) + y - 1)' = hand'[p][y]
      BY <1>5, <2>2, <3>1
    <3>. QED
      BY <1>5, <3>1, <3>2 DEF Hands, Busy, EmptyHand
  <2>. QED
    BY <1>5, <2>1, <2>3 DEF Fine, Thief
<1>8. Homes'
  <2>. DEFINE M == {e}
  <2>1. \A g \in M : In("runnext", q, g)
    BY <1>y DEF In
  <2>2. \A x \in P : runnext'[x] = IF x = q THEN Nil ELSE runnext[x]
    BY <1>0, <1>x DEF TypeOK
  <2>3. ASSUME NEW g \in G PROVE Moved(g, M, "runnext", q, "hand", p, {}, "", Nil, "", Nil)
    BY <1>1, <1>d, <1>s, <1>v, <1>y, <2>2, HasNone, Consts DEF Moved, In, TakeNext
  <2>. QED
    BY <1>0, <2>1, <2>3, Move
<1>9. NoLap'
  <2>2. IsFiniteSet(Queued') /\ Cardinality(Queued') = Cardinality(Queued) /\ Cardinality(Queued) \in Nat
    BY <1>0, QueuedSame DEF TakeNext
  <2>3. ready' <= ready /\ Cardinality(Queued') + ready' <= Cardinality(Queued) + ready
    BY <1>0, <2>2 DEF TypeOK, TakeNext
  <2>. QED
    BY <1>0, <1>2, <1>3, <1>5, <1>v, <2>2, <2>3, LapSame
<1>. QED
  BY <1>2, <1>3, <1>4, <1>v, <1>7, <1>8, <1>9, Together

-----------------------------------------------------------------------------
(* The steps that publish what was stored.                                 *)

LEMMA Publish ==
  ASSUME TypeOK, \A x \in P : Fine(x), NEW p \in P, NEW s \in Seq(G), NEW k \in Nat, Len(s) = k,
         NoDup(s), \A j \in 1 .. k : At(p, Came(p) + j - 1) = s[j],
         \A g \in G : ~(Has(s, g) /\ InRing(p, g)),
         Came(p) + k <= Gone(p) + Len256, Came(p) + k < Wrap,
         runqtail' = [runqtail EXCEPT ![p] = Plus(@, k)], runqhead' = runqhead, runq' = runq,
         pc'[p] \notin Dry
  PROVE  /\ runqtail' \in [P -> Word]
         /\ Came(p)' = Came(p) + k
         /\ \A x \in P : /\ Grows(x) /\ Gone(x)' = Gone(x)
                         /\ x # p => /\ Came(x)' = Came(x) /\ runqtail'[x] = runqtail[x]
                                     /\ \A g : InRing(x, g)' <=> InRing(x, g)
         /\ \A g : InRing(p, g)' <=> InRing(p, g) \/ Has(s, g)
         /\ Ringed(p)'
<1>. DEFINE a == Gone(p)
            b == Came(p)
<1>0. \A x \in P : Ringed(x) /\ Gone(x) \in Nat /\ Came(x) \in Nat /\ Gone(x) <= Came(x)
  BY Counts DEF Fine, Ringed
<1>1. runqtail[p] \in Word
  BY DEF TypeOK
<1>2. Plus(runqtail[p], k) \in Word /\ Since(Plus(runqtail[p], k)) = b + k
  BY <1>1, SincePlus DEF Came
<1>3. runqtail' \in [P -> Word] /\ runqtail'[p] = Plus(runqtail[p], k)
  BY <1>2 DEF TypeOK
<1>4. Came(p)' = b + k
  BY <1>2, <1>3 DEF Came
<1>5. \A x \in P \ {p} : runqtail'[x] = runqtail[x] /\ runqhead'[x] = runqhead[x] /\ runq'[x] = runq[x]
  BY DEF TypeOK
<1>6. \A x \in P \ {p} : /\ Grows(x) /\ Gone(x)' = Gone(x) /\ Came(x)' = Came(x)
                         /\ \A g : InRing(x, g)' <=> InRing(x, g)
  BY <1>0, <1>5, GrowsSame
<1>7. Gone(p)' = a /\ \A j : At(p, j)' = At(p, j)
  BY DEF Gone, At
<1>8. a \in Nat /\ b \in Nat /\ a <= b /\ b + k <= a + Len256
  BY <1>0
<1>9. Grows(p)
  BY <1>4, <1>7, <1>8 DEF Grows
<1>10. ASSUME NEW j \in b .. b + k - 1
       PROVE  /\ j - b + 1 \in 1 .. k /\ j - b + 1 \in DOMAIN s
              /\ At(p, j) = s[j - b + 1] /\ At(p, j) \in G /\ Has(s, At(p, j))
  <2>1. j - b + 1 \in 1 .. k /\ b + (j - b + 1) - 1 = j
    BY <1>8
  <2>2. At(p, j) = s[j - b + 1]
    <3>1. \A l \in 1 .. k : At(p, b + l - 1) = s[l]
      OBVIOUS
    <3>. HIDE DEF b
    <3>. QED
      BY <2>1, <3>1
  <2>3. s[j - b + 1] \in G /\ j - b + 1 \in DOMAIN s
    BY <2>1
  <2>. QED
    BY <2>1, <2>2, <2>3 DEF Has
<1>11. /\ \A j \in a .. b - 1 : At(p, j) \in G /\ InRing(p, At(p, j))
       /\ \A j, l \in a .. b - 1 : At(p, j) = At(p, l) => j = l
  BY <1>0 DEF Ringed, InRing
<1>12. \A j : j \in a .. b + k - 1 <=> j \in a .. b - 1 \/ j \in b .. b + k - 1
  BY <1>8
<1>13. ASSUME NEW g PROVE InRing(p, g)' <=> InRing(p, g) \/ Has(s, g)
  <2>1. InRing(p, g)' <=> \E j \in a .. b + k - 1 : At(p, j) = g
    <3>1. InRing(p, g)' <=> \E j \in Gone(p)' .. Came(p)' - 1 : At(p, j)' = g
      BY DEF InRing
    <3>2. Gone(p)' .. Came(p)' - 1 = a .. b + k - 1
      BY <1>4, <1>7, <1>8
    <3>. QED
      BY <1>7, <3>1, <3>2
  <2>2. Has(s, g) <=> \E j \in b .. b + k - 1 : At(p, j) = g
    <3>1. ASSUME NEW l \in DOMAIN s, s[l] = g PROVE \E j \in b .. b + k - 1 : At(p, j) = g
      <4>1. l \in 1 .. k /\ b + l - 1 \in b .. b + k - 1
        BY <1>8
      <4>. QED
        BY <3>1, <4>1
    <3>. QED
      BY <1>10, <3>1 DEF Has
  <2>. QED
    BY <1>12, <2>1, <2>2 DEF InRing
<1>14. Ringed(p)'
  <2>1. \A j \in a .. b + k - 1 : At(p, j) \in G
    BY <1>10, <1>11, <1>12
  <2>2. ASSUME NEW j \in a .. b + k - 1, NEW l \in a .. b + k - 1, At(p, j) = At(p, l) PROVE j = l
    <3>1. CASE j \in a .. b - 1 /\ l \in a .. b - 1
      BY <1>11, <2>2, <3>1
    <3>2. CASE j \in b .. b + k - 1 /\ l \in b .. b + k - 1
      <4>1. j - b + 1 = l - b + 1
        BY <1>10, <2>2, <3>2 DEF NoDup
      <4>. QED
        BY <1>8, <4>1
    <3>3. CASE j \in a .. b - 1 /\ l \in b .. b + k - 1
      BY <1>10, <1>11, <2>2, <3>3
    <3>4. CASE l \in a .. b - 1 /\ j \in b .. b + k - 1
      BY <1>10, <1>11, <2>2, <3>4
    <3>. QED
      BY <1>12, <3>1, <3>2, <3>3, <3>4
  <2>3. a <= b + k
    BY <1>8
  <2>. QED
    BY <1>4, <1>7, <1>8, <2>1, <2>2, <2>3 DEF Ringed
<1>. QED
  BY <1>3, <1>4, <1>5, <1>6, <1>7, <1>9, <1>13, <1>14

LEMMA PutTailStep ==
  ASSUME RingInv, NEW p \in P, runqputTail(p)
  PROVE  RingInv' /\ \A x \in P : Grows(x)
<1>0. TypeOK /\ Lists /\ (\A x \in P : Fine(x)) /\ Homes /\ NoLap
  BY RingInvParts
<1>x. /\ pc[p] = "tail" /\ runqtail' = [runqtail EXCEPT ![p] = Plus(@, 1)]
      /\ hand' = [hand EXCEPT ![p] = <<>>] /\ pc' = [pc EXCEPT ![p] = "run"]
      /\ runnext' = runnext /\ runqhead' = runqhead /\ runq' = runq /\ sched_runq' = sched_runq
      /\ cur' = cur /\ waiting' = waiting /\ ready' = ready
      /\ p2' = p2 /\ h' = h /\ n' = n /\ i' = i /\ throw' = throw
  BY DEF runqputTail, Goto, Hold, thiefVars
<1>1. /\ cur[p] # Nil /\ hand[p] \in Seq(G) /\ Len(hand[p]) = 1 /\ NoDup(hand[p])
      /\ Came(p) < Gone(p) + Len256 /\ At(p, Came(p)) = hand[p][1]
  BY <1>0, <1>x DEF Fine, Hands, Busy, TypeOK, Lists
<1>l. Gone(p) \in Nat /\ Came(p) \in Nat /\ Len256 \in Nat /\ Pend(p) = 1
  BY <1>0, <1>x, Counts, Consts DEF Pend
<1>5. pc'[p] = "run" /\ cur'[p] # Nil /\ hand'[p] = <<>>
  BY <1>0, <1>1, <1>x DEF TypeOK
<1>v. /\ runqtail' \in [P -> Word]
      /\ Came(p)' = Came(p) + 1
      /\ \A x \in P : /\ Grows(x) /\ Gone(x)' = Gone(x)
                      /\ x # p => /\ Came(x)' = Came(x) /\ runqtail'[x] = runqtail[x]
                                  /\ \A g : InRing(x, g)' <=> InRing(x, g)
      /\ \A g : InRing(p, g)' <=> InRing(p, g) \/ Has(hand[p], g)
      /\ Ringed(p)'
  <2>1. \A j \in 1 .. 1 : At(p, Came(p) + j - 1) = hand[p][j]
    BY <1>1, <1>l
  <2>2. \A g \in G : ~(Has(hand[p], g) /\ InRing(p, g))
    BY <1>0, HandOnly
  <2>3. Came(p) + 1 <= Gone(p) + Len256 /\ Came(p) + 1 < Wrap
    BY <1>0, <1>1, <1>l, Room
  <2>4. pc'[p] \notin Dry
    BY <1>5 DEF Dry
  <2>. QED
    BY <1>0, <1>1, <1>x, <2>1, <2>2, <2>3, <2>4, Publish
<1>2. TypeOK'
  BY <1>0, <1>v, <1>x DEF TypeOK, PC
<1>3. \A x \in P \ {p} : Own(x)
  BY <1>0, <1>x DEF Own, TypeOK
<1>d. \A x \in P : hand'[x] = IF x = p THEN <<>> ELSE hand[x]
  BY <1>0, <1>x DEF TypeOK
<1>4. Lists'
  BY <1>0, <1>d, <1>x, HasNone DEF Lists
<1>7. Fine(p)'
  BY <1>5, <1>v DEF Fine, Hands, Thief, Busy, EmptyHand
<1>8. Homes'
  <2>. DEFINE M == Batch(p)
  <2>1. \A g \in M : In("hand", p, g)
    BY DEF In, Batch
  <2>2. ASSUME NEW g \in G PROVE Moved(g, M, "hand", p, "runq", p, {}, "", Nil, "", Nil)
    BY <1>d, <1>v, <1>x, HasNone DEF Moved, In, Batch
  <2>. QED
    BY <1>0, <2>1, <2>2, Move
<1>9. NoLap'
  <2>2. IsFiniteSet(Queued') /\ Cardinality(Queued') = Cardinality(Queued) /\ Cardinality(Queued) \in Nat
    BY <1>0, <1>x, QueuedSame
  <2>3. ready' <= ready /\ Cardinality(Queued') + ready' <= Cardinality(Queued) + ready /\ ready \in Nat
        /\ ready' = ready
    BY <1>0, <1>x, <2>2 DEF TypeOK
  <2>4. ASSUME NEW x \in P PROVE Came(x)' + Pend(x)' + ready' <= Came(x) + Pend(x) + ready
    <3>1. CASE x = p
      BY <1>5, <1>l, <1>v, <2>3, <3>1 DEF Pend
    <3>2. CASE x # p
      <4>1. Pend(x)' = Pend(x) /\ Pend(x) \in Nat
        BY <1>3, <3>2 DEF Pend, Own
      <4>. QED
        BY <1>0, <1>v, <2>3, <3>2, <4>1, Counts
    <3>. QED
      BY <3>1, <3>2
  <2>. QED
    BY <1>0, <1>2, <2>2, <2>3, <2>4, LapKept
<1>. QED
  BY <1>2, <1>3, <1>4, <1>v, <1>7, <1>8, <1>9, Together

\* A batch in the hands of p is published but for one goroutine, e, which p runs.
Deal(p, s, e) ==
  /\ runqtail' = [runqtail EXCEPT ![p] = Plus(@, Len(s))]
  /\ cur' = [cur EXCEPT ![p] = e] /\ pc' = [pc EXCEPT ![p] = "run"]
  /\ hand' = [hand EXCEPT ![p] = <<>>]
  /\ n' \in [P -> Nat] /\ \A x \in P \ {p} : n'[x] = n[x]
  /\ runnext' = runnext /\ runqhead' = runqhead /\ runq' = runq /\ sched_runq' = sched_runq
  /\ waiting' = waiting /\ ready' = ready /\ p2' = p2 /\ h' = h /\ i' = i /\ ~throw'

LEMMA DealStep ==
  ASSUME RingInv, NEW p \in P, NEW s \in Seq(G), NEW e \in G, Deal(p, s, e),
         pc[p] \in {"batchTail", "stolen"}, Len(s) <= Half - 1, NoDup(s), ~Has(s, e),
         \A g : Has(hand[p], g) <=> g = e \/ Has(s, g),
         \A j \in 1 .. Len(s) : At(p, Came(p) + j - 1) = s[j]
  PROVE  RingInv' /\ \A x \in P : Grows(x)
<1>0. TypeOK /\ Lists /\ (\A x \in P : Fine(x)) /\ Homes /\ NoLap
  BY RingInvParts
<1>. DEFINE k == Len(s)
<1>1. Ringed(p) /\ cur[p] = Nil /\ Gone(p) = Came(p)
  BY <1>0 DEF Fine, Hands, Ringed, Busy, Dry
<1>l. /\ Gone(p) \in Nat /\ Came(p) \in Nat /\ Len256 \in Nat /\ Pend(p) = 0 /\ k \in Nat
      /\ k <= Half - 1 /\ Half \in Nat /\ Half + Half = Len256 /\ Wrap \in Nat
  BY <1>0, Counts, Consts DEF Pend
<1>5. pc'[p] = "run" /\ cur'[p] = e /\ hand'[p] = <<>>
  BY <1>0 DEF TypeOK, Deal
<1>o. Has(hand[p], e) /\ e \in Queued
  <2>1. Has(hand[p], e)
    OBVIOUS
  <2>. QED
    BY <1>0, <2>1, HandOnly
<1>v. /\ runqtail' \in [P -> Word]
      /\ Came(p)' = Came(p) + k
      /\ \A x \in P : /\ Grows(x) /\ Gone(x)' = Gone(x)
                      /\ x # p => /\ Came(x)' = Came(x) /\ runqtail'[x] = runqtail[x]
                                  /\ \A g : InRing(x, g)' <=> InRing(x, g)
      /\ \A g : InRing(p, g)' <=> InRing(p, g) \/ Has(s, g)
      /\ Ringed(p)'
  <2>2. \A g \in G : ~(Has(s, g) /\ InRing(p, g))
    BY <1>0, HandOnly
  <2>3. Came(p) + k <= Gone(p) + Len256 /\ Came(p) + k < Wrap
    <3>1. Came(p) + Pend(p) + (Half - 1) < Wrap
      BY <1>0, <1>o, Room
    <3>. HIDE DEF k
    <3>. QED
      BY <1>1, <1>l, <3>1
  <2>4. pc'[p] \notin Dry
    BY <1>5 DEF Dry
  <2>. QED
    BY <1>0, <1>l, <2>2, <2>3, <2>4, Publish DEF Deal
<1>2. TypeOK'
  BY <1>0, <1>v DEF TypeOK, PC, Deal
<1>3. \A x \in P \ {p} : Own(x)
  BY <1>0, <1>v DEF Own, TypeOK, Deal
<1>d. \A x \in P : /\ hand'[x] = IF x = p THEN <<>> ELSE hand[x]
                   /\ cur'[x] = IF x = p THEN e ELSE cur[x]
  BY <1>0 DEF TypeOK, Deal
<1>4. Lists'
  BY <1>0, <1>d, HasNone DEF Lists, Deal
<1>7. Fine(p)'
  BY <1>5, <1>v, Consts DEF Fine, Hands, Thief, Busy, EmptyHand
<1>8. Homes'
  <2>. DEFINE M == {e}
              N == {g \in G : Has(s, g)}
  <2>1. \A g \in M : In("hand", p, g)
    BY DEF In
  <2>2. \A g \in N : In("hand", p, g) /\ g \notin M
    BY DEF In
  <2>3. ASSUME NEW g \in G PROVE Moved(g, M, "hand", p, "cur", p, N, "hand", p, "runq", p)
    BY <1>1, <1>d, <1>v, HasNone, Consts DEF Moved, In, Deal
  <2>. QED
    BY <1>0, <2>1, <2>2, <2>3, Move
<1>9. NoLap'
  <2>2. /\ IsFiniteSet(Queued') /\ Cardinality(Queued') = Cardinality(Queued) - 1
        /\ Cardinality(Queued) \in Nat
    BY <1>0, <1>1, <1>o, QueuedLess DEF Deal
  <2>3. ready' <= ready /\ Cardinality(Queued') + ready' < Cardinality(Queued) + ready /\ ready \in Nat
        /\ ready' = ready
    BY <1>0, <2>2 DEF TypeOK, Deal
  <2>4. ASSUME NEW x \in P
        PROVE  Came(x)' + Pend(x)' + ready' <= Came(x) + Pend(x) + ready + (Half - 1)
    <3>1. CASE x = p
      <4>1. Pend(p)' = 0
        BY <1>5 DEF Pend
      <4>. HIDE DEF k
      <4>. QED
        BY <1>l, <1>v, <2>3, <3>1, <4>1
    <3>2. CASE x # p
      <4>1. Pend(x)' = Pend(x) /\ Pend(x) \in Nat
        BY <1>3, <3>2 DEF Pend, Own
      <4>2. Half - 1 >= 0 /\ Half \in Nat
        BY Consts
      <4>3. Came(x)' = Came(x) /\ Came(x) \in Nat
        BY <1>0, <1>v, <3>2, Counts
      <4>. QED
        BY <2>3, <4>1, <4>2, <4>3
    <3>. QED
      BY <3>1, <3>2
  <2>. QED
    BY <1>0, <1>2, <2>2, <2>3, <2>4, LapKept
<1>. QED
  BY <1>2, <1>3, <1>4, <1>v, <1>7, <1>8, <1>9, Together

LEMMA BatchTailStep ==
  ASSUME RingInv, NEW p \in P, runqputbatchTail(p)
  PROVE  RingInv' /\ \A x \in P : Grows(x)
<1>0. TypeOK /\ Lists /\ Fine(p)
  BY RingInvParts
<1>. DEFINE s == Tail(hand[p])
            e == Head(hand[p])
<1>1. /\ hand[p] \in Seq(G) /\ Len(hand[p]) \in 1 .. Half /\ NoDup(hand[p])
      /\ \A k \in 1 .. Len(hand[p]) - 1 : At(p, Came(p) + k - 1) = hand[p][k + 1]
  BY <1>0 DEF Fine, Hands, TypeOK, Lists, runqputbatchTail
<1>2. hand[p] # <<>> /\ Half \in Nat
  BY <1>1, Consts
<1>3. /\ e \in G /\ s \in Seq(G) /\ NoDup(s) /\ ~Has(s, e)
      /\ \A g : Has(hand[p], g) <=> g = e \/ Has(s, g)
  BY <1>1, <1>2, HasTail
<1>4. Len(s) = Len(hand[p]) - 1 /\ \A j \in 1 .. Len(s) : s[j] = hand[p][j + 1]
  BY <1>1, <1>2
<1>5. Len(s) <= Half - 1 /\ \A j \in 1 .. Len(s) : At(p, Came(p) + j - 1) = s[j]
  BY <1>1, <1>2, <1>4
<1>6. Deal(p, s, e) /\ pc[p] \in {"batchTail", "stolen"}
  BY <1>0, <1>4 DEF Deal, runqputbatchTail, Execute, Goto, Hold, thiefVars, TypeOK
<1>. HIDE DEF s, e
<1>. QED
  BY <1>3, <1>5, <1>6, DealStep

LEMMA StealStep ==
  ASSUME RingInv, NEW p \in P, runqsteal(p)
  PROVE  RingInv' /\ \A x \in P : Grows(x)
<1>0. TypeOK /\ Lists /\ Fine(p)
  BY RingInvParts
<1>. DEFINE t == hand[p]
            k == n[p] - 1
            s == SubSeq(t, 1, k)
            r == SubSeq(t, k + 1, Len(t))
            e == t[k + 1]
<1>1. /\ t \in Seq(G) /\ Len(t) \in 1 .. Half /\ NoDup(t) /\ n[p] = Len(t) /\ Ringed(p)
      /\ Gone(p) = Came(p) /\ \A j \in 1 .. n[p] : At(p, Came(p) + j - 1) = t[j]
  BY <1>0 DEF Fine, Hands, Ringed, Dry, TypeOK, Lists, runqsteal
<1>l. /\ k \in 0 .. Half - 1 /\ Half \in Nat /\ k \in 0 .. Len(t) /\ Len(t) = k + 1 /\ k \in Nat
      /\ Came(p) \in Nat /\ Half + Half = Len256 /\ Half > 0
  BY <1>0, <1>1, Counts, Consts
<1>2. /\ s \in Seq(G) /\ r \in Seq(G) /\ Len(s) = k /\ Len(r) = 1 /\ NoDup(s)
      /\ (\A g : Has(t, g) <=> Has(s, g) \/ Has(r, g)) /\ \A g : ~(Has(s, g) /\ Has(r, g))
  <2>. HIDE DEF k, t
  <2>1. Len(t) - k = 1
    BY <1>l
  <2>. QED
    BY <1>1, <1>l, <2>1, HasSplit
<1>3. e \in G /\ \A g : Has(r, g) <=> g = e
  <2>1. e \in G
    <3>. HIDE DEF k, t
    <3>. QED
      BY <1>1, <1>l
  <2>2. r[1] = e /\ DOMAIN r = {1}
    <3>. HIDE DEF k, t
    <3>. QED
      BY <1>1, <1>2, <1>l
  <2>. HIDE DEF r, e
  <2>. QED
    BY <2>1, <2>2 DEF Has
<1>4. \A j \in 1 .. k : At(p, Came(p) + j - 1) = s[j]
  <2>1. \A j \in 1 .. k : s[j] = t[j]
    <3>. HIDE DEF k, t
    <3>. QED
      BY <1>1, <1>l
  <2>. QED
    BY <1>1, <1>l, <2>1
<1>5. runq[p][Slot(runqtail[p] + k)] = e
  <2>1. k \in Int /\ k + 1 \in 1 .. n[p] /\ Came(p) + (k + 1) - 1 = Came(p) + k
    BY <1>1, <1>l
  <2>2. Slot(runqtail[p] + k) = Slot(Start + (Came(p) + k))
    BY <1>0, <2>1, TailSlot
  <2>3. At(p, Came(p) + (k + 1) - 1) = e
    BY <1>1, <2>1
  <2>. QED
    BY <2>1, <2>2, <2>3 DEF At
<1>6. ~throw'
  <2>1. Sub(runqtail[p], runqhead[p]) = 0
    BY <1>0, <1>1, <1>l, RingIs
  <2>2. ~(0 + k >= Len256)
    BY <1>l
  <2>3. throw' = (throw \/ (k > 0 /\ Sub(runqtail[p], runqhead[p]) + k >= Len256)) /\ ~throw
    BY <1>0 DEF runqsteal, TypeOK
  <2>. QED
    BY <2>1, <2>2, <2>3
<1>7. Deal(p, s, e)
  <2>1. n' \in [P -> Nat] /\ \A x \in P \ {p} : n'[x] = n[x]
    BY <1>0 DEF TypeOK, runqsteal
  <2>. HIDE DEF s, e
  <2>. QED
    BY <1>2, <1>5, <1>6, <2>1 DEF Deal, runqsteal, Execute, Goto, Hold
<1>8. pc[p] \in {"batchTail", "stolen"} /\ Len(s) <= Half - 1
  BY <1>2, <1>l DEF runqsteal
<1>9. ~Has(s, e) /\ \A g : Has(hand[p], g) <=> g = e \/ Has(s, g)
  BY <1>2, <1>3
<1>10. \A j \in 1 .. Len(s) : At(p, Came(p) + j - 1) = s[j]
  BY <1>2, <1>4
<1>. HIDE DEF s, e, r
<1>. QED
  BY <1>2, <1>3, <1>7, <1>8, <1>9, <1>10, DealStep

-----------------------------------------------------------------------------
(* Every step.                                                             *)

LEMMA GetStep ==
  ASSUME RingInv, NEW p \in P, runqget(p)
  PROVE  RingInv' /\ \A x \in P : Grows(x)
<1>1. GetNone(p) \/ GetFirst(p)
  BY DEF runqget, GetNone, GetFirst, Execute, Goto, ringVars, thiefVars
<1>. QED
  BY <1>1, GetNoneStep, GetFirstStep

LEMMA GrabCasStep ==
  ASSUME RingInv, NEW p \in P, grabCas(p)
  PROVE  RingInv' /\ \A x \in P : Grows(x)
<1>1. Grab(p) \/ GiveUp(p)
  BY DEF grabCas, Grab, GiveUp, Goto, Hold, ringVars
<1>. QED
  BY <1>1, GrabStep, GiveUpStep

LEMMA GrabNextStep ==
  ASSUME RingInv, NEW p \in P, grabNext(p)
  PROVE  RingInv' /\ \A x \in P : Grows(x)
<1>1. TakeNext(p) \/ GiveUp(p)
  BY DEF grabNext, TakeNext, GiveUp, Goto, Hold, ringVars
<1>. QED
  BY <1>1, TakeNextStep, GiveUpStep

LEMMA RunStep ==
  ASSUME RingInv, NEW p \in P, Run(p)
  PROVE  RingInv' /\ \A x \in P : Grows(x)
BY RunqputStep, PutStoreStep, PutTailStep, PutslowStep, GlobputStep, ParkStep, GoschedStep,
   GetNextStep, GetStep, GlobgetStep, GlobgetbatchStep, PutbatchStep, BatchTailStep, DrainNextStep,
   DrainStep, GrabHeadStep, GrabTailStep, GrabCopyStep, GrabCasStep, GrabNextStep, StealStep
   DEF Run

\* The Ps do not touch the locals of runqempty.
LEMMA RunChk ==
  ASSUME NEW p \in P, Run(p)
  PROVE  chk' = chk
BY DEF Run, runqput, runqputStore, runqputTail, runqputslow, globrunqputbatch, park, goschedImpl,
       runqgetNext, runqget, globrunqget, globrunqgetbatch, runqputbatch, runqputbatchTail,
       runqdrainNext, runqdrain, grabHead, grabTail, grabCopy, grabCas, grabNext, runqsteal

LEMMA QuietStep ==
  ASSUME RingInv, Quiet' = Quiet
  PROVE  RingInv' /\ runqhead' = runqhead /\ runqtail' = runqtail /\ runnext' = runnext
<1>1. /\ runnext' = runnext /\ runqhead' = runqhead /\ runqtail' = runqtail /\ runq' = runq
      /\ sched_runq' = sched_runq /\ cur' = cur /\ waiting' = waiting /\ ready' = ready /\ pc' = pc
      /\ hand' = hand /\ p2' = p2 /\ h' = h /\ n' = n /\ i' = i /\ throw' = throw
  BY DEF Quiet, ringVars, thiefVars
<1>2. TypeOK' <=> TypeOK
  BY <1>1 DEF TypeOK
<1>3. Lists' <=> Lists
  BY <1>1 DEF Lists
<1>4. \A x : Gone(x)' = Gone(x) /\ Came(x)' = Came(x) /\ \A k : At(x, k)' = At(x, k)
  BY <1>1 DEF Gone, Came, At
<1>5. \A x \in P : (Ringed(x)' <=> Ringed(x)) /\ (Hands(x)' <=> Hands(x))
  BY <1>1, <1>4 DEF Ringed, Hands
<1>6. \A x \in P : Thief(x)' <=> Thief(x)
  BY <1>1 DEF Thief, Copied, Gone, Came, At
<1>7. \A x, g : InRing(x, g)' <=> InRing(x, g)
  BY <1>4 DEF InRing
<1>8. Homes'
  <2>1. Homes /\ \A g \in G : \A kind, x : In(kind, x, g)' <=> In(kind, x, g)
    BY <1>1, <1>7 DEF In, RingInv
  <2>. QED
    BY <2>1, Stay
<1>9. NoLap' <=> NoLap
  BY <1>1 DEF NoLap, Lap, Queued, Pend, Came
<1>. QED
  BY <1>1, <1>2, <1>3, <1>5, <1>6, <1>8, <1>9 DEF RingInv

\* What seen becomes.
Seen == seen' = (chk'.at # "out" /\ (seen \/ \E p \in P : chk'.p = p /\ Empty(p)'))

LEMMA CheckStep ==
  ASSUME RingInv, Checks, Check, Seen
  PROVE  Checks'
<1>. DEFINE q == chk.p
<1>0. TypeOK /\ \A x \in P : Ringed(x)
  BY DEF RingInv
<1>1. runqhead' = runqhead /\ runqtail' = runqtail /\ runnext' = runnext
  BY DEF Check, runqempty, emptyTail, emptyNext, emptyAgain, emptyReturn, Quiet, ringVars
<1>2. /\ runqhead \in [P -> Word] /\ runqtail \in [P -> Word] /\ runnext \in [P -> G \cup {Nil}]
      /\ 0 \in Word
  BY <1>0, Consts DEF TypeOK, Word
<1>3. \A x \in P : /\ Gone(x)' = Gone(x) /\ Came(x)' = Came(x) /\ Gone(x) \in Nat /\ Came(x) \in Nat
                   /\ Gone(x) <= Came(x)
  BY <1>0, <1>1, Counts DEF Gone, Came, Ringed
<1>. DEFINE C == [at : {"out", "tail", "next", "again", "empty", "work"}, p : P \cup {Nil},
                  head : Word, tail : Word, next : G \cup {Nil}, calls : Nat]
<1>4. chk \in C
  BY DEF Checks
<1>5. ASSUME NEW x \in P, runqempty(x) PROVE Checks'
  <2>1. /\ chk' \in C /\ chk'.at = "tail" /\ chk'.p = x /\ chk'.head = runqhead[x]
    <3>1. chk.calls \in Nat /\ chk.calls > 0
      BY <1>4, <1>5 DEF runqempty
    <3>2. chk.calls - 1 \in Nat
      BY <3>1
    <3>3. chk' = [chk EXCEPT !.at = "tail", !.p = x, !.head = runqhead[x], !.calls = chk.calls - 1]
      BY <1>5 DEF runqempty
    <3>4. runqhead[x] \in Word
      BY <1>2
    <3>. QED
      BY <1>4, <3>2, <3>3, <3>4
  <2>2. Since(chk'.head) <= Since(runqhead'[chk'.p])
    BY <1>1, <1>3, <2>1 DEF Gone
  <2>. QED
    BY <2>1, <2>2 DEF Checks, Gone
<1>6. ASSUME emptyTail PROVE Checks'
  <2>0. chk.at = "tail" /\ q \in P /\ Since(chk.head) <= Gone(q)
    BY <1>6 DEF emptyTail, Checks
  <2>1. /\ chk' \in C /\ chk'.at = "next" /\ chk'.p = q /\ chk'.head = chk.head
        /\ chk'.tail = runqtail[q]
    BY <1>2, <1>4, <1>6, <2>0 DEF emptyTail
  <2>2. Since(chk'.head) <= Since(runqhead'[chk'.p]) /\ Since(chk'.tail) <= Since(runqtail'[chk'.p])
    BY <1>1, <1>3, <2>0, <2>1 DEF Gone, Came
  <2>. QED
    BY <2>0, <2>1, <2>2 DEF Checks, Gone, Came
<1>7. ASSUME emptyNext PROVE Checks'
  <2>0. chk.at = "next" /\ q \in P /\ Since(chk.head) <= Gone(q) /\ Since(chk.tail) <= Came(q)
    BY <1>7 DEF emptyNext, Checks
  <2>1. /\ chk' \in C /\ chk'.at = "again" /\ chk'.p = q /\ chk'.head = chk.head
        /\ chk'.tail = chk.tail /\ chk'.next = runnext[q]
    BY <1>2, <1>4, <1>7, <2>0 DEF emptyNext
  <2>2. Since(chk'.head) <= Since(runqhead'[chk'.p]) /\ Since(chk'.tail) <= Since(runqtail'[chk'.p])
    BY <1>1, <2>0, <2>1 DEF Gone, Came
  <2>3. ASSUME Verdict(chk') = "empty", chk'.tail = runqtail'[chk'.p] PROVE seen'
    <3>1. chk.head = chk.tail /\ runnext[q] = Nil /\ chk.tail = runqtail[q]
      BY <1>1, <2>1, <2>3 DEF Verdict
    <3>2. Came(q) <= Gone(q)
      BY <2>0, <3>1 DEF Came
    <3>3. Gone(q) = Came(q)
      BY <1>3, <2>0, <3>2
    <3>4. runqhead[q] = runqtail[q]
      <4>1. runqhead[q] \in Word /\ runqtail[q] \in Word
        BY <1>2, <2>0
      <4>. QED
        BY <3>3, <4>1, SinceSame DEF Gone, Came
    <3>5. chk'.p = q /\ q \in P /\ runqhead'[q] = runqtail'[q] /\ runnext'[q] = Nil
      BY <1>1, <2>0, <2>1, <3>1, <3>4
    <3>6. \E p \in P : chk'.p = p /\ Empty(p)'
      BY <3>5 DEF Empty
    <3>. QED
      BY <2>1, <3>6 DEF Seen
  <2>. QED
    BY <2>0, <2>1, <2>2, <2>3 DEF Checks, Gone, Came
<1>8. ASSUME emptyAgain PROVE Checks'
  <2>0. chk.at = "again" /\ q \in P /\ Since(chk.head) <= Gone(q) /\ Since(chk.tail) <= Came(q)
    BY <1>8 DEF emptyAgain, Checks
  <2>1. CASE chk.tail = runqtail[q]
    <3>1. chk' \in C /\ chk'.at = Verdict(chk) /\ chk'.p = q
      BY <1>4, <1>8, <2>1 DEF emptyAgain, Verdict
    <3>2. Verdict(chk) \in {"empty", "work"}
      BY DEF Verdict
    <3>3. ASSUME Verdict(chk) = "empty" PROVE seen'
      <4>1. seen
        BY <2>0, <2>1, <3>3 DEF Checks
      <4>. QED
        BY <3>1, <3>3, <4>1 DEF Seen
    <3>. QED
      BY <2>0, <3>1, <3>2, <3>3 DEF Checks
  <2>2. CASE chk.tail # runqtail[q]
    <3>1. chk' \in C /\ chk'.at = "tail" /\ chk'.p = q /\ chk'.head = runqhead[q]
      BY <1>2, <1>4, <1>8, <2>0, <2>2 DEF emptyAgain
    <3>2. Since(chk'.head) <= Since(runqhead'[chk'.p])
      BY <1>1, <1>3, <2>0, <3>1 DEF Gone
    <3>. QED
      BY <2>0, <3>1, <3>2 DEF Checks, Gone
  <2>. QED
    BY <2>1, <2>2
<1>9. ASSUME emptyReturn PROVE Checks'
  <2>1. chk' \in C /\ chk'.at = "out"
    BY <1>2, <1>4, <1>9 DEF emptyReturn, Idle
  <2>. QED
    BY <2>1 DEF Checks
<1>. QED
  BY <1>5, <1>6, <1>7, <1>8, <1>9 DEF Check

LEMMA NextStep ==
  ASSUME RunqInv, [Next]_vars
  PROVE  RunqInv'
<1>0. RingInv /\ Checks /\ TypeOK
  BY DEF RunqInv, RingInv
<1>1. ASSUME NEW p \in P, Run(p), Seen PROVE RunqInv'
  <2>1. RingInv' /\ (\A x \in P : Grows(x)) /\ chk' = chk
    BY <1>0, <1>1, RunStep, RunChk
  <2>2. TypeOK'
    BY <2>1 DEF RingInv
  <2>3. chk.at # "out" /\ seen => seen'
    BY <1>1, <2>1 DEF Seen
  <2>. QED
    BY <1>0, <2>1, <2>2, <2>3, ChecksKept DEF RunqInv
<1>2. ASSUME Check, Seen PROVE RunqInv'
  <2>1. Quiet' = Quiet
    BY <1>2 DEF Check, runqempty, emptyTail, emptyNext, emptyAgain, emptyReturn
  <2>. QED
    BY <1>0, <1>2, <2>1, QuietStep, CheckStep DEF RunqInv
<1>3. ASSUME UNCHANGED vars PROVE RunqInv'
  <2>1. Quiet' = Quiet /\ chk' = chk /\ seen' = seen /\ runqhead' = runqhead /\ runqtail' = runqtail
    BY <1>3 DEF vars, Quiet, ringVars, thiefVars, chkVars
  <2>2. Checks' <=> Checks
    BY <2>1 DEF Checks, Verdict, Gone, Came
  <2>. QED
    BY <1>0, <2>1, <2>2, QuietStep DEF RunqInv
<1>. QED
  BY <1>1, <1>2, <1>3 DEF Next, Seen

-----------------------------------------------------------------------------
(* The initial states.                                                     *)

LEMMA SlotBack ==
  ASSUME NEW k \in 0 .. Len256 - 1
  PROVE  Slot(Slot(Start + k) - Start) = k
<1>. DEFINE d == Len256
            a == Start + k
            r == a % d
            b == r - Start
<1>0. d \in Nat /\ d > 0 /\ a \in Int /\ k \in 0 .. d - 1 /\ Start \in Int
  BY Consts
<1>1. PICK z \in Int : a = d * z + r
  <2>. HIDE DEF a, d
  <2>. QED
    BY <1>0, ModParts
<1>2. r \in Int
  <2>. HIDE DEF a, d
  <2>. QED
    BY <1>0, ModParts
<1>. DEFINE y == -z
<1>3. b = d * y + k /\ y \in Int /\ b \in Int
  <2>1. d * (-z) = -(d * z) /\ d * z \in Int
    BY <1>0
  <2>2. Start + k = d * z + r
    BY <1>1
  <2>. HIDE DEF r
  <2>. QED
    BY <1>0, <1>2, <2>1, <2>2
<1>4. b % d = k
  <2>. HIDE DEF b, y, d
  <2>. QED
    BY <1>0, <1>3, ModUnique
<1>. QED
  BY <1>4 DEF Slot

LEMMA SinceStart == Start \in Word /\ Since(Start) = 0
<1>1. Wrap \in Nat /\ Wrap > 0 /\ Start \in 0 .. Wrap - 1
  BY Consts
<1>2. Start - Start = Wrap * 0 + 0 /\ 0 \in 0 .. Wrap - 1
  BY <1>1
<1>. QED
  BY <1>1, <1>2, ModUnique DEF Since, Sub, Word

LEMMA InitStep == Init => RunqInv
<1>. SUFFICES ASSUME Init PROVE RunqInv
  OBVIOUS
<1>1. PICK c \in Starts, B \in SUBSET P : \E p \in B :
       /\ Cardinality(B) = c.busy
       /\ waiting = G \ {c.queued[k] : k \in DOMAIN c.queued}
       /\ cur = [q \in P |-> IF q = p THEN Head(c.queued) ELSE Nil]
       /\ pc = [q \in P |-> IF q = p THEN "run" ELSE IF q \in B THEN "find" ELSE "idle"]
       /\ runqtail = [q \in P |-> IF q = p THEN Plus(Start, Len(c.queued) - 1) ELSE Start]
       /\ runq = [q \in P |-> [x \in 0 .. Len256 - 1 |->
                   LET k == Slot(x - Start) + 2
                   IN  IF q = p /\ k <= Len(c.queued) THEN c.queued[k] ELSE Nil]]
       /\ ready = c.ready /\ chk = [Idle EXCEPT !.calls = c.checks]
  BY DEF Init
<1>2. PICK p \in B :
       /\ waiting = G \ {c.queued[k] : k \in DOMAIN c.queued}
       /\ cur = [q \in P |-> IF q = p THEN Head(c.queued) ELSE Nil]
       /\ pc = [q \in P |-> IF q = p THEN "run" ELSE IF q \in B THEN "find" ELSE "idle"]
       /\ runqtail = [q \in P |-> IF q = p THEN Plus(Start, Len(c.queued) - 1) ELSE Start]
       /\ runq = [q \in P |-> [x \in 0 .. Len256 - 1 |->
                   LET k == Slot(x - Start) + 2
                   IN  IF q = p /\ k <= Len(c.queued) THEN c.queued[k] ELSE Nil]]
       /\ ready = c.ready /\ chk = [Idle EXCEPT !.calls = c.checks]
  BY <1>1
<1>. DEFINE s == c.queued
            m == Len(s)
            r == c.ready
<1>3. /\ s \in Seq(G) /\ m \in 1 .. Len256 + 1 /\ r \in Nat /\ c.checks \in Nat
      /\ \A k, l \in DOMAIN s : s[k] = s[l] => k = l
      /\ (m - 1 + r) * (Len256 \div 2) < Wrap
  BY RunqAssumption
<1>4. /\ runnext = [x \in P |-> Nil] /\ runqhead = [x \in P |-> Start] /\ sched_runq = <<>>
      /\ hand = [x \in P |-> <<>>] /\ p2 = [x \in P |-> x] /\ h = [x \in P |-> 0]
      /\ n = [x \in P |-> 0] /\ i = [x \in P |-> 0] /\ ~throw
  BY DEF Init
<1>5. /\ p \in P /\ Len256 \in Nat /\ Half \in Nat /\ Half > 0 /\ Wrap \in Nat /\ Nil \notin G
      /\ Half + Half = Len256 /\ Half = Len256 \div 2 /\ Start \in Int
  BY Consts DEF Half
<1>6. /\ DOMAIN s = 1 .. m /\ m \in Nat /\ m >= 1 /\ Head(s) = s[1] /\ \A k \in 1 .. m : s[k] \in G
  BY <1>3, <1>5
<1>7. cur = [q \in P |-> IF q = p THEN s[1] ELSE Nil] /\ waiting = G \ {s[k] : k \in 1 .. m}
  BY <1>2, <1>6
<1>8. /\ runqtail = [q \in P |-> IF q = p THEN Plus(Start, m - 1) ELSE Start]
      /\ pc = [q \in P |-> IF q = p THEN "run" ELSE IF q \in B THEN "find" ELSE "idle"]
      /\ ready = r /\ chk = [Idle EXCEPT !.calls = c.checks]
  BY <1>2
<1>9. runq = [q \in P |-> [x \in 0 .. Len256 - 1 |->
                   IF q = p /\ Slot(x - Start) + 2 <= m THEN s[Slot(x - Start) + 2] ELSE Nil]]
  BY <1>2
<1>10. (m - 1 + r) * Half < Wrap
  BY <1>3, <1>5
<1>. HIDE DEF s, m, r
<1>11. m - 1 \in Nat /\ m - 1 < Wrap /\ (m - 1) + r + (m - 1 + r) * (Half - 1) < Wrap
  <2>. DEFINE a == m - 1 + r
              b == Half - 1
  <2>1. a \in Nat /\ b \in Nat /\ m - 1 \in Nat /\ m - 1 <= a /\ b + 1 = Half
    BY <1>3, <1>5, <1>6
  <2>2. a * (b + 1) < Wrap
    BY <1>10, <2>1
  <2>. HIDE DEF a, b
  <2>3. a * (b + 1) = a + a * b /\ a * b \in Nat
    BY <2>1
  <2>4. a + a * b < Wrap /\ a < Wrap
    BY <1>5, <2>1, <2>2, <2>3
  <2>. QED
    BY <1>5, <2>1, <2>4 DEF a, b
<1>12. Plus(Start, m - 1) \in Word /\ Since(Plus(Start, m - 1)) = m - 1
  <2>1. 0 + (m - 1) < Wrap /\ 0 + (m - 1) = m - 1
    BY <1>11
  <2>. QED
    BY <1>11, <2>1, SinceStart, SincePlus
<1>13. \A x \in P : Gone(x) = 0 /\ Came(x) = IF x = p THEN m - 1 ELSE 0
  BY <1>4, <1>5, <1>8, <1>12, SinceStart DEF Gone, Came
<1>14. ASSUME NEW k \in 0 .. m - 2 PROVE At(p, k) = s[k + 2] /\ k + 2 \in 1 .. m
  <2>1. k \in 0 .. Len256 - 1 /\ k + 2 \in 1 .. m /\ k + 2 <= m
    BY <1>3, <1>5, <1>6
  <2>2. Slot(Start + k) \in 0 .. Len256 - 1
    BY <1>5, <2>1, SlotType
  <2>3. Slot(Slot(Start + k) - Start) = k
    BY <2>1, SlotBack
  <2>. QED
    BY <1>5, <1>9, <2>1, <2>2, <2>3 DEF At
<1>15. TypeOK
  <2>1. Start \in Word /\ 0 \in Word
    BY SinceStart, Consts DEF Word
  <2>2. runqhead \in [P -> Word] /\ runqtail \in [P -> Word] /\ h \in [P -> Word]
    BY <1>4, <1>8, <1>12, <2>1
  <2>3. ASSUME NEW x \in 0 .. Len256 - 1, Slot(x - Start) + 2 <= m PROVE s[Slot(x - Start) + 2] \in G
    <3>1. Slot(x - Start) \in 0 .. Len256 - 1
      BY <1>5, SlotType
    <3>2. Slot(x - Start) + 2 \in 1 .. m
      BY <1>5, <1>6, <2>3, <3>1
    <3>. QED
      BY <1>6, <3>2
  <2>4. runq \in [P -> [0 .. Len256 - 1 -> G \cup {Nil}]]
    BY <1>9, <2>3
  <2>5. cur \in [P -> G \cup {Nil}] /\ waiting \in SUBSET G
    <3>1. 1 \in 1 .. m
      BY <1>6
    <3>. QED
      BY <1>6, <1>7, <3>1
  <2>6. pc \in [P -> PC] /\ ready \in Nat
    BY <1>3, <1>8 DEF PC
  <2>7. /\ runnext \in [P -> G \cup {Nil}] /\ sched_runq \in Seq(G) /\ hand \in [P -> Seq(G)]
        /\ p2 \in [P -> P] /\ n \in [P -> Nat] /\ i \in [P -> Nat]
    BY <1>4
  <2>. QED
    BY <1>4, <2>2, <2>4, <2>5, <2>6, <2>7 DEF TypeOK
<1>16. Lists
  BY <1>4, HasNone DEF Lists
<1>17. \A x \in P : Ringed(x)
  <2>1. Ringed(p)
    <3>1. Gone(p) = 0 /\ Came(p) = m - 1 /\ pc[p] = "run"
      BY <1>5, <1>8, <1>13
    <3>2. \A k : k \in Gone(p) .. Came(p) - 1 => k \in 0 .. m - 2
      BY <1>6, <3>1
    <3>3. \A k \in Gone(p) .. Came(p) - 1 : At(p, k) \in G
      BY <1>6, <1>14, <3>2
    <3>4. ASSUME NEW k \in Gone(p) .. Came(p) - 1, NEW l \in Gone(p) .. Came(p) - 1, At(p, k) = At(p, l)
          PROVE  k = l
      <4>1. k + 2 = l + 2
        BY <1>3, <1>6, <1>14, <3>2, <3>4
      <4>. QED
        BY <3>2, <4>1
    <3>5. Gone(p) <= Came(p) /\ Came(p) <= Gone(p) + Len256
      BY <1>3, <1>5, <1>6, <3>1
    <3>. QED
      BY <3>1, <3>3, <3>4, <3>5 DEF Ringed, Dry
  <2>2. ASSUME NEW x \in P \ {p} PROVE Ringed(x)
    <3>1. Gone(x) = 0 /\ Came(x) = 0
      BY <1>13
    <3>2. \A k : k \notin Gone(x) .. Came(x) - 1
      BY <3>1
    <3>. QED
      BY <1>5, <3>1, <3>2 DEF Ringed
  <2>. QED
    BY <2>1, <2>2
<1>18. \A x \in P : Hands(x) /\ Thief(x)
  <2>1. s[1] \in G
    BY <1>6
  <2>2. ASSUME NEW x \in P PROVE hand[x] = <<>> /\ pc[x] \in {"run", "find", "idle"} /\ (pc[x] = "run" <=> cur[x] # Nil)
    BY <1>4, <1>5, <1>7, <1>8, <2>1
  <2>. QED
    BY <2>2 DEF Hands, Thief, Busy, EmptyHand
<1>19. Homes
  <2>1. \A x \in P : \A g : runnext[x] # g \/ g = Nil
    BY <1>4
  <2>2. \A g : ~Has(sched_runq, g) /\ \A x \in P : ~Has(hand[x], g)
    BY <1>4, HasNone
  <2>3. \A x \in P \ {p} : \A g : ~InRing(x, g)
    <3>1. \A x \in P \ {p} : \A k : k \notin Gone(x) .. Came(x) - 1
      BY <1>13
    <3>. QED
      BY <3>1 DEF InRing
  <2>4. ASSUME NEW g PROVE InRing(p, g) <=> \E k \in 2 .. m : s[k] = g
    <3>1. InRing(p, g) <=> \E k \in 0 .. m - 2 : At(p, k) = g
      <4>1. Gone(p) .. Came(p) - 1 = 0 .. m - 2
        BY <1>5, <1>6, <1>13
      <4>. QED
        BY <4>1 DEF InRing
    <3>2. ASSUME NEW k \in 0 .. m - 2, At(p, k) = g PROVE \E l \in 2 .. m : s[l] = g
      <4>1. k + 2 \in 2 .. m /\ s[k + 2] = g
        BY <1>6, <1>14, <3>2
      <4>. QED
        BY <4>1
    <3>3. ASSUME NEW l \in 2 .. m, s[l] = g PROVE \E k \in 0 .. m - 2 : At(p, k) = g
      <4>1. l - 2 \in 0 .. m - 2 /\ (l - 2) + 2 = l
        BY <1>6
      <4>2. At(p, l - 2) = g
        BY <1>14, <3>3, <4>1
      <4>. QED
        BY <4>1, <4>2
    <3>. QED
      BY <3>1, <3>2, <3>3
  <2>5. ASSUME NEW g \in G PROVE Home(g)
    <3>1. \A x \in P : cur[x] = g <=> x = p /\ s[1] = g
      BY <1>5, <1>7
    <3>2. g \in waiting <=> ~\E k \in 1 .. m : s[k] = g
      BY <1>7
    <3>3. \A kind, x : In(kind, x, g) <=>
             \/ kind = "waiting" /\ x = Nil /\ ~\E k \in 1 .. m : s[k] = g
             \/ kind = "cur" /\ x = p /\ s[1] = g
             \/ kind = "runq" /\ x = p /\ \E k \in 2 .. m : s[k] = g
      BY <1>5, <2>1, <2>2, <2>3, <2>4, <3>1, <3>2 DEF In
    <3>4. CASE ~\E k \in 1 .. m : s[k] = g
      <4>1. s[1] # g /\ ~\E k \in 2 .. m : s[k] = g
        BY <1>6, <3>4
      <4>2. Only("waiting", Nil, g)
        BY <3>3, <3>4, <4>1 DEF Only
      <4>. QED
        BY <4>2 DEF Home
    <3>5. CASE s[1] = g
      <4>1. (\E k \in 1 .. m : s[k] = g) /\ ~\E k \in 2 .. m : s[k] = g
        BY <1>3, <1>6, <3>5
      <4>2. Only("cur", p, g)
        BY <3>3, <3>5, <4>1 DEF Only
      <4>. QED
        BY <4>2 DEF Home
    <3>6. CASE s[1] # g /\ \E k \in 1 .. m : s[k] = g
      <4>1. \E k \in 2 .. m : s[k] = g
        <5>1. PICK k \in 1 .. m : s[k] = g
          BY <3>6
        <5>2. k # 1
          BY <3>6, <5>1
        <5>3. k \in 2 .. m
          BY <1>6, <5>2
        <5>. QED
          BY <5>1, <5>3
      <4>2. Only("runq", p, g)
        BY <3>3, <3>6, <4>1 DEF Only
      <4>. QED
        BY <4>2 DEF Home
    <3>. QED
      BY <3>4, <3>5, <3>6
  <2>. QED
    BY <2>5 DEF Homes
<1>20. NoLap
  <2>. DEFINE T == {s[k] : k \in 2 .. m}
              f == [k \in 2 .. m |-> s[k]]
  <2>1. IsFiniteSet(T) /\ Cardinality(T) <= m - 1
    <3>1. IsFiniteSet(2 .. m) /\ Cardinality(2 .. m) = m - 1
      <4>1. 2 \in Int /\ m \in Int /\ m >= 1
        BY <1>6
      <4>. QED
        BY <4>1, FS_Interval
    <3>2. f \in Surjection(2 .. m, T)
      BY DEF Surjection
    <3>. HIDE DEF f, T
    <3>. QED
      BY <3>1, <3>2, FS_Surjection
  <2>2. Queued \subseteq T
    <3>. SUFFICES ASSUME NEW g \in Queued PROVE g \in T
      OBVIOUS
    <3>1. PICK k \in 1 .. m : s[k] = g
      BY <1>7 DEF Queued
    <3>2. k # 1
      BY <1>5, <1>7, <3>1 DEF Queued
    <3>3. k \in 2 .. m
      BY <1>6, <3>2
    <3>. QED
      BY <3>1, <3>3
  <2>. HIDE DEF T
  <2>3. IsFiniteSet(Queued) /\ Cardinality(Queued) <= Cardinality(T)
    BY <2>1, <2>2, FS_Subset
  <2>. DEFINE d == Cardinality(Queued)
  <2>4. d \in Nat /\ d <= m - 1
    <3>1. Cardinality(Queued) \in Nat /\ Cardinality(T) \in Nat
      BY <2>1, <2>3, FS_CardinalityType
    <3>. QED
      BY <1>6, <2>1, <2>3, <3>1
  <2>5. (d + r) * (Half - 1) <= (m - 1 + r) * (Half - 1)
    <3>. DEFINE a == d + r
                b == m - 1 + r
                z == b - a
                y == Half - 1
    <3>1. a \in Nat /\ b \in Nat /\ z \in Nat /\ y \in Nat
      <4>. HIDE DEF d
      <4>. QED
        BY <1>3, <1>5, <1>6, <2>4
    <3>2. b * y = a * y + z * y
      <4>1. b = a + z
        BY <3>1
      <4>. HIDE DEF a, b, y, z
      <4>. QED
        BY <3>1, <4>1
    <3>3. z * y \in Nat /\ a * y \in Nat
      <4>. HIDE DEF a, b, y, z
      <4>. QED
        BY <3>1
    <3>4. a * y <= b * y
      <4>. HIDE DEF a, b, y, z
      <4>. QED
        BY <3>2, <3>3
    <3>. QED
      BY <3>4
  <2>6. (d + r) * (Half - 1) \in Nat /\ (m - 1 + r) * (Half - 1) \in Nat
    <3>. HIDE DEF d
    <3>. QED
      BY <1>3, <1>5, <1>6, <2>4
  <2>7. ASSUME NEW x \in P PROVE Lap(x) < Wrap
    <3>1. Pend(x) = 0 /\ Came(x) \in Nat /\ Came(x) <= m - 1
      <4>1. Pend(x) = 0
        BY <1>8 DEF Pend
      <4>2. Came(x) \in {m - 1, 0}
        BY <1>13
      <4>. QED
        BY <1>6, <4>1, <4>2
    <3>2. Lap(x) = Came(x) + 0 + r + (d + r) * (Half - 1)
      BY <1>8, <3>1 DEF Lap
    <3>. HIDE DEF d
    <3>. QED
      BY <1>3, <1>5, <1>6, <1>11, <2>5, <2>6, <3>1, <3>2
  <2>. QED
    BY <2>3, <2>7 DEF NoLap
<1>21. Checks
  <2>1. 0 \in Word
    BY Consts DEF Word
  <2>. QED
    BY <1>3, <1>8, <2>1 DEF Checks, Idle
<1>. QED
  BY <1>15, <1>16, <1>17, <1>18, <1>19, <1>20, <1>21 DEF RunqInv, RingInv

-----------------------------------------------------------------------------
(* The theorems.                                                           *)

Spots(s, g) == {k \in DOMAIN s : s[k] = g}

LEMMA SpotsOf ==
  ASSUME NEW s, NEW g
  PROVE  /\ ~Has(s, g) => Spots(s, g) = {}
         /\ Has(s, g) /\ NoDup(s) => \E k : Spots(s, g) = {k}
<1>1. ~Has(s, g) => Spots(s, g) = {}
  BY DEF Has, Spots
<1>2. ASSUME Has(s, g), NoDup(s) PROVE \E k : Spots(s, g) = {k}
  <2>1. PICK k \in DOMAIN s : s[k] = g
    BY <1>2 DEF Has
  <2>2. Spots(s, g) = {k}
    BY <1>2, <2>1 DEF NoDup, Spots
  <2>. QED
    BY <2>2
<1>. QED
  BY <1>1, <1>2

\* A goroutine is in one place, and there once.
LEMMA PlacesOne ==
  ASSUME RingInv, NEW g \in G
  PROVE  \E z : Places(g) = {z}
<1>. DEFINE S1 == IF g \in waiting THEN {<<"waiting">>} ELSE {}
            S2 == {<<"global", k>> : k \in Spots(sched_runq, g)}
            S3 == {<<"runnext", p>> : p \in Spots(runnext, g)}
            S4 == {<<"cur", p>> : p \in Spots(cur, g)}
            R(p) == {<<"runq", p, k>> : k \in Spots(Ring(p), g)}
            S5 == UNION {R(p) : p \in P}
            D(p) == {<<"hand", p, k>> : k \in Spots(hand[p], g)}
            S6 == UNION {D(p) : p \in P}
<1>1. Places(g) = S1 \cup S2 \cup S3 \cup S4 \cup S5 \cup S6
  BY DEF Places, Spots
<1>2. TypeOK /\ Lists /\ Homes /\ Nil \notin G /\ \A p \in P : Ringed(p)
  BY Consts DEF RingInv
<1>3. DOMAIN runnext = P /\ DOMAIN cur = P
  BY <1>2 DEF TypeOK
<1>4. \A p \in P : NoDup(Ring(p)) /\ (Has(Ring(p), g) <=> InRing(p, g))
  BY <1>2, RingIs
<1>5. NoDup(sched_runq) /\ \A p \in P : NoDup(hand[p])
  BY <1>2 DEF Lists
<1>6. PICK kind, x : Only(kind, x, g)
  BY <1>2 DEF Homes, Home
<1>7. In(kind, x, g) /\ \A other, y : In(other, y, g) => other = kind /\ y = x
  BY <1>6 DEF Only
\* The sets that are empty.
<1>8. S1 # {} => kind = "waiting"
  <2>. SUFFICES ASSUME g \in waiting PROVE kind = "waiting"
    OBVIOUS
  <2>1. In("waiting", Nil, g)
    BY DEF In
  <2>. QED
    BY <1>7, <2>1
<1>9. S2 # {} => kind = "global"
  <2>. SUFFICES ASSUME Has(sched_runq, g) PROVE kind = "global"
    BY SpotsOf
  <2>1. In("global", Nil, g)
    BY DEF In
  <2>. QED
    BY <1>7, <2>1
<1>10. ASSUME NEW p \in Spots(runnext, g) PROVE kind = "runnext" /\ p = x
  <2>1. In("runnext", p, g)
    BY <1>3 DEF In, Spots
  <2>. QED
    BY <1>7, <2>1
<1>11. ASSUME NEW p \in Spots(cur, g) PROVE kind = "cur" /\ p = x
  <2>1. In("cur", p, g)
    BY <1>3 DEF In, Spots
  <2>. QED
    BY <1>7, <2>1
<1>12. ASSUME NEW p \in P, R(p) # {} PROVE kind = "runq" /\ p = x
  <2>1. InRing(p, g)
    BY <1>4, <1>12, SpotsOf
  <2>2. In("runq", p, g)
    BY <2>1 DEF In
  <2>. QED
    BY <1>7, <2>2
<1>13. ASSUME NEW p \in P, D(p) # {} PROVE kind = "hand" /\ p = x
  <2>1. Has(hand[p], g)
    BY <1>13, SpotsOf
  <2>2. In("hand", p, g)
    BY <2>1 DEF In
  <2>. QED
    BY <1>7, <2>2
<1>14. S3 # {} => kind = "runnext"
  BY <1>10
<1>15. S4 # {} => kind = "cur"
  BY <1>11
<1>16. S5 # {} => kind = "runq"
  <2>. HIDE DEF R
  <2>. QED
    BY <1>12
<1>17. S6 # {} => kind = "hand"
  <2>. HIDE DEF D
  <2>. QED
    BY <1>13
\* The one that is not.
<1>18. CASE kind = "waiting"
  <2>1. S1 = {<<"waiting">>}
    BY <1>7, <1>18 DEF In
  <2>. HIDE DEF S1, S2, S3, S4, S5, S6
  <2>2. Places(g) = S1
    BY <1>1, <1>9, <1>14, <1>15, <1>16, <1>17, <1>18
  <2>. QED
    BY <2>1, <2>2
<1>19. CASE kind = "global"
  <2>1. Has(sched_runq, g)
    BY <1>7, <1>19 DEF In
  <2>2. PICK k : Spots(sched_runq, g) = {k}
    BY <1>5, <2>1, SpotsOf
  <2>3. S2 = {<<"global", k>>}
    BY <2>2
  <2>. HIDE DEF S1, S2, S3, S4, S5, S6
  <2>4. Places(g) = S2
    BY <1>1, <1>8, <1>14, <1>15, <1>16, <1>17, <1>19
  <2>. QED
    BY <2>3, <2>4
<1>20. CASE kind = "runnext"
  <2>1. x \in Spots(runnext, g)
    BY <1>3, <1>7, <1>20 DEF In, Spots
  <2>2. Spots(runnext, g) = {x}
    BY <1>10, <2>1
  <2>3. S3 = {<<"runnext", x>>}
    BY <2>2
  <2>. HIDE DEF S1, S2, S3, S4, S5, S6
  <2>4. Places(g) = S3
    BY <1>1, <1>8, <1>9, <1>15, <1>16, <1>17, <1>20
  <2>. QED
    BY <2>3, <2>4
<1>21. CASE kind = "cur"
  <2>1. x \in Spots(cur, g)
    BY <1>3, <1>7, <1>21 DEF In, Spots
  <2>2. Spots(cur, g) = {x}
    BY <1>11, <2>1
  <2>3. S4 = {<<"cur", x>>}
    BY <2>2
  <2>. HIDE DEF S1, S2, S3, S4, S5, S6
  <2>4. Places(g) = S4
    BY <1>1, <1>8, <1>9, <1>14, <1>16, <1>17, <1>21
  <2>. QED
    BY <2>3, <2>4
<1>22. CASE kind = "runq"
  <2>1. x \in P /\ InRing(x, g)
    BY <1>7, <1>22 DEF In
  <2>2. PICK k : Spots(Ring(x), g) = {k}
    BY <1>4, <2>1, SpotsOf
  <2>3. R(x) = {<<"runq", x, k>>}
    BY <2>2
  <2>4. S5 = R(x)
    <3>. HIDE DEF R
    <3>. QED
      BY <1>12, <2>1
  <2>. HIDE DEF S1, S2, S3, S4, S5, S6, R
  <2>5. Places(g) = S5
    BY <1>1, <1>8, <1>9, <1>14, <1>15, <1>17, <1>22
  <2>. QED
    BY <2>3, <2>4, <2>5
<1>23. CASE kind = "hand"
  <2>1. x \in P /\ Has(hand[x], g)
    BY <1>7, <1>23 DEF In
  <2>2. PICK k : Spots(hand[x], g) = {k}
    BY <1>5, <2>1, SpotsOf
  <2>3. D(x) = {<<"hand", x, k>>}
    BY <2>2
  <2>4. S6 = D(x)
    <3>. HIDE DEF D
    <3>. QED
      BY <1>13, <2>1
  <2>. HIDE DEF S1, S2, S3, S4, S5, S6, D
  <2>5. Places(g) = S6
    BY <1>1, <1>8, <1>9, <1>14, <1>15, <1>16, <1>23
  <2>. QED
    BY <2>3, <2>4, <2>5
<1>24. kind \in {"waiting", "global", "runnext", "cur", "runq", "hand"}
  BY <1>7 DEF In
<1>. QED
  BY <1>18, <1>19, <1>20, <1>21, <1>22, <1>23, <1>24

\* The rings, the hands of the Ps that move goroutines, the loads of thieves and of
\* runqempty stay as described above, whoever puts, gets and steals.
THEOREM RunqInvariant == Spec => []RunqInv
<1>1. Init => RunqInv
  BY InitStep
<1>2. RunqInv /\ [Next]_vars => RunqInv'
  BY NextStep
<1>. QED
  BY <1>1, <1>2, PTL DEF Spec

\* runqput, runqget, runqsteal and the others neither lose a goroutine nor have it
\* twice, and none of the throws of proc.go is reached, for any number of Ps.
THEOREM EachOnceCorrect == Spec => []EachOnce
<1>1. RunqInv => EachOnce
  <2>. SUFFICES ASSUME RunqInv PROVE EachOnce
    OBVIOUS
  <2>1. RingInv /\ ~throw
    BY DEF RunqInv, RingInv, TypeOK
  <2>2. ASSUME NEW g \in G PROVE Cardinality(Places(g)) = 1
    <3>1. PICK z : Places(g) = {z}
      BY <2>1, PlacesOne
    <3>. QED
      BY <3>1, FS_Singleton
  <2>. QED
    BY <2>1, <2>2 DEF EachOnce
<1>. QED
  BY <1>1, RunqInvariant, PTL

\* When runqempty says that a queue is empty, it was so at one moment of the call.
THEOREM EmptyJustifiedCorrect == Spec => []EmptyJustified
<1>1. RunqInv => EmptyJustified
  BY DEF RunqInv, Checks, EmptyJustified
<1>. QED
  BY <1>1, RunqInvariant, PTL

=============================================================================
