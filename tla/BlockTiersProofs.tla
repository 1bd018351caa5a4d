--------------------------- MODULE BlockTiersProofs ---------------------------
(***************************************************************************)
(* For any number of blocks and of slots in each tier, and any number of   *)
(* failing reads and writes: no slot is shared, none is lost but to an id  *)
(* a failed write concerned, the active copy of any other block is what it *)
(* last left the GPU with, and what its resident slot holds is its own.    *)
(***************************************************************************)
EXTENDS BlockTiers, SequenceTheorems, FiniteSetTheorems, WellFoundedInduction, TLAPS

-----------------------------------------------------------------------------
(* The inductive invariant                                                  *)

Bytes == Nat \X Nat
Block == [n : Nat, tier : {"GPU", "CPU", "SSD"}, gpu : 0 .. GpuSlots, cpu : 0 .. CpuSlots,
          nvme : 0 .. NvmeSlots, clean : BOOLEAN, v : Nat, kept : Bytes, older : BOOLEAN]

\* A tier of n slots: its table gives each block a slot of its own, and its
\* recency list names each of those blocks once.
TierOK(t, n) ==
    /\ t = Tier(t.map, t.lru, t.bytes)
    /\ t.map \in [DOMAIN t.map -> 1 .. n] /\ DOMAIN t.map \subseteq Nat \ {0}
    /\ Injective(t.map)
    /\ t.lru \in Seq(Nat) /\ Injective(t.lru) /\ Listed(t.lru) = DOMAIN t.map
    /\ t.bytes \in [1 .. n -> Bytes]

\* Bytes of block b, or of no block; and bytes that are the newest of the
\* block r unless an older copy of it was read ahead past a newer one.
Belongs(x, b) == x = NoBytes \/ x[1] = b
Current(x, b, r) == x = NoBytes \/ (x[1] = b /\ (r.older \/ x[2] \in {0, r.v}))

Marked(st) == \A b \in DOMAIN st :
    /\ st[b].gpu # 0 <=> st[b].tier = "GPU"
    /\ st[b].tier = "SSD" => st[b].cpu = 0

\* What a block outside sp left the GPU with.
KeptOK(st, sp) == \A b \in DOMAIN st \ sp : st[b].gpu = 0 => Current(st[b].kept, b, st[b])

\* What the NVMe table nv and the pinned table c say of the blocks st, sp being
\* the ids a failed write concerned.  A block may name an NVMe slot it lost; the
\* table never names one the block forgot.
Backing(st, nv, b) ==
    /\ b \in DOMAIN st /\ st[b].nvme = nv.map[b]
    /\ Belongs(nv.bytes[nv.map[b]], b)
    /\ st[b].tier = "SSD" => nv.bytes[nv.map[b]] = st[b].kept
    /\ st[b].tier = "CPU" => st[b].cpu # 0
Backings(st, nv, sp) == \A b \in DOMAIN nv.map \ sp : Backing(st, nv, b)
Pinned(st, c, b) ==
    /\ b \in DOMAIN st /\ st[b].cpu # 0
    /\ Belongs(c.bytes[c.map[b]], b)
    /\ st[b].tier = "CPU" => c.bytes[c.map[b]] = st[b].kept
Pins(st, c, sp) == \A b \in DOMAIN c.map \ sp : Pinned(st, c, b)
\* The blocks outside lost that say they have a pinned copy have it.
Named(st, c, lost) == \A b \in DOMAIN st \ lost :
    st[b].cpu # 0 => b \in DOMAIN c.map /\ c.map[b] = st[b].cpu

\* The GPU slots: each is free, queued to be freed, or held by one block of st.
OnGpu(st) == {b \in DOMAIN st : st[b].gpu # 0}
GpuOK(st, fr, queued) ==
    /\ fr \subseteq 1 .. GpuSlots /\ queued \subseteq 1 .. GpuSlots /\ fr \cap queued = {}
    /\ \A b \in OnGpu(st) : st[b].gpu \in 1 .. GpuSlots \ (fr \cup queued)
    /\ \A b, c \in OnGpu(st) : st[b].gpu = st[c].gpu => b = c
    /\ \A k \in 1 .. GpuSlots : k \in fr \/ k \in queued \/ \E b \in OnGpu(st) : st[b].gpu = k
HeldOK(st, g, sp) == \A b \in OnGpu(st) \ sp : Current(g[st[b].gpu], b, st[b])

\* A plan under way is about blocks that exist; what was read ahead is theirs,
\* and what they left the GPU with unless a newer pinned copy was passed over.
ReadAhead(st, pl, b) ==
    /\ Belongs(pl.prefetch[b], b)
    /\ b \in pl.in => st[b].older \/ pl.prefetch[b] \in {NoBytes, st[b].kept}
PlanOK(st, pl, ph, sp) ==
    /\ ph \in {"idle", "prepared"} => pl.frees = {}
    /\ ph \in {"prepared", "spilled"} =>
        /\ pl.in \subseteq DOMAIN st \ OnGpu(st) /\ pl.out \subseteq OnGpu(st)
        /\ \A b \in DOMAIN pl.prefetch :
              /\ b \in DOMAIN st /\ pl.prefetch[b] \in Bytes
              /\ b \notin sp => ReadAhead(st, pl, b)

\* The ids that may name a pinned copy they do not have.
Lost(ph, sp) == IF ph = "stuck" THEN sp ELSE {}

TablesOK(st, c, nv, sp) ==
    /\ st \in Seq(Block) /\ TierOK(c, CpuSlots) /\ TierOK(nv, NvmeSlots)
    /\ Marked(st) /\ KeptOK(st, sp) /\ Backings(st, nv, sp) /\ Pins(st, c, sp)
BlocksOK(st, c, nv, sp, lost) == TablesOK(st, c, nv, sp) /\ Named(st, c, lost)

TiersInv ==
    /\ gpu \in [1 .. GpuSlots -> Bytes] /\ version \in Nat
    /\ phase \in {"idle", "prepared", "spilled", "stuck"}
    /\ DOMAIN plan = {"in", "out", "selected", "prefetch", "frees"}
    /\ BlocksOK(store, cpu, nvme, spoiled, Lost(phase, spoiled))
    /\ PlanOK(store, plan, phase, spoiled)
    /\ GpuOK(store, free, plan.frees)
    /\ HeldOK(store, gpu, spoiled)

-----------------------------------------------------------------------------
(* Recency lists                                                            *)

LEMMA LeastNat ==
    ASSUME NEW S \in SUBSET Nat, S # {}
    PROVE  \E m \in S : \A k \in S : m <= k
<1> DEFINE R == OpToRel(<, Nat)
<1>1. IsWellFoundedOn(R, Nat)
  BY NatLessThanWellFounded
<1>2. \E m \in S : \A k \in S : <<k, m>> \notin R
  <2> HIDE DEF R
  <2> QED BY <1>1, WFMin
<1>3. PICK m \in S : \A k \in S : <<k, m>> \notin R
  BY <1>2
<1>4. ASSUME NEW k \in S PROVE m <= k
  <2>1. m \in Nat /\ k \in Nat
    OBVIOUS
  <2>2. ~ (k < m)
    BY <1>3, <2>1 DEF OpToRel
  <2> QED BY <2>1, <2>2
<1> QED BY <1>4

\* A list without repetitions, longer by an element it does not have.
LEMMA Longer ==
    ASSUME NEW s \in Seq(Nat), Injective(s), NEW b \in Nat, b \notin Listed(s)
    PROVE  /\ Append(s, b) \in Seq(Nat) /\ Injective(Append(s, b))
           /\ Listed(Append(s, b)) = Listed(s) \cup {b}
<1> DEFINE a == Append(s, b)
<1>1. a \in Seq(Nat) /\ Len(s) \in Nat /\ DOMAIN s = 1 .. Len(s) /\ DOMAIN a = 1 .. Len(s) + 1
  OBVIOUS
<1>2. \A i \in 1 .. Len(s) : a[i] = s[i]
  OBVIOUS
<1>3. a[Len(s) + 1] = b
  OBVIOUS
<1>4. DOMAIN a = DOMAIN s \cup {Len(s) + 1}
  BY <1>1
<1> HIDE DEF a
<1>5. Listed(a) = Listed(s) \cup {b}
  BY <1>1, <1>2, <1>3, <1>4 DEF Listed
<1>6. Injective(a)
  BY <1>1, <1>2, <1>3, <1>4 DEF Injective, Listed
<1> QED BY <1>1, <1>5, <1>6 DEF a

\* What is left of a recency list: still without repetitions, exactly the
\* blocks that were not taken out.
LEMMA WithoutFacts ==
  ASSUME NEW s \in Seq(Nat), Injective(s), NEW S
  PROVE  /\ Without(s, S) \in Seq(Nat) /\ Injective(Without(s, S))
         /\ Listed(Without(s, S)) = Listed(s) \ S
  <1> DEFINE n == Len(s)
             step(f, i) == IF i = 0 THEN <<>>
                           ELSE IF s[i] \in S THEN f[i - 1] ELSE Append(f[i - 1], s[i])
             is(m, f) == f = [i \in 0 .. m |-> step(f, i)]
             upTo == CHOOSE f : is(n, f)
  <1>1. n \in Nat /\ DOMAIN s = 1 .. n /\ \A i \in 1 .. n : s[i] \in Nat
    OBVIOUS
  <1>2. Without(s, S) = upTo[n]
    BY Zenon DEF Without
  <1> HIDE DEF n
  <1>3. \A m \in 0 .. n : \E f : is(m, f)
    <2> DEFINE bad == {m \in 0 .. n : ~\E f : is(m, f)}
    <2> SUFFICES ASSUME bad # {} PROVE FALSE
      OBVIOUS
    <2>1. bad \in SUBSET Nat
      BY <1>1
    <2>2. PICK m \in bad : \A k \in bad : m <= k
      <3> HIDE DEF bad
      <3> QED
        BY <2>1, LeastNat
    <2>3. CASE m = 0
      <3>1. is(0, [i \in 0 .. 0 |-> <<>>])
        OBVIOUS
      <3> QED
        BY <2>2, <2>3, <3>1
    <2>4. CASE m # 0
      <3>1. m - 1 \in 0 .. n /\ ~(m <= m - 1) /\ m \in Nat
        BY <1>1, <2>2, <2>4
      <3>2. PICK f : is(m - 1, f)
        BY <2>2, <3>1
      <3> DEFINE g == [i \in 0 .. m |-> IF i < m THEN f[i] ELSE step(f, m)]
      <3>3. ASSUME NEW i \in 0 .. m PROVE g[i] = step(g, i)
        <4>1. CASE i = m
          BY <3>1, <4>1, <2>4
        <4>2. CASE i # m
          <5>1. i \in 0 .. m - 1 /\ i < m /\ (i # 0 => i - 1 \in 0 .. m /\ i - 1 < m)
            BY <3>1, <4>2
          <5>2. f[i] = step(f, i)
            BY <3>2, <5>1
          <5> QED
            BY <5>1, <5>2
        <4> QED
          BY <4>1, <4>2
      <3>4. is(m, g)
        <4> HIDE DEF step
        <4>1. g = [i \in 0 .. m |-> g[i]]
          OBVIOUS
        <4> HIDE DEF g
        <4> QED
          BY <3>3, <4>1
      <3> QED
        BY <2>2, <3>4
    <2> QED
      BY <2>3, <2>4
  <1>4. is(n, upTo)
    <2> HIDE DEF is
    <2>1. n \in 0 .. n
      BY <1>1
    <2>2. \E f : is(n, f)
      BY <1>3, <2>1
    <2> QED
      BY <2>2
  <1> HIDE DEF upTo
  <1>5. \A i \in 0 .. n : upTo[i] = step(upTo, i)
    BY <1>4
  <1> DEFINE seen(i) == {s[j] : j \in 1 .. i}
             good(i) == /\ upTo[i] \in Seq(Nat) /\ Injective(upTo[i])
                        /\ Listed(upTo[i]) = seen(i) \ S
  <1>6. \A i \in 0 .. n : good(i)
    <2> DEFINE bad == {i \in 0 .. n : ~good(i)}
    <2> SUFFICES ASSUME bad # {} PROVE FALSE
      OBVIOUS
    <2>1. bad \in SUBSET Nat
      BY <1>1
    <2>2. PICK m \in bad : \A k \in bad : m <= k
      <3> HIDE DEF bad
      <3> QED
        BY <2>1, LeastNat
    <2>3. CASE m = 0
      <3>1. upTo[0] = <<>>
        <4> HIDE DEF good
        <4>1. upTo[0] = step(upTo, 0)
          <5> HIDE DEF step
          <5>1. 0 \in 0 .. n
            BY <1>1
          <5> QED
            BY <1>5, <5>1
        <4> QED
          BY <4>1
      <3>2. seen(0) = {}
        OBVIOUS
      <3>3. Injective(<<>>) /\ Listed(<<>>) = {} /\ <<>> \in Seq(Nat)
        BY DEF Injective, Listed
      <3> QED
        BY <2>2, <2>3, <3>1, <3>2, <3>3
    <2>4. CASE m # 0
      <3>1. m - 1 \in 0 .. n /\ m \in 1 .. n /\ ~(m <= m - 1)
        BY <1>1, <2>2, <2>4
      <3>2. good(m - 1) /\ s[m] \in Nat
        BY <1>1, <2>2, <3>1
      <3>3. upTo[m] = step(upTo, m)
        BY <1>5, <3>1
      <3>4. seen(m) = seen(m - 1) \cup {s[m]}
        <4>1. 1 .. m = (1 .. m - 1) \cup {m}
          BY <3>1
        <4> QED BY <4>1
      <3>5. s[m] \notin seen(m - 1)
        <4>1. ASSUME NEW j \in 1 .. m - 1 PROVE s[j] # s[m]
          <5>1. j \in 1 .. n /\ m \in 1 .. n /\ j # m
            BY <1>1, <3>1
          <5> QED
            BY <1>1, <5>1 DEF Injective
        <4> QED
          BY <4>1
      <3> HIDE DEF seen
      <3>6. CASE s[m] \in S
        BY <2>2, <2>4, <3>2, <3>3, <3>4, <3>6
      <3>7. CASE s[m] \notin S
        <4>1. upTo[m] = Append(upTo[m - 1], s[m])
          BY <2>4, <3>3, <3>7
        <4>2. s[m] \notin Listed(upTo[m - 1])
          BY <3>2, <3>5
        <4>3. /\ upTo[m] \in Seq(Nat) /\ Injective(upTo[m])
              /\ Listed(upTo[m]) = Listed(upTo[m - 1]) \cup {s[m]}
          BY <3>2, <4>1, <4>2, Longer
        <4> QED
          BY <2>2, <3>2, <3>4, <3>7, <4>3
      <3> QED
        BY <3>6, <3>7
    <2> QED
      BY <2>3, <2>4
  <1>7. seen(n) = Listed(s)
    BY <1>1 DEF Listed
  <1> HIDE DEF seen
  <1>8. good(n)
    BY <1>1, <1>6
  <1> QED
    BY <1>2, <1>7, <1>8

\* Two lists with nothing in common, one behind the other.
LEMMA Joined ==
    ASSUME NEW s \in Seq(Nat), Injective(s), NEW f \in Seq(Nat), Injective(f),
           Listed(s) \cap Listed(f) = {}
    PROVE  s \o f \in Seq(Nat) /\ Injective(s \o f) /\ Listed(s \o f) = Listed(s) \cup Listed(f)
<1> DEFINE a == s \o f
           m == Len(s)
           k == Len(f)
<1>1. /\ a \in Seq(Nat) /\ m \in Nat /\ k \in Nat /\ Len(a) = m + k
      /\ DOMAIN s = 1 .. m /\ DOMAIN f = 1 .. k /\ DOMAIN a = 1 .. m + k
  OBVIOUS
<1>2. \A i \in 1 .. m : a[i] = s[i]
  OBVIOUS
<1>3. \A i \in 1 .. k : a[m + i] = f[i]
  OBVIOUS
<1> HIDE DEF a, m, k
<1>4. \A i \in 1 .. m + k : i \in 1 .. m \/ (i - m \in 1 .. k /\ i = m + (i - m))
  BY <1>1
<1>5. \A i \in 1 .. k : m + i \in 1 .. m + k
  BY <1>1
<1>6. \A i \in 1 .. m : i \in 1 .. m + k
  BY <1>1
<1>7. \A x \in Listed(s) \cup Listed(f) : x \in Listed(a)
  BY <1>1, <1>2, <1>3, <1>5, <1>6 DEF Listed
<1>8. \A i \in 1 .. m + k : /\ i \in 1 .. m => a[i] = s[i] /\ a[i] \in Listed(s)
                            /\ i \notin 1 .. m => a[i] = f[i - m] /\ a[i] \in Listed(f)
  BY <1>1, <1>2, <1>3, <1>4 DEF Listed
<1>9. Listed(a) = Listed(s) \cup Listed(f)
  BY <1>1, <1>7, <1>8 DEF Listed
<1>10. ASSUME NEW i \in 1 .. m + k, NEW j \in 1 .. m + k, a[i] = a[j] PROVE i = j
  <2>1. i \in 1 .. m <=> j \in 1 .. m
    BY <1>8, <1>10
  <2>2. CASE i \in 1 .. m
    BY <1>1, <1>8, <1>10, <2>1, <2>2 DEF Injective
  <2>3. CASE i \notin 1 .. m
    <3>1. f[i - m] = f[j - m] /\ i - m \in 1 .. k /\ j - m \in 1 .. k
      BY <1>4, <1>8, <1>10, <2>1, <2>3
    <3>2. i - m = j - m
      BY <1>1, <3>1 DEF Injective
    <3> QED BY <1>1, <3>2
  <2> QED BY <2>2, <2>3
<1>11. Injective(a)
  BY <1>1, <1>10 DEF Injective
<1> QED BY <1>1, <1>9, <1>11 DEF a

-----------------------------------------------------------------------------
(* The tables of a tier                                                     *)

LEMMA TierIs ==
    ASSUME NEW n \in Nat, NEW map, NEW lru, NEW bytes,
           map \in [DOMAIN map -> 1 .. n], DOMAIN map \subseteq Nat \ {0}, Injective(map),
           lru \in Seq(Nat), Injective(lru), Listed(lru) = DOMAIN map, bytes \in [1 .. n -> Bytes]
    PROVE  TierOK(Tier(map, lru, bytes), n)
<1> DEFINE t == Tier(map, lru, bytes)
<1>1. t.map = map /\ t.lru = lru /\ t.bytes = bytes /\ t = Tier(t.map, t.lru, t.bytes)
  BY DEF Tier
<1> HIDE DEF t
<1>2. TierOK(t, n)
  BY <1>1 DEF TierOK
<1> QED BY <1>2 DEF t

LEMMA Fields ==
    ASSUME NEW map, NEW lru, NEW bytes
    PROVE  /\ Tier(map, lru, bytes).map = map /\ Tier(map, lru, bytes).lru = lru
           /\ Tier(map, lru, bytes).bytes = bytes
BY DEF Tier

\* touch_locked of a table whose recency list may not have the block yet.
LEMMA TouchedIs ==
    ASSUME NEW n \in Nat, NEW map, NEW lru, NEW bytes, NEW b \in Nat \ {0},
           b \in DOMAIN map, map \in [DOMAIN map -> 1 .. n], DOMAIN map \subseteq Nat \ {0}, Injective(map),
           lru \in Seq(Nat), Injective(lru), Listed(lru) \cup {b} = DOMAIN map,
           bytes \in [1 .. n -> Bytes]
    PROVE  /\ TierOK(Touched(Tier(map, lru, bytes), b), n)
           /\ Touched(Tier(map, lru, bytes), b).map = map
           /\ Touched(Tier(map, lru, bytes), b).bytes = bytes
<1> DEFINE rest == Without(lru, {b})
           list == Append(rest, b)
<1>1. rest \in Seq(Nat) /\ Injective(rest) /\ Listed(rest) = DOMAIN map \ {b}
  BY WithoutFacts
<1>2. b \in Nat /\ b \notin Listed(rest)
  BY <1>1
<1>3. list \in Seq(Nat) /\ Injective(list) /\ Listed(list) = DOMAIN map
  <2> HIDE DEF rest
  <2>1. Listed(list) = Listed(rest) \cup {b}
    BY <1>1, <1>2, Longer
  <2> QED BY <1>1, <1>2, <2>1, Longer
<1>4. Touched(Tier(map, lru, bytes), b) = Tier(map, list, bytes)
  BY Fields DEF Touched
<1> HIDE DEF list
<1>5. TierOK(Tier(map, list, bytes), n)
  BY <1>3, TierIs
<1> QED BY <1>4, <1>5, Fields

LEMMA TouchedOK ==
    ASSUME NEW n \in Nat, NEW t, TierOK(t, n), NEW b \in DOMAIN t.map
    PROVE  TierOK(Touched(t, b), n) /\ Touched(t, b).map = t.map /\ Touched(t, b).bytes = t.bytes
<1>1. Touched(t, b) = Touched(Tier(t.map, t.lru, t.bytes), b)
  BY Fields DEF Touched
<1> QED BY <1>1, TouchedIs DEF TierOK

LEMMA ReleasedIs ==
    ASSUME NEW n \in Nat, NEW t, TierOK(t, n), NEW S
    PROVE  /\ TierOK(Released(t, S), n)
           /\ DOMAIN Released(t, S).map = DOMAIN t.map \ S
           /\ \A b \in DOMAIN t.map \ S : Released(t, S).map[b] = t.map[b]
           /\ Released(t, S).bytes = t.bytes
<1> DEFINE rest == Without(t.lru, S)
           map == Forget(t.map, S)
<1>1. rest \in Seq(Nat) /\ Injective(rest) /\ Listed(rest) = DOMAIN t.map \ S
  BY WithoutFacts DEF TierOK
<1>2. /\ DOMAIN map = DOMAIN t.map \ S /\ \A b \in DOMAIN t.map \ S : map[b] = t.map[b]
      /\ map \in [DOMAIN map -> 1 .. n] /\ Injective(map) /\ DOMAIN map \subseteq Nat \ {0}
  BY DEF Forget, TierOK, Injective
<1>3. Released(t, S) = Tier(map, rest, t.bytes)
  BY DEF Released
<1> HIDE DEF rest, map
<1>4. TierOK(Tier(map, rest, t.bytes), n)
  BY <1>1, <1>2, TierIs DEF TierOK
<1> QED BY <1>2, <1>3, <1>4, Fields

LEMMA WrittenIs ==
    ASSUME NEW n \in Nat, NEW t, TierOK(t, n), NEW s \in 1 .. n, NEW x \in Bytes
    PROVE  /\ TierOK(Written(t, s, x), n)
           /\ Written(t, s, x).map = t.map
           /\ Written(t, s, x).bytes = [t.bytes EXCEPT ![s] = x]
<1>1. [t.bytes EXCEPT ![s] = x] \in [1 .. n -> Bytes]
  BY DEF TierOK
<1>2. Written(t, s, x) = Tier(t.map, t.lru, [t.bytes EXCEPT ![s] = x])
  BY DEF Written
<1>3. TierOK(Tier(t.map, t.lru, [t.bytes EXCEPT ![s] = x]), n)
  <2> DEFINE bytes == [t.bytes EXCEPT ![s] = x]
  <2>1. bytes \in [1 .. n -> Bytes]
    BY <1>1
  <2> HIDE DEF bytes
  <2>2. TierOK(Tier(t.map, t.lru, bytes), n)
    BY <2>1, TierIs DEF TierOK
  <2> QED BY <2>2 DEF bytes
<1> QED BY <1>2, <1>3, Fields

\* What place_block_evicting gives: no slot only in a tier without slots, else a
\* slot the block had, a vacant one, or that of the block it displaces.
Placed(t, p, b, n) ==
    /\ n = 0 => p.slot = 0 /\ p.tier = t /\ p.victim = 0
    /\ n # 0 =>
        /\ p.slot \in 1 .. n /\ TierOK(p.tier, n) /\ p.tier.bytes = t.bytes
        /\ DOMAIN p.tier.map = (DOMAIN t.map \ {p.victim}) \cup {b}
        /\ p.tier.map[b] = p.slot
        /\ \A c \in DOMAIN t.map \ {p.victim, b} : p.tier.map[c] = t.map[c] /\ t.map[c] # p.slot
        /\ b \in DOMAIN t.map => p.victim = 0 /\ p.slot = t.map[b]
        /\ p.victim # 0 => p.victim \in DOMAIN t.map \ {b} /\ p.slot = t.map[p.victim]

LEMMA PlaceIs ==
    ASSUME NEW n \in Nat, NEW t, TierOK(t, n), NEW b \in Nat \ {0}, n = 0 => b \notin DOMAIN t.map
    PROVE  Placed(t, PlaceEvicting(t, b), b, n)
<1> DEFINE p == PlaceEvicting(t, b)
<1>1. CASE b \in DOMAIN t.map
  <2>1. p = [tier |-> Touched(t, b), slot |-> t.map[b], victim |-> 0]
    BY <1>1 DEF PlaceEvicting
  <2>2. \A c \in DOMAIN t.map \ {b} : t.map[c] # t.map[b]
    BY <1>1 DEF TierOK, Injective
  <2>3. t.map[b] \in 1 .. n /\ n # 0 /\ 0 \notin DOMAIN t.map
    BY <1>1 DEF TierOK
  <2> HIDE DEF p
  <2>4. Placed(t, p, b, n)
    BY <1>1, <2>1, <2>2, <2>3, TouchedOK DEF Placed
  <2> QED BY <2>4 DEF p
<1>2. CASE b \notin DOMAIN t.map /\ Vacant(t) # {}
  <2> DEFINE s == CHOOSE s \in Vacant(t) : TRUE
             map == Assign(t.map, b, s)
             u == Touched(Tier(map, t.lru, t.bytes), b)
  <2>1. s \in Vacant(t)
    BY <1>2
  <2>2. p = [tier |-> u, slot |-> s, victim |-> 0]
    BY <1>2 DEF PlaceEvicting
  <2>3. s \in 1 .. n /\ \A c \in DOMAIN t.map : t.map[c] # s
    BY <2>1 DEF Vacant, Used, TierOK
  <2> HIDE DEF s
  <2>4. /\ DOMAIN map = DOMAIN t.map \cup {b} /\ map[b] = s
        /\ \A c \in DOMAIN t.map : map[c] = t.map[c]
    BY <1>2 DEF Assign
  <2>5. map \in [DOMAIN map -> 1 .. n] /\ Injective(map) /\ DOMAIN map \subseteq Nat \ {0}
    <3>1. map = [c \in DOMAIN map |-> map[c]]
      BY DEF Assign
    <3> HIDE DEF map
    <3> QED BY <2>3, <2>4, <3>1 DEF Injective, TierOK
  <2> HIDE DEF map
  <2>6. TierOK(u, n) /\ u.map = map /\ u.bytes = t.bytes
    <3>1. /\ b \in DOMAIN map /\ t.lru \in Seq(Nat) /\ Injective(t.lru)
          /\ Listed(t.lru) \cup {b} = DOMAIN map /\ t.bytes \in [1 .. n -> Bytes]
      BY <2>4 DEF TierOK
    <3> DEFINE list == t.lru
               rows == t.bytes
    <3>2. /\ b \in DOMAIN map /\ list \in Seq(Nat) /\ Injective(list)
          /\ Listed(list) \cup {b} = DOMAIN map /\ rows \in [1 .. n -> Bytes]
      BY <3>1
    <3> HIDE DEF list, rows
    <3>3. /\ TierOK(Touched(Tier(map, list, rows), b), n)
          /\ Touched(Tier(map, list, rows), b).map = map
          /\ Touched(Tier(map, list, rows), b).bytes = rows
      BY <2>5, <3>2, TouchedIs, SMTT(60)
    <3> QED BY <3>3 DEF list, rows
  <2>7. n # 0 /\ 0 \notin DOMAIN t.map
    BY <2>3 DEF TierOK
  <2> HIDE DEF p, u
  <2>8. Placed(t, p, b, n)
    BY <1>2, <2>2, <2>3, <2>4, <2>6, <2>7 DEF Placed
  <2> QED BY <2>8 DEF p
<1>3. CASE b \notin DOMAIN t.map /\ Vacant(t) = {} /\ t.lru = <<>>
  <2>1. p = [tier |-> t, slot |-> 0, victim |-> 0]
    BY <1>3 DEF PlaceEvicting
  <2>2. DOMAIN t.map = {}
    BY <1>3 DEF TierOK, Listed
  <2>3. n = 0
    BY <1>3, <2>2 DEF Vacant, Used, TierOK
  <2> HIDE DEF p
  <2>4. Placed(t, p, b, n)
    BY <2>1, <2>3 DEF Placed
  <2> QED BY <2>4 DEF p
<1>4. CASE b \notin DOMAIN t.map /\ Vacant(t) = {} /\ t.lru # <<>>
  <2> DEFINE w == Head(t.lru)
             s == t.map[w]
             map == Assign(Forget(t.map, {w}), b, s)
             rest == Without(t.lru, {w})
             u == Touched(Tier(map, rest, t.bytes), b)
  <2>1. w \in DOMAIN t.map
    <3>1. 1 \in DOMAIN t.lru /\ w = t.lru[1]
      BY <1>4 DEF TierOK
    <3> QED BY <3>1 DEF TierOK, Listed
  <2>2. p = [tier |-> u, slot |-> s, victim |-> w]
    BY <1>4 DEF PlaceEvicting
  <2> HIDE DEF w
  <2>3. /\ s \in 1 .. n /\ w # b /\ w \in Nat \ {0}
        /\ \A c \in DOMAIN t.map \ {w} : t.map[c] # s
    BY <1>4, <2>1 DEF TierOK, Injective
  <2>4. s = t.map[w]
    OBVIOUS
  <2> HIDE DEF s
  <2>5. /\ DOMAIN map = (DOMAIN t.map \ {w}) \cup {b} /\ map[b] = s
        /\ \A c \in DOMAIN t.map \ {w} : map[c] = t.map[c]
    BY <1>4 DEF Assign, Forget
  <2>6. map \in [DOMAIN map -> 1 .. n] /\ Injective(map) /\ DOMAIN map \subseteq Nat \ {0}
    <3>1. map = [c \in DOMAIN map |-> map[c]]
      BY DEF Assign
    <3> HIDE DEF map
    <3> QED BY <2>3, <2>5, <3>1 DEF Injective, TierOK
  <2> HIDE DEF map
  <2>7. rest \in Seq(Nat) /\ Injective(rest) /\ Listed(rest) = DOMAIN t.map \ {w}
    BY WithoutFacts DEF TierOK
  <2> HIDE DEF rest
  <2>8. TierOK(u, n) /\ u.map = map /\ u.bytes = t.bytes
    <3>1. /\ b \in DOMAIN map /\ Listed(rest) \cup {b} = DOMAIN map /\ t.bytes \in [1 .. n -> Bytes]
      BY <2>5, <2>7 DEF TierOK
    <3> QED BY <2>6, <2>7, <3>1, TouchedIs
  <2>9. n # 0
    BY <2>3
  <2> HIDE DEF p, u
  <2>10. Placed(t, p, b, n)
    BY <1>4, <2>1, <2>2, <2>3, <2>4, <2>5, <2>8, <2>9 DEF Placed
  <2> QED BY <2>10 DEF p
<1> QED BY <1>1, <1>2, <1>3, <1>4

-----------------------------------------------------------------------------
(* Stage-out                                                                *)

LEMMA Slots == {GpuSlots, CpuSlots, NvmeSlots} \subseteq Nat
BY TiersAssumption

LEMMA PartsAre ==
    ASSUME NEW st, NEW c, NEW nv
    PROVE  Parts(st, c, nv).store = st /\ Parts(st, c, nv).cpu = c /\ Parts(st, c, nv).nvme = nv
BY DEF Parts

\* Two forms of a block with the same place on the GPU, rows and history; and
\* with the same place below it, but for the backing on NVMe.
Alike(r, q) == q.gpu = r.gpu /\ q.v = r.v /\ q.kept = r.kept /\ q.older = r.older
Like(r, q) == Alike(r, q) /\ q.tier = r.tier /\ q.cpu = r.cpu

\* A store rewritten block by block.
LEMMA Rewritten ==
    ASSUME NEW st \in Seq(Block), NEW f, DOMAIN f = DOMAIN st, f = [i \in DOMAIN f |-> f[i]],
           \A i \in DOMAIN st : f[i] \in Block
    PROVE  f \in Seq(Block)
<1>1. DOMAIN st = 1 .. Len(st) /\ Len(st) \in Nat
  OBVIOUS
<1> DEFINE k == Len(st)
<1>2. DOMAIN f = 1 .. k /\ k \in Nat /\ \A i \in 1 .. k : f[i] \in Block
  BY <1>1
<1> HIDE DEF k
<1>3. f \in [1 .. k -> Block]
  BY <1>2
<1> QED BY <1>2, <1>3, SeqDef

LEMMA UnbackedIs ==
    ASSUME NEW st \in Seq(Block), NEW b, NEW w
    PROVE  /\ Unbacked(st, b, w) \in Seq(Block) /\ DOMAIN Unbacked(st, b, w) = DOMAIN st
           /\ \A i \in DOMAIN st : /\ Like(st[i], Unbacked(st, b, w)[i])
                                   /\ Unbacked(st, b, w)[i].nvme \in {0, st[i].nvme}
           /\ \A i \in DOMAIN st \ ({w} \ {b}) : Unbacked(st, b, w)[i] = st[i]
<1> DEFINE st2 == Unbacked(st, b, w)
<1>1. DOMAIN st2 = DOMAIN st /\ st2 = [i \in DOMAIN st2 |-> st2[i]]
  BY DEF Unbacked
<1>2. \A i \in DOMAIN st \ ({w} \ {b}) : st2[i] = st[i]
  BY DEF Unbacked
<1>3. ASSUME NEW i \in DOMAIN st
      PROVE  st2[i] \in Block /\ Like(st[i], st2[i]) /\ st2[i].nvme \in {0, st[i].nvme}
  <2>1. st[i] \in Block /\ 0 \in 0 .. NvmeSlots
    BY Slots
  <2>2. CASE st2[i] = st[i]
    BY <2>1, <2>2 DEF Like, Alike
  <2>3. CASE st2[i] = [st[i] EXCEPT !.nvme = 0, !.clean = FALSE]
    <3> HIDE DEF st2
    <3>1. st2[i] \in Block
      BY <2>1, <2>3 DEF Block
    <3>2. /\ st2[i].nvme = 0 /\ st2[i].gpu = st[i].gpu /\ st2[i].v = st[i].v /\ st2[i].kept = st[i].kept
          /\ st2[i].older = st[i].older /\ st2[i].tier = st[i].tier /\ st2[i].cpu = st[i].cpu
      BY <2>1, <2>3 DEF Block
    <3> QED BY <3>1, <3>2 DEF Like, Alike
  <2>4. st2[i] = st[i] \/ st2[i] = [st[i] EXCEPT !.nvme = 0, !.clean = FALSE]
    BY DEF Unbacked
  <2> QED BY <2>2, <2>3, <2>4
<1> HIDE DEF st2
<1>4. st2 \in Seq(Block)
  BY <1>1, <1>3, Rewritten
<1> QED BY <1>1, <1>2, <1>3, <1>4 DEF st2

LEMMA BackedIs ==
    ASSUME NEW st \in Seq(Block), NEW b, NEW k \in 0 .. NvmeSlots
    PROVE  /\ Backed(st, b, k) \in Seq(Block) /\ DOMAIN Backed(st, b, k) = DOMAIN st
           /\ \A i \in DOMAIN st : Like(st[i], Backed(st, b, k)[i])
           /\ \A i \in DOMAIN st \ {b} : Backed(st, b, k)[i] = st[i]
           /\ b \in DOMAIN st => Backed(st, b, k)[b].nvme = k
<1> DEFINE st2 == Backed(st, b, k)
<1>1. DOMAIN st2 = DOMAIN st /\ st2 = [i \in DOMAIN st2 |-> st2[i]]
  BY DEF Backed
<1>2. \A i \in DOMAIN st \ {b} : st2[i] = st[i]
  BY DEF Backed
<1>3. b \in DOMAIN st => st2[b] = [st[b] EXCEPT !.nvme = k, !.clean = TRUE]
  BY DEF Backed
<1> HIDE DEF st2
<1>4. ASSUME b \in DOMAIN st PROVE st2[b] \in Block /\ Like(st[b], st2[b]) /\ st2[b].nvme = k
  <2>1. st[b] \in Block /\ st2[b] = [st[b] EXCEPT !.nvme = k, !.clean = TRUE]
    BY <1>3, <1>4
  <2>2. st2[b] \in Block
    BY <2>1 DEF Block
  <2>3. /\ st2[b].nvme = k /\ st2[b].gpu = st[b].gpu /\ st2[b].v = st[b].v /\ st2[b].kept = st[b].kept
        /\ st2[b].older = st[b].older /\ st2[b].tier = st[b].tier /\ st2[b].cpu = st[b].cpu
    BY <2>1 DEF Block
  <2> QED BY <2>2, <2>3 DEF Like, Alike
<1>5. \A i \in DOMAIN st \ {b} : st2[i] \in Block /\ Like(st[i], st2[i])
  BY <1>2 DEF Like, Alike
<1>6. \A i \in DOMAIN st : st2[i] \in Block /\ Like(st[i], st2[i])
  BY <1>4, <1>5
<1>7. st2 \in Seq(Block)
  BY <1>1, <1>6, Rewritten
<1> QED BY <1>1, <1>2, <1>4, <1>6, <1>7 DEF st2

LEMMA UnpinnedIs ==
    ASSUME NEW st \in Seq(Block), NEW w
    PROVE  /\ Unpinned(st, w) \in Seq(Block) /\ DOMAIN Unpinned(st, w) = DOMAIN st
           /\ \A i \in DOMAIN st \ {w} : Unpinned(st, w)[i] = st[i]
           /\ w \in DOMAIN st => /\ Alike(st[w], Unpinned(st, w)[w]) /\ Unpinned(st, w)[w].cpu = 0
                                 /\ Unpinned(st, w)[w].nvme = st[w].nvme
                                 /\ Unpinned(st, w)[w].tier = TierLeft(st[w])
<1> DEFINE st2 == Unpinned(st, w)
<1>1. DOMAIN st2 = DOMAIN st /\ st2 = [i \in DOMAIN st2 |-> st2[i]]
  BY DEF Unpinned
<1>2. \A i \in DOMAIN st \ {w} : st2[i] = st[i]
  BY DEF Unpinned
<1>3. w \in DOMAIN st => st2[w] = [st[w] EXCEPT !.cpu = 0, !.tier = TierLeft(st[w])]
  BY DEF Unpinned
<1> HIDE DEF st2
<1>4. ASSUME w \in DOMAIN st
      PROVE  /\ st2[w] \in Block /\ Alike(st[w], st2[w]) /\ st2[w].cpu = 0
             /\ st2[w].nvme = st[w].nvme /\ st2[w].tier = TierLeft(st[w])
  <2> DEFINE tier == TierLeft(st[w])
  <2>1. st[w] \in Block /\ 0 \in 0 .. CpuSlots /\ st2[w] = [st[w] EXCEPT !.cpu = 0, !.tier = tier]
    BY <1>3, <1>4, Slots
  <2>2. tier \in {"GPU", "CPU", "SSD"}
    BY <2>1 DEF Block, TierLeft
  <2> HIDE DEF tier
  <2>3. /\ st2[w] \in Block /\ st2[w].cpu = 0 /\ st2[w].tier = tier /\ st2[w].nvme = st[w].nvme
        /\ st2[w].gpu = st[w].gpu /\ st2[w].v = st[w].v /\ st2[w].kept = st[w].kept
        /\ st2[w].older = st[w].older
    BY <2>1, <2>2 DEF Block
  <2> QED BY <2>3 DEF Alike, tier
<1>5. \A i \in DOMAIN st : st2[i] \in Block
  BY <1>2, <1>4
<1>6. st2 \in Seq(Block)
  BY <1>1, <1>5, Rewritten
<1> QED BY <1>1, <1>2, <1>4, <1>6 DEF st2

\* A slot p of the NVMe tier is given to block b for the bytes x, and the block
\* displaced from it is told: st becomes st2.
Given(sp, st, nv, b, x, p, st2) ==
    /\ NvmeSlots # 0 /\ st \in Seq(Block) /\ TierOK(nv, NvmeSlots) /\ Backings(st, nv, sp)
    /\ b \in Nat \ {0} /\ x \in Bytes /\ p = PlaceEvicting(nv, b)
    /\ DOMAIN st2 = DOMAIN st /\ \A i \in DOMAIN st \ {b, p.victim} : st2[i] = st[i]
    /\ b \notin sp => /\ b \in DOMAIN st /\ st2[b].nvme = p.slot /\ Belongs(x, b)
                      /\ st2[b].tier # "SSD" /\ (st2[b].tier = "CPU" => st2[b].cpu # 0)

\* Once it is written, what the table says of the other blocks is still true.
LEMMA NvmeTaken ==
    ASSUME NEW sp, NEW st, NEW nv, NEW b, NEW x, NEW p, NEW st2, Given(sp, st, nv, b, x, p, st2)
    PROVE  /\ p.slot \in 1 .. NvmeSlots /\ p.victim # b
           /\ TierOK(Written(p.tier, p.slot, x), NvmeSlots)
           /\ Backings(st2, Written(p.tier, p.slot, x), sp)
           /\ b \in DOMAIN Written(p.tier, p.slot, x).map
           /\ Written(p.tier, p.slot, x).bytes[Written(p.tier, p.slot, x).map[b]] = x
<1>0. /\ NvmeSlots # 0 /\ TierOK(nv, NvmeSlots) /\ Backings(st, nv, sp)
      /\ b \in Nat \ {0} /\ x \in Bytes /\ p = PlaceEvicting(nv, b)
      /\ DOMAIN st2 = DOMAIN st /\ \A i \in DOMAIN st \ {b, p.victim} : st2[i] = st[i]
      /\ b \notin sp => /\ b \in DOMAIN st /\ st2[b].nvme = p.slot /\ Belongs(x, b)
                        /\ st2[b].tier # "SSD" /\ (st2[b].tier = "CPU" => st2[b].cpu # 0)
  BY DEF Given
<1> DEFINE nv2 == Written(p.tier, p.slot, x)
<1>1. NvmeSlots \in Nat
  BY Slots
<1>2. Placed(nv, p, b, NvmeSlots)
  BY <1>0, <1>1, PlaceIs
<1>3. /\ p.slot \in 1 .. NvmeSlots /\ TierOK(p.tier, NvmeSlots) /\ p.tier.bytes = nv.bytes
      /\ DOMAIN p.tier.map = (DOMAIN nv.map \ {p.victim}) \cup {b} /\ p.tier.map[b] = p.slot
      /\ \A d \in DOMAIN nv.map \ {p.victim, b} :
            p.tier.map[d] = nv.map[d] /\ nv.map[d] # p.slot
      /\ p.victim # b
  BY <1>0, <1>2 DEF Placed
<1>4. /\ TierOK(nv2, NvmeSlots) /\ nv2.map = p.tier.map
      /\ nv2.bytes = [nv.bytes EXCEPT ![p.slot] = x]
  BY <1>0, <1>1, <1>3, WrittenIs
<1> HIDE DEF nv2
<1>5. nv2.bytes[p.slot] = x /\ \A k \in 1 .. NvmeSlots \ {p.slot} : nv2.bytes[k] = nv.bytes[k]
  BY <1>0, <1>3, <1>4 DEF TierOK
<1>6. b \in DOMAIN nv2.map /\ nv2.bytes[nv2.map[b]] = x
  BY <1>3, <1>4, <1>5
<1>7. ASSUME NEW d \in DOMAIN nv2.map \ sp PROVE Backing(st2, nv2, d)
  <2>1. CASE d = b
    BY <1>0, <1>3, <1>4, <1>5, <1>7, <2>1 DEF Backing
  <2>2. CASE d # b
    <3>1. d \in DOMAIN nv.map \ {p.victim, b} /\ d \notin sp
      BY <1>3, <1>4, <1>7, <2>2
    <3>2. nv2.map[d] = nv.map[d] /\ nv.map[d] # p.slot /\ nv.map[d] \in 1 .. NvmeSlots
      BY <1>0, <1>3, <1>4, <3>1 DEF TierOK
    <3>3. nv2.bytes[nv2.map[d]] = nv.bytes[nv.map[d]]
      BY <1>5, <3>2
    <3>4. Backing(st, nv, d)
      BY <1>0, <3>1 DEF Backings
    <3>5. st2[d] = st[d] /\ d \in DOMAIN st2
      BY <1>0, <3>1, <3>4 DEF Backing
    <3> QED BY <3>2, <3>3, <3>4, <3>5 DEF Backing
  <2> QED BY <2>1, <2>2
<1>8. Backings(st2, nv2, sp)
  BY <1>7 DEF Backings
<1> QED BY <1>3, <1>4, <1>6, <1>8 DEF nv2

Spilled(st, b, x, sp, st2, nv2) ==
    /\ st2 \in Seq(Block) /\ DOMAIN st2 = DOMAIN st
    /\ TierOK(nv2, NvmeSlots) /\ Backings(st2, nv2, sp)
    /\ \A i \in DOMAIN st : Like(st[i], st2[i]) /\ (i # b => st2[i].nvme \in {0, st[i].nvme})
    /\ NvmeSlots # 0 => /\ b \in DOMAIN nv2.map /\ nv2.bytes[nv2.map[b]] = x
                        /\ b \in DOMAIN st => st2[b].nvme # 0

LEMMA SpillIs ==
    ASSUME NEW sp, NEW st \in Seq(Block), NEW c, NEW nv, TierOK(nv, NvmeSlots),
           Backings(st, nv, sp), NEW b \in Nat \ {0}, NEW x \in Bytes,
           b \notin sp => /\ b \in DOMAIN st /\ st[b].tier # "SSD" /\ Belongs(x, b)
                          /\ st[b].tier = "CPU" => st[b].cpu # 0
    PROVE  /\ Spilled(st, b, x, sp, SpilledToNvme(Parts(st, c, nv), b, x).store,
                      SpilledToNvme(Parts(st, c, nv), b, x).nvme)
           /\ SpilledToNvme(Parts(st, c, nv), b, x).cpu = c
<1> DEFINE p == PlaceEvicting(nv, b)
           s == SpilledToNvme(Parts(st, c, nv), b, x)
           st1 == Unbacked(st, b, p.victim)
           st2 == Backed(st1, b, p.slot)
           nv2 == Written(p.tier, p.slot, x)
<1>1. NvmeSlots \in Nat
  BY Slots
<1>2. NvmeSlots = 0 => DOMAIN nv.map = {}
  BY DEF TierOK
<1>3. Placed(nv, p, b, NvmeSlots)
  BY <1>1, <1>2, PlaceIs
<1>4. IF p.slot = 0 THEN s = Parts(st, c, nv) ELSE s = Parts(st2, c, nv2)
  BY DEF SpilledToNvme, Parts
<1>5. CASE NvmeSlots = 0
  <2>1. s = Parts(st, c, nv)
    BY <1>3, <1>4, <1>5 DEF Placed
  <2>2. \A i \in DOMAIN st : Like(st[i], st[i]) /\ st[i].nvme \in {0, st[i].nvme}
    BY DEF Like, Alike
  <2>3. Spilled(st, b, x, sp, st, nv)
    BY <1>5, <2>2 DEF Spilled
  <2> QED BY <2>1, <2>3, PartsAre
<1>6. CASE NvmeSlots # 0
  <2>1. p.slot \in 1 .. NvmeSlots /\ p.slot # 0 /\ p.slot \in 0 .. NvmeSlots
    BY <1>1, <1>3, <1>6 DEF Placed
  <2>2. s = Parts(st2, c, nv2)
    BY <1>4, <2>1
  <2>3. p = PlaceEvicting(nv, b)
    OBVIOUS
  <2> HIDE DEF p, s
  <2>4. /\ st1 \in Seq(Block) /\ DOMAIN st1 = DOMAIN st
        /\ \A i \in DOMAIN st : Like(st[i], st1[i]) /\ st1[i].nvme \in {0, st[i].nvme}
        /\ \A i \in DOMAIN st \ ({p.victim} \ {b}) : st1[i] = st[i]
    BY UnbackedIs
  <2> HIDE DEF st1
  <2>5. /\ st2 \in Seq(Block) /\ DOMAIN st2 = DOMAIN st
        /\ \A i \in DOMAIN st : Like(st1[i], st2[i])
        /\ \A i \in DOMAIN st \ {b} : st2[i] = st1[i]
        /\ b \in DOMAIN st => st2[b].nvme = p.slot
    BY <2>1, <2>4, BackedIs
  <2> HIDE DEF st2
  <2>6. \A i \in DOMAIN st : Like(st[i], st2[i]) /\ (i # b => st2[i].nvme \in {0, st[i].nvme})
    BY <2>4, <2>5 DEF Like, Alike
  <2>7. \A i \in DOMAIN st \ {b, p.victim} : st2[i] = st[i]
    BY <2>4, <2>5
  <2>8. b \notin sp => /\ b \in DOMAIN st /\ st2[b].nvme = p.slot /\ Belongs(x, b)
                       /\ st2[b].tier # "SSD" /\ (st2[b].tier = "CPU" => st2[b].cpu # 0)
    BY <2>5, <2>6 DEF Like
  <2>9. /\ TierOK(nv2, NvmeSlots) /\ Backings(st2, nv2, sp)
        /\ b \in DOMAIN nv2.map /\ nv2.bytes[nv2.map[b]] = x
    <3>1. Given(sp, st, nv, b, x, p, st2)
      BY <1>6, <2>3, <2>5, <2>7, <2>8 DEF Given
    <3> QED BY <3>1, NvmeTaken
  <2> HIDE DEF nv2
  <2>10. Spilled(st, b, x, sp, st2, nv2)
    BY <2>1, <2>5, <2>6, <2>9 DEF Spilled
  <2> QED BY <2>2, <2>10, PartsAre DEF s
<1> QED BY <1>5, <1>6

\* A block whose bytes elsewhere stay as good as they were.
LEMMA CurrentKept ==
    ASSUME NEW x, NEW b, NEW r, NEW q, Current(x, b, r), q.v = r.v, r.older => q.older
    PROVE  Current(x, b, q)
BY DEF Current

\* One block of a store replaced.
LEMMA Replaced ==
    ASSUME NEW st \in Seq(Block), NEW b \in DOMAIN st, NEW r \in Block
    PROVE  /\ [st EXCEPT ![b] = r] \in Seq(Block) /\ DOMAIN [st EXCEPT ![b] = r] = DOMAIN st
           /\ [st EXCEPT ![b] = r][b] = r
           /\ \A i \in DOMAIN st \ {b} : [st EXCEPT ![b] = r][i] = st[i]
OBVIOUS

\* The blocks after a displaced pinned copy was moved, or none was.
Displaced(st, w, sp, s) ==
    /\ s.store \in Seq(Block) /\ DOMAIN s.store = DOMAIN st
    /\ TierOK(s.nvme, NvmeSlots) /\ Marked(s.store) /\ Backings(s.store, s.nvme, sp)
    /\ \A i \in DOMAIN st : Alike(st[i], s.store[i])
    /\ \A i \in DOMAIN st \ {w} : Like(st[i], s.store[i]) /\ s.store[i].nvme \in {0, st[i].nvme}
    /\ w \in DOMAIN st => s.store[w].cpu = 0

LEMMA VictimIs ==
    ASSUME NEW sp, NEW st, NEW c, NEW nv, TablesOK(st, c, nv, sp), NEW w \in DOMAIN c.map
    PROVE  Displaced(st, w, sp, CpuVictimMoved(Parts(st, c, nv), w, c.map[w]))
<1> DEFINE x == c.bytes[c.map[w]]
           s == SpilledToNvme(Parts(st, c, nv), w, x)
           st2 == Unpinned(s.store, w)
<1>1. CpuVictimMoved(Parts(st, c, nv), w, c.map[w]) = Parts(st2, s.cpu, s.nvme)
  BY DEF CpuVictimMoved, Parts
<1>2. /\ st \in Seq(Block) /\ TierOK(c, CpuSlots) /\ TierOK(nv, NvmeSlots)
      /\ Marked(st) /\ Backings(st, nv, sp)
  BY DEF TablesOK
<1>3. w \notin sp => /\ w \in DOMAIN st /\ st[w].cpu # 0 /\ st[w].tier # "SSD" /\ Belongs(x, w)
                     /\ st[w].tier = "CPU" => x = st[w].kept
  BY DEF TablesOK, Pins, Pinned, Marked
<1>4. x \in Bytes /\ w \in Nat \ {0}
  BY <1>2 DEF TierOK
<1> HIDE DEF x
<1>5. Spilled(st, w, x, sp, s.store, s.nvme)
  BY <1>2, <1>3, <1>4, SpillIs
<1> HIDE DEF s
<1>6. /\ s.store \in Seq(Block) /\ DOMAIN s.store = DOMAIN st
      /\ TierOK(s.nvme, NvmeSlots) /\ Backings(s.store, s.nvme, sp)
      /\ \A i \in DOMAIN st : Like(st[i], s.store[i]) /\ (i # w => s.store[i].nvme \in {0, st[i].nvme})
  BY <1>5 DEF Spilled
<1>7. /\ st2 \in Seq(Block) /\ DOMAIN st2 = DOMAIN st
      /\ \A i \in DOMAIN st \ {w} : st2[i] = s.store[i]
      /\ w \in DOMAIN st => /\ Alike(s.store[w], st2[w]) /\ st2[w].cpu = 0
                            /\ st2[w].nvme = s.store[w].nvme /\ st2[w].tier = TierLeft(s.store[w])
  <2> DEFINE old == s.store
  <2>1. old \in Seq(Block) /\ DOMAIN old = DOMAIN st
    BY <1>6
  <2> HIDE DEF old
  <2>2. /\ st2 \in Seq(Block) /\ DOMAIN st2 = DOMAIN old
        /\ \A i \in DOMAIN old \ {w} : st2[i] = old[i]
        /\ w \in DOMAIN old => /\ Alike(old[w], st2[w]) /\ st2[w].cpu = 0
                              /\ st2[w].nvme = old[w].nvme /\ st2[w].tier = TierLeft(old[w])
    BY <2>1, UnpinnedIs DEF old
  <2> QED BY <2>1, <2>2 DEF old
<1> HIDE DEF st2
<1>8. w \in DOMAIN st => Alike(st[w], st2[w])
  BY <1>6, <1>7 DEF Like, Alike
<1>9. \A i \in DOMAIN st : Alike(st[i], st2[i])
  BY <1>6, <1>7, <1>8 DEF Like
<1>11. Marked(st2)
  <2> SUFFICES ASSUME NEW i \in DOMAIN st2
               PROVE  /\ st2[i].gpu # 0 <=> st2[i].tier = "GPU"
                      /\ st2[i].tier = "SSD" => st2[i].cpu = 0
    BY DEF Marked
  <2>1. /\ i \in DOMAIN st /\ Like(st[i], s.store[i])
        /\ st[i].gpu # 0 <=> st[i].tier = "GPU"
        /\ st[i].tier = "SSD" => st[i].cpu = 0
    BY <1>2, <1>6, <1>7 DEF Marked
  <2>2. CASE i = w
    <3>1. Alike(st[w], st2[w]) /\ st2[w].cpu = 0 /\ st2[w].tier = TierLeft(s.store[w])
      BY <1>7, <1>8, <2>1, <2>2
    <3>2. st2[w].tier = "GPU" <=> st[w].tier = "GPU"
      BY <2>1, <2>2, <3>1 DEF Like, TierLeft
    <3> QED BY <2>1, <2>2, <3>1, <3>2 DEF Alike
  <2>3. CASE i # w
    <3>1. st2[i] = s.store[i]
      BY <1>7, <2>1, <2>3
    <3> QED BY <2>1, <3>1 DEF Like, Alike
  <2> QED BY <2>2, <2>3
<1>12. Backings(st2, s.nvme, sp)
  <2> SUFFICES ASSUME NEW d \in DOMAIN s.nvme.map \ sp PROVE Backing(st2, s.nvme, d)
    BY DEF Backings
  <2>1. Backing(s.store, s.nvme, d)
    BY <1>6 DEF Backings
  <2>2. CASE d = w
    <3>1. NvmeSlots # 0 /\ s.nvme.map[w] # 0
      BY <1>6, <2>2, Slots DEF TierOK
    <3>2. s.nvme.bytes[s.nvme.map[w]] = x
      BY <1>5, <3>1 DEF Spilled
    <3>3. /\ w \in DOMAIN st /\ st[w].tier # "SSD" /\ (st[w].tier = "CPU" => x = st[w].kept)
          /\ Like(st[w], s.store[w])
      BY <1>3, <1>6, <2>2
    <3>4. st2[w].nvme = s.store[w].nvme /\ Alike(st[w], st2[w]) /\ st2[w].tier = TierLeft(s.store[w])
      BY <1>7, <1>8, <3>3
    <3>5. st2[w].tier # "CPU"
      BY <2>1, <2>2, <3>1, <3>4 DEF TierLeft, Backing
    <3>6. st2[w].tier = "SSD" => s.nvme.bytes[s.nvme.map[w]] = st2[w].kept
      BY <3>2, <3>3, <3>4 DEF TierLeft, Like, Alike
    <3> QED BY <1>7, <2>1, <2>2, <3>3, <3>4, <3>5, <3>6 DEF Backing
  <2>3. CASE d # w
    <3>1. st2[d] = s.store[d] /\ d \in DOMAIN st2
      BY <1>6, <1>7, <2>1, <2>3 DEF Backing
    <3> QED BY <2>1, <3>1 DEF Backing
  <2> QED BY <2>2, <2>3
<1>13. \A i \in DOMAIN st \ {w} : Like(st[i], st2[i]) /\ st2[i].nvme \in {0, st[i].nvme}
  BY <1>6, <1>7
<1>14. Displaced(st, w, sp, Parts(st2, s.cpu, s.nvme))
  BY <1>6, <1>7, <1>9, <1>11, <1>12, <1>13, PartsAre DEF Displaced
<1> QED BY <1>1, <1>14

LEMMA DisplacedIs ==
    ASSUME NEW sp, NEW st, NEW c, NEW nv, TablesOK(st, c, nv, sp), NEW w, w = 0 \/ w \in DOMAIN c.map,
           NEW slot, w # 0 => slot = c.map[w]
    PROVE  Displaced(st, w, sp, IF w = 0 THEN Parts(st, c, nv)
                                ELSE CpuVictimMoved(Parts(st, c, nv), w, slot))
<1>1. CASE w = 0
  <2>1. w \notin DOMAIN st /\ st \in Seq(Block)
    BY <1>1 DEF TablesOK
  <2>2. \A i \in DOMAIN st : Alike(st[i], st[i]) /\ Like(st[i], st[i]) /\ st[i].nvme \in {0, st[i].nvme}
    BY DEF Like, Alike
  <2> QED BY <1>1, <2>1, <2>2, PartsAre DEF Displaced, TablesOK
<1>2. CASE w # 0
  BY <1>2, VictimIs
<1> QED BY <1>1, <1>2

\* What stage_out of block b leaves: the tables exact, and of the other blocks
\* their place on the GPU, their rows and what they left it with.
Staged(st, b, sp, s) ==
    /\ BlocksOK(s.store, s.cpu, s.nvme, sp, {}) /\ DOMAIN s.store = DOMAIN st
    /\ \A i \in DOMAIN st \ {b} : Alike(st[i], s.store[i])
    /\ s.store[b].gpu = 0

LEMMA StagedToCpuIs ==
    ASSUME CpuSlots # 0,
           NEW sp, NEW st, NEW c, NEW nv, BlocksOK(st, c, nv, sp, {}),
           NEW b \in DOMAIN st, NEW x \in Bytes, b \notin sp => Current(x, b, st[b])
    PROVE  Staged(st, b, sp, StagedToCpu(Parts(st, c, nv), b, x))
<1> DEFINE prevNvme == st[b].nvme
           p == PlaceEvicting(c, b)
           w == p.victim
           slot == p.slot
           s == IF w = 0 THEN Parts(st, c, nv) ELSE CpuVictimMoved(Parts(st, c, nv), w, slot)
           back == IF prevNvme # 0 THEN prevNvme ELSE s.store[b].nvme
           r == [s.store[b] EXCEPT !.tier = "CPU", !.gpu = 0, !.cpu = slot, !.kept = x, !.nvme = back]
           st2 == [s.store EXCEPT ![b] = r]
           c2 == Written(p.tier, slot, x)
<1>0. /\ TablesOK(st, c, nv, sp) /\ Named(st, c, {}) /\ KeptOK(st, sp) /\ Pins(st, c, sp)
      /\ st \in Seq(Block) /\ TierOK(c, CpuSlots)
  BY DEF BlocksOK, TablesOK
<1>1. CpuSlots \in Nat /\ b \in Nat \ {0} /\ st[b] \in Block
  BY <1>0, Slots
<1>2. Placed(c, p, b, CpuSlots)
  BY <1>0, <1>1, PlaceIs
<1>3. StagedToCpu(Parts(st, c, nv), b, x) = Parts(st2, c2, s.nvme)
  BY DEF StagedToCpu, Parts
<1>4. /\ slot \in 1 .. CpuSlots /\ TierOK(p.tier, CpuSlots) /\ p.tier.bytes = c.bytes
      /\ DOMAIN p.tier.map = (DOMAIN c.map \ {w}) \cup {b} /\ p.tier.map[b] = slot
      /\ \A d \in DOMAIN c.map \ {w, b} : p.tier.map[d] = c.map[d] /\ c.map[d] # slot
      /\ w # 0 => w \in DOMAIN c.map \ {b} /\ slot = c.map[w]
  BY <1>2 DEF Placed
<1> HIDE DEF p, slot, w
<1>5. Displaced(st, w, sp, s)
  BY <1>0, <1>4, DisplacedIs
<1> HIDE DEF s
<1>6. /\ s.store \in Seq(Block) /\ DOMAIN s.store = DOMAIN st /\ s.store[b] \in Block
      /\ TierOK(s.nvme, NvmeSlots) /\ Backings(s.store, s.nvme, sp) /\ Marked(s.store)
      /\ \A i \in DOMAIN st : Alike(st[i], s.store[i])
      /\ \A i \in DOMAIN st \ {w} : Like(st[i], s.store[i])
      /\ w \in DOMAIN st => s.store[w].cpu = 0
  BY <1>5 DEF Displaced
<1>7. b # w /\ s.store[b].nvme \in {0, prevNvme}
  BY <1>1, <1>4, <1>5 DEF Displaced
<1>8. back \in 0 .. NvmeSlots
  BY <1>1, <1>6 DEF Block
<1>9. b \in DOMAIN s.nvme.map /\ b \notin sp => back = s.nvme.map[b]
  <2> SUFFICES ASSUME b \in DOMAIN s.nvme.map, b \notin sp PROVE back = s.nvme.map[b]
    OBVIOUS
  <2>1. s.store[b].nvme = s.nvme.map[b] /\ s.nvme.map[b] # 0
    BY <1>6, Slots DEF Backings, Backing, TierOK
  <2> QED BY <1>7, <2>1
<1> HIDE DEF back
<1>10. slot \in 0 .. CpuSlots /\ slot # 0 /\ 0 \in 0 .. GpuSlots
  BY <1>1, <1>4, Slots
<1>11. Alike(st[b], s.store[b])
  BY <1>6
<1>12. /\ r \in Block /\ r.cpu = slot /\ r.tier = "CPU" /\ r.gpu = 0 /\ r.v = st[b].v
       /\ r.kept = x /\ r.nvme = back /\ r.older = st[b].older
  BY <1>6, <1>8, <1>10, <1>11 DEF Block, Alike
<1> HIDE DEF r
<1>13. /\ st2 \in Seq(Block) /\ DOMAIN st2 = DOMAIN st /\ st2[b] = r
       /\ \A i \in DOMAIN st \ {b} : st2[i] = s.store[i]
  BY <1>6, <1>12, Replaced
<1> HIDE DEF st2
<1>14. /\ TierOK(c2, CpuSlots) /\ c2.map = p.tier.map
       /\ c2.bytes = [c.bytes EXCEPT ![slot] = x]
  BY <1>1, <1>4, WrittenIs
<1>15. c2.bytes[slot] = x /\ \A k \in 1 .. CpuSlots \ {slot} : c2.bytes[k] = c.bytes[k]
  BY <1>4, <1>14 DEF TierOK
<1> HIDE DEF c2
<1>16. Marked(st2)
  <2> SUFFICES ASSUME NEW i \in DOMAIN st2
               PROVE  /\ st2[i].gpu # 0 <=> st2[i].tier = "GPU"
                      /\ st2[i].tier = "SSD" => st2[i].cpu = 0
    BY DEF Marked
  <2>1. CASE i = b
    BY <1>12, <1>13, <2>1
  <2>2. CASE i # b
    <3>1. st2[i] = s.store[i] /\ i \in DOMAIN s.store
      BY <1>6, <1>13, <2>2
    <3> QED BY <1>6, <3>1 DEF Marked
  <2> QED BY <2>1, <2>2
<1>17. KeptOK(st2, sp)
  <2> SUFFICES ASSUME NEW i \in DOMAIN st2 \ sp, st2[i].gpu = 0
               PROVE  Current(st2[i].kept, i, st2[i])
    BY DEF KeptOK
  <2>1. CASE i = b
    BY <1>12, <1>13, <2>1, CurrentKept
  <2>2. CASE i # b
    <3>1. i \in DOMAIN st \ sp /\ Alike(st[i], st2[i])
      BY <1>6, <1>13, <2>2
    <3>2. Current(st[i].kept, i, st[i])
      BY <1>0, <3>1 DEF KeptOK, Alike
    <3> QED BY <3>1, <3>2, CurrentKept DEF Alike
  <2> QED BY <2>1, <2>2
<1>18. Backings(st2, s.nvme, sp)
  <2> SUFFICES ASSUME NEW d \in DOMAIN s.nvme.map \ sp PROVE Backing(st2, s.nvme, d)
    BY DEF Backings
  <2>1. Backing(s.store, s.nvme, d)
    BY <1>6 DEF Backings
  <2>2. CASE d = b
    BY <1>9, <1>10, <1>12, <1>13, <2>1, <2>2 DEF Backing
  <2>3. CASE d # b
    BY <1>6, <1>13, <2>1, <2>3 DEF Backing
  <2> QED BY <2>2, <2>3
<1>19. \A i \in DOMAIN st \ {b, w} : Like(st[i], st2[i])
  BY <1>6, <1>13
<1>20. Named(st2, c2, {})
  <2> SUFFICES ASSUME NEW i \in DOMAIN st2, st2[i].cpu # 0
               PROVE  i \in DOMAIN c2.map /\ c2.map[i] = st2[i].cpu
    BY DEF Named
  <2>1. CASE i = b
    BY <1>4, <1>12, <1>13, <1>14, <2>1
  <2>2. CASE i # b
    <3>1. i # w /\ i \in DOMAIN st
      BY <1>6, <1>13, <2>2
    <3>2. st2[i].cpu = st[i].cpu
      BY <1>19, <2>2, <3>1 DEF Like
    <3>3. i \in DOMAIN c.map /\ c.map[i] = st[i].cpu
      BY <1>0, <3>1, <3>2 DEF Named
    <3> QED BY <1>4, <1>14, <2>2, <3>1, <3>2, <3>3
  <2> QED BY <2>1, <2>2
<1>21. Pins(st2, c2, sp)
  <2> SUFFICES ASSUME NEW d \in DOMAIN c2.map \ sp PROVE Pinned(st2, c2, d)
    BY DEF Pins
  <2>1. CASE d = b
    <3>1. c2.bytes[c2.map[b]] = x
      BY <1>4, <1>14, <1>15
    <3>2. Belongs(x, b)
      BY <2>1 DEF Current, Belongs
    <3> QED BY <1>10, <1>12, <1>13, <2>1, <3>1, <3>2 DEF Pinned
  <2>2. CASE d # b
    <3>1. d \in DOMAIN c.map \ {w, b} /\ d \notin sp
      BY <1>4, <1>14, <2>2
    <3>2. Pinned(st, c, d)
      BY <1>0, <3>1 DEF Pins
    <3>3. c2.map[d] = c.map[d] /\ c.map[d] \in 1 .. CpuSlots \ {slot}
      BY <1>0, <1>4, <1>14, <3>1 DEF TierOK
    <3>4. c2.bytes[c2.map[d]] = c.bytes[c.map[d]]
      BY <1>15, <3>3
    <3>5. d \in DOMAIN st2 /\ Like(st[d], st2[d])
      BY <1>13, <1>19, <3>1, <3>2 DEF Pinned
    <3> QED BY <3>2, <3>3, <3>4, <3>5 DEF Pinned, Like, Alike
  <2> QED BY <2>1, <2>2
<1>22. \A i \in DOMAIN st \ {b} : Alike(st[i], st2[i])
  BY <1>6, <1>13
<1>23. BlocksOK(st2, c2, s.nvme, sp, {})
  BY <1>6, <1>13, <1>14, <1>16, <1>17, <1>18, <1>20, <1>21 DEF BlocksOK, TablesOK
<1>24. Staged(st, b, sp, Parts(st2, c2, s.nvme))
  BY <1>12, <1>13, <1>22, <1>23, PartsAre DEF Staged
<1> QED BY <1>3, <1>24

\* Without a pinned tier no block has a pinned copy.
LEMMA NonePinned ==
    ASSUME CpuSlots = 0, NEW st \in Seq(Block), NEW c, TierOK(c, CpuSlots), NEW sp, NEW lost
    PROVE  Pins(st, c, sp) /\ Named(st, c, lost)
<1>1. DOMAIN c.map = {}
  BY DEF TierOK
<1>2. ASSUME NEW i \in DOMAIN st PROVE st[i].cpu = 0
  <2>1. st[i] \in Block
    OBVIOUS
  <2>2. st[i].cpu \in 0 .. CpuSlots
    BY <2>1 DEF Block
  <2> QED BY <2>2
<1> QED BY <1>1, <1>2 DEF Pins, Named

LEMMA StagedToNvmeIs ==
    ASSUME CpuSlots = 0,
           NEW sp, NEW st, NEW c, NEW nv, BlocksOK(st, c, nv, sp, {}),
           NEW b \in DOMAIN st, st[b].gpu # 0, NEW x \in Bytes, b \notin sp => Current(x, b, st[b])
    PROVE  Staged(st, b, sp, StagedToNvme(Parts(st, c, nv), b, x))
<1> DEFINE s == SpilledToNvme(Parts(st, c, nv), b, x)
           tier == IF NvmeSlots > 0 THEN "SSD" ELSE "CPU"
           r == [s.store[b] EXCEPT !.tier = tier, !.gpu = 0, !.cpu = 0, !.kept = x]
           st2 == [s.store EXCEPT ![b] = r]
<1>0. /\ st \in Seq(Block) /\ TierOK(c, CpuSlots) /\ TierOK(nv, NvmeSlots) /\ b \in Nat \ {0}
      /\ Marked(st) /\ KeptOK(st, sp) /\ Backings(st, nv, sp)
  BY DEF BlocksOK, TablesOK
<1>1. StagedToNvme(Parts(st, c, nv), b, x) = Parts(st2, s.cpu, s.nvme)
  BY DEF StagedToNvme, Parts
<1>2. st[b].tier = "GPU" /\ (b \notin sp => Belongs(x, b)) /\ st[b] \in Block
  BY <1>0 DEF Marked, Current, Belongs
<1>3. Spilled(st, b, x, sp, s.store, s.nvme) /\ s.cpu = c
  BY <1>0, <1>2, SpillIs
<1> HIDE DEF s
<1>4. /\ s.store \in Seq(Block) /\ DOMAIN s.store = DOMAIN st /\ s.store[b] \in Block
      /\ TierOK(s.nvme, NvmeSlots) /\ Backings(s.store, s.nvme, sp)
      /\ \A i \in DOMAIN st : Like(st[i], s.store[i])
  BY <1>3 DEF Spilled
<1>5. tier \in {"CPU", "SSD"} /\ (tier = "CPU" <=> NvmeSlots = 0) /\ NvmeSlots \in Nat
      /\ 0 \in 0 .. CpuSlots /\ 0 \in 0 .. GpuSlots
  BY Slots
<1> HIDE DEF tier
<1>6. Alike(st[b], s.store[b])
  BY <1>4 DEF Like
<1>7. /\ r \in Block /\ r.cpu = 0 /\ r.tier = tier /\ r.gpu = 0 /\ r.v = st[b].v
      /\ r.kept = x /\ r.nvme = s.store[b].nvme /\ r.older = st[b].older
  BY <1>4, <1>5, <1>6 DEF Block, Alike
<1> HIDE DEF r
<1>8. /\ st2 \in Seq(Block) /\ DOMAIN st2 = DOMAIN st /\ st2[b] = r
      /\ \A i \in DOMAIN st \ {b} : st2[i] = s.store[i]
  BY <1>4, <1>7, Replaced
<1> HIDE DEF st2
<1>9. \A i \in DOMAIN st \ {b} : Like(st[i], st2[i]) /\ Alike(st[i], st2[i])
  BY <1>4, <1>8 DEF Like
<1>10. Marked(st2)
  <2> SUFFICES ASSUME NEW i \in DOMAIN st2
               PROVE  /\ st2[i].gpu # 0 <=> st2[i].tier = "GPU"
                      /\ st2[i].tier = "SSD" => st2[i].cpu = 0
    BY DEF Marked
  <2>1. CASE i = b
    BY <1>5, <1>7, <1>8, <2>1
  <2>2. CASE i # b
    <3>1. i \in DOMAIN st /\ Like(st[i], st2[i])
      BY <1>8, <1>9, <2>2
    <3> QED BY <1>0, <3>1 DEF Marked, Like, Alike
  <2> QED BY <2>1, <2>2
<1>11. KeptOK(st2, sp)
  <2> SUFFICES ASSUME NEW i \in DOMAIN st2 \ sp, st2[i].gpu = 0
               PROVE  Current(st2[i].kept, i, st2[i])
    BY DEF KeptOK
  <2>1. CASE i = b
    BY <1>7, <1>8, <2>1, CurrentKept
  <2>2. CASE i # b
    <3>1. i \in DOMAIN st \ sp /\ Alike(st[i], st2[i])
      BY <1>8, <1>9, <2>2
    <3>2. Current(st[i].kept, i, st[i])
      BY <1>0, <3>1 DEF KeptOK, Alike
    <3> QED BY <3>1, <3>2, CurrentKept DEF Alike
  <2> QED BY <2>1, <2>2
<1>12. Backings(st2, s.nvme, sp)
  <2> SUFFICES ASSUME NEW d \in DOMAIN s.nvme.map \ sp PROVE Backing(st2, s.nvme, d)
    BY DEF Backings
  <2>1. Backing(s.store, s.nvme, d)
    BY <1>4 DEF Backings
  <2>2. CASE d = b
    <3>1. NvmeSlots # 0
      BY <1>4, <2>2 DEF TierOK
    <3>2. s.nvme.bytes[s.nvme.map[b]] = x
      BY <1>3, <3>1 DEF Spilled
    <3> QED BY <1>4, <1>5, <1>7, <1>8, <2>1, <2>2, <3>1, <3>2 DEF Backing
  <2>3. CASE d # b
    BY <1>4, <1>8, <2>1, <2>3 DEF Backing
  <2> QED BY <2>2, <2>3
<1>13. BlocksOK(st2, c, s.nvme, sp, {})
  BY <1>0, <1>4, <1>8, <1>10, <1>11, <1>12, NonePinned DEF BlocksOK, TablesOK
<1>14. Staged(st, b, sp, Parts(st2, c, s.nvme))
  BY <1>7, <1>8, <1>9, <1>13, PartsAre DEF Staged
<1> QED BY <1>1, <1>3, <1>14

\* stage_out throws in a write to NVMe for block w, b being the block that was
\* to leave the GPU; c2 is the pinned tier after it placed b.
Breaks(st, c, nv, sp, b, w, x, c2) ==
    /\ NvmeSlots # 0 /\ BlocksOK(st, c, nv, sp, {}) /\ w \in Nat \ {0} /\ x \in Bytes
    /\ TierOK(c2, CpuSlots) /\ c2.bytes = c.bytes
    /\ DOMAIN c2.map \subseteq DOMAIN c.map \cup {b} /\ DOMAIN c.map \ {b, w} \subseteq DOMAIN c2.map
    /\ \A d \in DOMAIN c.map \ {b, w} : c2.map[d] = c.map[d]

\* What the tables s then still promise of the ids that are not in sp.
Broken(st, sp, s) ==
    /\ BlocksOK(s.store, s.cpu, s.nvme, sp, sp) /\ DOMAIN s.store = DOMAIN st
    /\ \A i \in DOMAIN st : Alike(st[i], s.store[i])

LEMMA BrokenIs ==
    ASSUME NEW sp, NEW st, NEW c, NEW nv, NEW b, NEW w, NEW x, NEW c2,
           Breaks(st, c, nv, sp, b, w, x, c2)
    PROVE  Broken(st, sp \cup {b, w}, SpillBroken(Parts(st, c2, nv), w, x))
<1> DEFINE p == PlaceEvicting(nv, w)
           s == SpillBroken(Parts(st, c2, nv), w, x)
           sp2 == sp \cup {b, w}
           st2 == Unbacked(st, w, p.victim)
           nv2 == Written(p.tier, p.slot, x)
<1>0. /\ st \in Seq(Block) /\ TierOK(nv, NvmeSlots) /\ Marked(st) /\ KeptOK(st, sp)
      /\ Backings(st, nv, sp) /\ Pins(st, c, sp) /\ Named(st, c, {})
      /\ NvmeSlots # 0 /\ w \in Nat \ {0} /\ x \in Bytes
      /\ TierOK(c2, CpuSlots) /\ c2.bytes = c.bytes
      /\ DOMAIN c2.map \subseteq DOMAIN c.map \cup {b} /\ DOMAIN c.map \ {b, w} \subseteq DOMAIN c2.map
      /\ \A d \in DOMAIN c.map \ {b, w} : c2.map[d] = c.map[d]
  BY DEF Breaks, BlocksOK, TablesOK
<1>1. s.store = st2 /\ s.cpu = c2 /\ s.nvme = nv2
  BY DEF SpillBroken, Parts
<1> HIDE DEF s
<1>2. p = PlaceEvicting(nv, w)
  OBVIOUS
<1> HIDE DEF p
<1>3. /\ st2 \in Seq(Block) /\ DOMAIN st2 = DOMAIN st
      /\ \A i \in DOMAIN st : Like(st[i], st2[i])
      /\ \A i \in DOMAIN st \ ({p.victim} \ {w}) : st2[i] = st[i]
  BY <1>0, UnbackedIs
<1> HIDE DEF st2
<1>4. \A i \in DOMAIN st \ {w, p.victim} : st2[i] = st[i]
  BY <1>3
<1>5. Backings(st, nv, sp2) /\ w \in sp2
  BY <1>0 DEF Backings
<1> HIDE DEF sp2
<1>6. TierOK(nv2, NvmeSlots) /\ Backings(st2, nv2, sp2)
  <2>1. Given(sp2, st, nv, w, x, p, st2)
    BY <1>0, <1>2, <1>3, <1>4, <1>5 DEF Given
  <2> QED BY <2>1, NvmeTaken
<1> USE DEF sp2
<1> HIDE DEF nv2
<1>7. Marked(st2)
  BY <1>0, <1>3 DEF Marked, Like, Alike
<1>8. KeptOK(st2, sp2)
  <2> SUFFICES ASSUME NEW i \in DOMAIN st2 \ sp2, st2[i].gpu = 0
               PROVE  Current(st2[i].kept, i, st2[i])
    BY DEF KeptOK
  <2>1. i \in DOMAIN st \ sp /\ Alike(st[i], st2[i])
    BY <1>3 DEF Like
  <2>2. Current(st[i].kept, i, st[i])
    BY <1>0, <2>1 DEF KeptOK, Alike
  <2> QED BY <2>1, <2>2, CurrentKept DEF Alike
<1>9. Pins(st2, c2, sp2)
  <2> SUFFICES ASSUME NEW d \in DOMAIN c2.map \ sp2 PROVE Pinned(st2, c2, d)
    BY DEF Pins
  <2>1. d \in DOMAIN c.map \ {b, w} /\ d \notin sp /\ c2.map[d] = c.map[d]
    BY <1>0
  <2>2. Pinned(st, c, d)
    BY <1>0, <2>1 DEF Pins
  <2>3. d \in DOMAIN st2 /\ Like(st[d], st2[d])
    BY <1>3, <2>2 DEF Pinned
  <2> QED BY <1>0, <2>1, <2>2, <2>3 DEF Pinned, Like, Alike
<1>10. Named(st2, c2, sp2)
  <2> SUFFICES ASSUME NEW d \in DOMAIN st2 \ sp2, st2[d].cpu # 0
               PROVE  d \in DOMAIN c2.map /\ c2.map[d] = st2[d].cpu
    BY DEF Named
  <2>1. d \in DOMAIN st /\ st2[d].cpu = st[d].cpu
    BY <1>3 DEF Like
  <2>2. d \in DOMAIN c.map /\ c.map[d] = st[d].cpu
    BY <1>0, <2>1 DEF Named
  <2>3. d \in DOMAIN c.map \ {b, w}
    BY <2>2
  <2> QED BY <1>0, <2>1, <2>2, <2>3
<1>11. BlocksOK(st2, c2, nv2, sp2, sp2)
  BY <1>0, <1>3, <1>6, <1>7, <1>8, <1>9, <1>10 DEF BlocksOK, TablesOK
<1>12. \A i \in DOMAIN st : Alike(st[i], st2[i])
  BY <1>3 DEF Like
<1>13. Broken(st, sp2, s)
  BY <1>1, <1>3, <1>11, <1>12 DEF Broken
<1> QED BY <1>13 DEF s

-----------------------------------------------------------------------------
(* GPU slots                                                                *)

LEMMA IdsAre == ASSUME store \in Seq(Block) PROVE Ids = DOMAIN store /\ Resident = OnGpu(store)
BY DEF Ids, Resident, OnGpu

LEMMA GpuSlot ==
    ASSUME NEW st \in Seq(Block), NEW fr, NEW queued, GpuOK(st, fr, queued), NEW b \in DOMAIN st,
           st[b].gpu # 0
    PROVE  st[b].gpu \in 1 .. GpuSlots /\ st[b].gpu \notin fr /\ st[b].gpu \notin queued
BY DEF GpuOK, OnGpu

\* A block that had no slot takes a free one.
Takes(st, st2, b, k) ==
    /\ b \notin OnGpu(st) /\ DOMAIN st2 = DOMAIN st \cup {b} /\ st2[b].gpu = k
    /\ \A i \in DOMAIN st \ {b} : /\ st2[i].gpu = st[i].gpu /\ st2[i].v = st[i].v
                                  /\ st[i].older => st2[i].older

LEMMA GpuTaken ==
    ASSUME NEW st, NEW st2, NEW fr, NEW queued, GpuOK(st, fr, queued), NEW k, k \in fr,
           NEW b, Takes(st, st2, b, k)
    PROVE  GpuOK(st2, fr \ {k}, queued) /\ OnGpu(st2) = OnGpu(st) \cup {b}
<1>0. /\ b \notin OnGpu(st) /\ DOMAIN st2 = DOMAIN st \cup {b} /\ st2[b].gpu = k
      /\ \A i \in DOMAIN st \ {b} : st2[i].gpu = st[i].gpu
  BY DEF Takes
<1>1. k \in 1 .. GpuSlots /\ k # 0 /\ k \notin queued
  BY Slots DEF GpuOK
<1>2. OnGpu(st2) = OnGpu(st) \cup {b}
  BY <1>0, <1>1 DEF OnGpu
<1>3. \A i \in OnGpu(st) : i # b /\ st2[i].gpu = st[i].gpu /\ st[i].gpu # k
  BY <1>0 DEF OnGpu, GpuOK
<1>4. \A i \in OnGpu(st2) : st2[i].gpu \in 1 .. GpuSlots \ ((fr \ {k}) \cup queued)
  BY <1>0, <1>1, <1>2, <1>3 DEF GpuOK
<1>5. \A i, j \in OnGpu(st2) : st2[i].gpu = st2[j].gpu => i = j
  BY <1>0, <1>2, <1>3 DEF GpuOK
<1>6. ASSUME NEW x \in 1 .. GpuSlots, x \notin fr \ {k}, x \notin queued
      PROVE  \E i \in OnGpu(st2) : st2[i].gpu = x
  <2>1. CASE x = k
    BY <1>0, <1>2, <2>1
  <2>2. CASE x # k
    <3>1. PICK i \in OnGpu(st) : st[i].gpu = x
      BY <1>6, <2>2 DEF GpuOK
    <3> QED BY <1>2, <1>3, <3>1
  <2> QED BY <2>1, <2>2
<1>7. fr \ {k} \subseteq 1 .. GpuSlots /\ queued \subseteq 1 .. GpuSlots /\ (fr \ {k}) \cap queued = {}
  BY DEF GpuOK
<1> QED BY <1>2, <1>4, <1>5, <1>6, <1>7 DEF GpuOK

\* It is filled with bytes of that block.
LEMMA HeldTaken ==
    ASSUME NEW st, NEW st2, NEW fr, NEW queued, GpuOK(st, fr, queued), NEW k, k \in fr,
           NEW g, g \in [1 .. GpuSlots -> Bytes], NEW sp, HeldOK(st, g, sp), NEW x, x \in Bytes,
           NEW b, Takes(st, st2, b, k), b \notin sp => Current(x, b, st2[b])
    PROVE  HeldOK(st2, [g EXCEPT ![k] = x], sp) /\ [g EXCEPT ![k] = x] \in [1 .. GpuSlots -> Bytes]
<1> DEFINE g2 == [g EXCEPT ![k] = x]
<1>0. /\ st2[b].gpu = k /\ OnGpu(st2) = OnGpu(st) \cup {b}
      /\ \A i \in OnGpu(st) : /\ st2[i].gpu = st[i].gpu /\ st2[i].v = st[i].v
                              /\ st[i].older => st2[i].older
  <2>1. k # 0
    BY Slots DEF GpuOK
  <2>2. OnGpu(st2) = OnGpu(st) \cup {b}
    BY <2>1 DEF Takes, OnGpu
  <2> QED BY <2>2 DEF Takes, OnGpu
<1>1. k \in 1 .. GpuSlots
  BY DEF GpuOK
<1>2. g2 \in [1 .. GpuSlots -> Bytes] /\ g2[k] = x /\ \A j \in 1 .. GpuSlots \ {k} : g2[j] = g[j]
  BY <1>1
<1> HIDE DEF g2
<1>3. ASSUME NEW i \in OnGpu(st2) \ sp PROVE Current(g2[st2[i].gpu], i, st2[i])
  <2>1. CASE i = b
    BY <1>0, <1>2, <2>1
  <2>2. CASE i # b
    <3>1. i \in OnGpu(st) /\ st[i].gpu \in 1 .. GpuSlots \ {k} /\ st2[i].gpu = st[i].gpu
      BY <1>0, <2>2 DEF GpuOK
    <3>2. g2[st2[i].gpu] = g[st[i].gpu] /\ Current(g[st[i].gpu], i, st[i])
      BY <1>2, <3>1 DEF HeldOK
    <3> QED BY <1>0, <3>1, <3>2, CurrentKept
  <2> QED BY <2>1, <2>2
<1> QED BY <1>2, <1>3 DEF HeldOK, g2

\* A slot of the pool can be chosen.
LEMMA FreeSlot == ASSUME free # {} PROVE AnyFree \in free
BY DEF AnyFree

\* The blocks keep their slots.
LEMMA GpuSame ==
    ASSUME NEW st, NEW st2, NEW fr, NEW queued, GpuOK(st, fr, queued), DOMAIN st2 = DOMAIN st,
           \A i \in DOMAIN st : st2[i].gpu = st[i].gpu
    PROVE  GpuOK(st2, fr, queued) /\ OnGpu(st2) = OnGpu(st)
<1>1. OnGpu(st2) = OnGpu(st) /\ \A i \in OnGpu(st) : i \in DOMAIN st
  BY DEF OnGpu
<1> QED BY <1>1 DEF GpuOK

\* A resident block's slot is written with bytes of that block.
LEMMA HeldWritten ==
    ASSUME NEW st, NEW st2, NEW fr, NEW queued, GpuOK(st, fr, queued),
           NEW g \in [1 .. GpuSlots -> Bytes], NEW sp, HeldOK(st, g, sp), NEW x \in Bytes,
           NEW b \in OnGpu(st), DOMAIN st2 = DOMAIN st,
           \A i \in DOMAIN st : st2[i].gpu = st[i].gpu,
           b \notin sp => Current(x, b, st2[b]),
           \A i \in DOMAIN st \ {b} : st2[i].v = st[i].v /\ (st[i].older => st2[i].older)
    PROVE  /\ HeldOK(st2, [g EXCEPT ![st[b].gpu] = x], sp)
           /\ [g EXCEPT ![st[b].gpu] = x] \in [1 .. GpuSlots -> Bytes]
<1> DEFINE k == st[b].gpu
           g2 == [g EXCEPT ![k] = x]
<1>1. k \in 1 .. GpuSlots /\ b \in DOMAIN st
  BY DEF GpuOK, OnGpu
<1>2. g2 \in [1 .. GpuSlots -> Bytes] /\ g2[k] = x /\ \A j \in 1 .. GpuSlots \ {k} : g2[j] = g[j]
  BY <1>1
<1> HIDE DEF g2
<1>3. ASSUME NEW i \in OnGpu(st2) \ sp PROVE Current(g2[st2[i].gpu], i, st2[i])
  <2>1. i \in OnGpu(st) /\ i \in DOMAIN st /\ st2[i].gpu = st[i].gpu
    BY DEF OnGpu
  <2>2. CASE i = b
    BY <1>2, <2>1, <2>2
  <2>3. CASE i # b
    <3>1. st[i].gpu \in 1 .. GpuSlots \ {k}
      BY <2>1, <2>3 DEF GpuOK
    <3>2. g2[st2[i].gpu] = g[st[i].gpu] /\ Current(g[st[i].gpu], i, st[i])
      BY <1>2, <2>1, <3>1 DEF HeldOK
    <3> QED BY <2>1, <2>3, <3>2, CurrentKept
  <2> QED BY <2>2, <2>3
<1> QED BY <1>2, <1>3 DEF HeldOK, g2

\* Fewer blocks may be resident, with the same rows in their slots.
LEMMA HeldSame ==
    ASSUME NEW st, NEW st2, NEW g, NEW sp, HeldOK(st, g, sp), NEW sp2, sp \subseteq sp2,
           \A i \in OnGpu(st2) : /\ i \in OnGpu(st) /\ st2[i].gpu = st[i].gpu /\ st2[i].v = st[i].v
                                 /\ st[i].older => st2[i].older
    PROVE  HeldOK(st2, g, sp2)
<1> SUFFICES ASSUME NEW i \in OnGpu(st2) \ sp2 PROVE Current(g[st2[i].gpu], i, st2[i])
  BY DEF HeldOK
<1>1. i \in OnGpu(st) \ sp
  OBVIOUS
<1>2. Current(g[st[i].gpu], i, st[i])
  BY <1>1 DEF HeldOK
<1> QED BY <1>2, CurrentKept

-----------------------------------------------------------------------------
(* The tables under the other changes of a block                            *)

\* A block is on the GPU now: its pinned copy is kept, or dropped with it.
LEMMA Promoted ==
    ASSUME NEW sp, NEW lost, NEW st, NEW c, NEW nv, BlocksOK(st, c, nv, sp, lost),
           NEW b \in DOMAIN st, NEW r \in Block,
           r.tier = "GPU", r.gpu # 0, r.nvme = st[b].nvme,
           NEW c2, TierOK(c2, CpuSlots), c2.bytes = c.bytes,
           DOMAIN c.map \ {b} \subseteq DOMAIN c2.map, DOMAIN c2.map \subseteq DOMAIN c.map,
           \A d \in DOMAIN c2.map : c2.map[d] = c.map[d],
           \/ r.cpu = st[b].cpu /\ DOMAIN c2.map = DOMAIN c.map
           \/ r.cpu = 0 /\ (b \in DOMAIN c2.map => b \in sp),
           NEW nv2, TierOK(nv2, NvmeSlots), nv2.map = nv.map, nv2.bytes = nv.bytes
    PROVE  BlocksOK([st EXCEPT ![b] = r], c2, nv2, sp, lost)
<1> DEFINE st2 == [st EXCEPT ![b] = r]
<1>1. /\ st2 \in Seq(Block) /\ DOMAIN st2 = DOMAIN st /\ st2[b] = r
      /\ \A i \in DOMAIN st \ {b} : st2[i] = st[i]
  BY Replaced DEF BlocksOK, TablesOK
<1> HIDE DEF st2
<1>2. /\ Marked(st) /\ KeptOK(st, sp) /\ Backings(st, nv, sp) /\ Pins(st, c, sp)
      /\ Named(st, c, lost)
  BY DEF BlocksOK, TablesOK
<1>3. Marked(st2)
  <2> SUFFICES ASSUME NEW i \in DOMAIN st2
               PROVE  /\ st2[i].gpu # 0 <=> st2[i].tier = "GPU"
                      /\ st2[i].tier = "SSD" => st2[i].cpu = 0
    BY DEF Marked
  <2>1. CASE i = b
    BY <1>1, <2>1
  <2>2. CASE i # b
    BY <1>1, <1>2, <2>2 DEF Marked
  <2> QED BY <2>1, <2>2
<1>4. KeptOK(st2, sp)
  BY <1>1, <1>2 DEF KeptOK
<1>5. Backings(st2, nv2, sp)
  <2> SUFFICES ASSUME NEW d \in DOMAIN nv2.map \ sp PROVE Backing(st2, nv2, d)
    BY DEF Backings
  <2>1. Backing(st, nv, d)
    BY <1>2 DEF Backings
  <2>2. CASE d = b
    BY <1>1, <2>1, <2>2 DEF Backing
  <2>3. CASE d # b
    BY <1>1, <2>1, <2>3 DEF Backing
  <2> QED BY <2>2, <2>3
<1>6. Pins(st2, c2, sp)
  <2> SUFFICES ASSUME NEW d \in DOMAIN c2.map \ sp PROVE Pinned(st2, c2, d)
    BY DEF Pins
  <2>1. Pinned(st, c, d) /\ c2.map[d] = c.map[d]
    BY <1>2 DEF Pins
  <2>2. CASE d = b
    <3>1. r.cpu = st[b].cpu
      BY <2>2
    <3> QED BY <1>1, <2>1, <2>2, <3>1 DEF Pinned
  <2>3. CASE d # b
    BY <1>1, <2>1, <2>3 DEF Pinned
  <2> QED BY <2>2, <2>3
<1>7. Named(st2, c2, lost)
  <2> SUFFICES ASSUME NEW d \in DOMAIN st2 \ lost, st2[d].cpu # 0
               PROVE  d \in DOMAIN c2.map /\ c2.map[d] = st2[d].cpu
    BY DEF Named
  <2>1. st2[d].cpu = st[d].cpu /\ d \in DOMAIN st
    BY <1>1
  <2>2. d \in DOMAIN c.map /\ c.map[d] = st[d].cpu
    BY <1>2, <2>1 DEF Named
  <2>3. d \in DOMAIN c2.map
    BY <1>1, <2>2
  <2> QED BY <2>1, <2>2, <2>3
<1>8. BlocksOK(st2, c2, nv2, sp, lost)
  BY <1>1, <1>3, <1>4, <1>5, <1>6, <1>7 DEF BlocksOK, TablesOK
<1> QED BY <1>8 DEF st2

\* Blocks are cut off, or lose rows, and the tables forget those that are gone.
LEMMA BlocksCut ==
    ASSUME NEW sp, NEW lost, NEW st, NEW c, NEW nv, BlocksOK(st, c, nv, sp, lost),
           NEW st2 \in Seq(Block), DOMAIN st2 \subseteq DOMAIN st,
           \A i \in DOMAIN st2 : Like(st[i], st2[i]) /\ st2[i].nvme = st[i].nvme,
           NEW gone, gone = DOMAIN st \ DOMAIN st2
    PROVE  BlocksOK(st2, Released(c, {b \in gone : st[b].cpu # 0}),
                    Released(nv, {b \in gone : st[b].nvme # 0}), sp, lost)
<1> DEFINE C == {b \in gone : st[b].cpu # 0}
           N == {b \in gone : st[b].nvme # 0}
           c2 == Released(c, C)
           nv2 == Released(nv, N)
<1>1. /\ Marked(st) /\ KeptOK(st, sp) /\ Backings(st, nv, sp) /\ Pins(st, c, sp)
      /\ Named(st, c, lost) /\ TierOK(c, CpuSlots) /\ TierOK(nv, NvmeSlots)
  BY DEF BlocksOK, TablesOK
<1>2. CpuSlots \in Nat /\ NvmeSlots \in Nat
  BY Slots
<1>3. /\ TierOK(c2, CpuSlots) /\ DOMAIN c2.map = DOMAIN c.map \ C
      /\ \A d \in DOMAIN c.map \ C : c2.map[d] = c.map[d]
      /\ c2.bytes = c.bytes
  BY <1>1, <1>2, ReleasedIs
<1>4. /\ TierOK(nv2, NvmeSlots) /\ DOMAIN nv2.map = DOMAIN nv.map \ N
      /\ \A d \in DOMAIN nv.map \ N : nv2.map[d] = nv.map[d]
      /\ nv2.bytes = nv.bytes
  BY <1>1, <1>2, ReleasedIs
<1> HIDE DEF c2, nv2
<1>5. \A i \in DOMAIN st2 : i \in DOMAIN st /\ i \notin gone /\ Alike(st[i], st2[i])
  BY DEF Like
<1>6. Marked(st2)
  BY <1>1 DEF Marked, Like, Alike
<1>7. KeptOK(st2, sp)
  <2> SUFFICES ASSUME NEW i \in DOMAIN st2 \ sp, st2[i].gpu = 0
               PROVE  Current(st2[i].kept, i, st2[i])
    BY DEF KeptOK
  <2>1. i \in DOMAIN st \ sp /\ Alike(st[i], st2[i])
    BY <1>5
  <2>2. Current(st[i].kept, i, st[i])
    BY <1>1, <2>1 DEF KeptOK, Alike
  <2> QED BY <2>1, <2>2, CurrentKept DEF Alike
<1>8. Backings(st2, nv2, sp)
  <2> SUFFICES ASSUME NEW d \in DOMAIN nv2.map \ sp PROVE Backing(st2, nv2, d)
    BY DEF Backings
  <2>1. d \in DOMAIN nv.map /\ nv2.map[d] = nv.map[d] /\ nv.map[d] # 0 /\ d \notin N
    BY <1>1, <1>4 DEF TierOK
  <2>2. Backing(st, nv, d)
    BY <1>1, <2>1 DEF Backings
  <2>3. d \in DOMAIN st2
    BY <2>1, <2>2 DEF Backing
  <2>4. Like(st[d], st2[d]) /\ st2[d].nvme = st[d].nvme
    BY <2>3
  <2> QED BY <1>4, <2>1, <2>2, <2>3, <2>4 DEF Backing, Like, Alike
<1>9. Pins(st2, c2, sp)
  <2> SUFFICES ASSUME NEW d \in DOMAIN c2.map \ sp PROVE Pinned(st2, c2, d)
    BY DEF Pins
  <2>1. d \in DOMAIN c.map /\ d \notin C /\ c2.map[d] = c.map[d]
    BY <1>3
  <2>2. Pinned(st, c, d)
    BY <1>1, <2>1 DEF Pins
  <2>3. d \in DOMAIN st2
    BY <2>1, <2>2 DEF Pinned
  <2>4. Like(st[d], st2[d])
    BY <2>3
  <2> QED BY <1>3, <2>1, <2>2, <2>3, <2>4 DEF Pinned, Like, Alike
<1>10. Named(st2, c2, lost)
  <2> SUFFICES ASSUME NEW d \in DOMAIN st2 \ lost, st2[d].cpu # 0
               PROVE  d \in DOMAIN c2.map /\ c2.map[d] = st2[d].cpu
    BY DEF Named
  <2>1. d \in DOMAIN st /\ d \notin gone /\ st2[d].cpu = st[d].cpu
    BY <1>5 DEF Like
  <2>2. d \in DOMAIN c.map /\ c.map[d] = st[d].cpu
    BY <1>1, <2>1 DEF Named
  <2>3. d \notin C
    BY <2>1
  <2> QED BY <1>3, <2>1, <2>2, <2>3
<1>11. BlocksOK(st2, c2, nv2, sp, lost)
  BY <1>3, <1>4, <1>6, <1>7, <1>8, <1>9, <1>10 DEF BlocksOK, TablesOK
<1> QED BY <1>11 DEF c2, nv2

\* Only what a block says of its rows changes, or the order of recency on NVMe.
LEMMA Relabelled ==
    ASSUME NEW sp, NEW lost, NEW st, NEW c, NEW nv, BlocksOK(st, c, nv, sp, lost),
           NEW st2 \in Seq(Block), DOMAIN st2 = DOMAIN st, KeptOK(st2, sp),
           \A i \in DOMAIN st : /\ st2[i].tier = st[i].tier /\ st2[i].gpu = st[i].gpu
                                /\ st2[i].cpu = st[i].cpu /\ st2[i].nvme = st[i].nvme
                                /\ st2[i].kept = st[i].kept,
           NEW nv2, TierOK(nv2, NvmeSlots), nv2.map = nv.map, nv2.bytes = nv.bytes
    PROVE  BlocksOK(st2, c, nv2, sp, lost)
<1>1. /\ Marked(st) /\ Backings(st, nv, sp) /\ Pins(st, c, sp) /\ TierOK(c, CpuSlots)
      /\ Named(st, c, lost)
  BY DEF BlocksOK, TablesOK
<1>2. Marked(st2)
  BY <1>1 DEF Marked
<1>3. Backings(st2, nv2, sp)
  BY <1>1 DEF Backings, Backing
<1>4. Pins(st2, c, sp)
  BY <1>1 DEF Pins, Pinned
<1>5. Named(st2, c, lost)
  BY <1>1 DEF Named
<1> QED BY <1>1, <1>2, <1>3, <1>4, <1>5 DEF BlocksOK, TablesOK

-----------------------------------------------------------------------------
(* The steps                                                                *)

LEMMA InitSafe == Init => TiersInv
<1> SUFFICES ASSUME Init PROVE TiersInv
  OBVIOUS
<1>1. /\ store = <<>> /\ gpu = [i \in 1 .. GpuSlots |-> NoBytes] /\ free = 1 .. GpuSlots
      /\ cpu = EmptyTier(CpuSlots) /\ nvme = EmptyTier(NvmeSlots)
      /\ plan = NoPlan /\ phase = "idle" /\ version = 0 /\ spoiled = {}
  BY DEF Init
<1>2. NoBytes \in Bytes
  BY DEF NoBytes, Bytes
<1>3. ASSUME NEW n \in Nat PROVE TierOK(EmptyTier(n), n)
  <2> DEFINE bytes == [i \in 1 .. n |-> NoBytes]
  <2>1. /\ <<>> \in [DOMAIN <<>> -> 1 .. n] /\ DOMAIN <<>> \subseteq Nat \ {0} /\ Injective(<<>>)
        /\ <<>> \in Seq(Nat) /\ Listed(<<>>) = DOMAIN <<>>
    BY DEF Injective, Listed
  <2>2. bytes \in [1 .. n -> Bytes]
    BY <1>2
  <2> HIDE DEF bytes
  <2>3. TierOK(Tier(<<>>, <<>>, bytes), n)
    BY <2>1, <2>2, TierIs
  <2> QED BY <2>3 DEF EmptyTier, bytes
<1>4. TierOK(cpu, CpuSlots) /\ TierOK(nvme, NvmeSlots)
  BY <1>1, <1>3, Slots
<1>5. DOMAIN cpu.map = {} /\ DOMAIN nvme.map = {} /\ DOMAIN store = {} /\ store \in Seq(Block)
  BY <1>1, Fields DEF EmptyTier
<1>6. BlocksOK(store, cpu, nvme, spoiled, Lost(phase, spoiled))
  BY <1>4, <1>5 DEF BlocksOK, TablesOK, Marked, KeptOK, Backings, Pins, Named
<1>7. plan.frees = {} /\ DOMAIN plan = {"in", "out", "selected", "prefetch", "frees"}
  BY <1>1 DEF NoPlan
<1>8. OnGpu(store) = {}
  BY <1>5 DEF OnGpu
<1>9. GpuOK(store, free, plan.frees) /\ HeldOK(store, gpu, spoiled)
  BY <1>1, <1>7, <1>8 DEF GpuOK, HeldOK
<1>10. PlanOK(store, plan, phase, spoiled)
  BY <1>1, <1>7 DEF PlanOK
<1>11. gpu \in [1 .. GpuSlots -> Bytes]
  BY <1>1, <1>2
<1> QED BY <1>1, <1>6, <1>7, <1>9, <1>10, <1>11 DEF TiersInv

LEMMA AppendToTailStep ==
    ASSUME TiersInv, NEW n \in 1 .. BlockRows, AppendToTail(n)
    PROVE  TiersInv'
<1> DEFINE tail == Len(store)
           slot == IF store[tail].gpu # 0 THEN store[tail].gpu ELSE AnyFree
           whole == store[tail].gpu # 0 /\ gpu[slot] = <<tail, store[tail].v>>
           r == [store[tail] EXCEPT !.n = @ + n, !.v = version + 1, !.gpu = slot, !.tier = "GPU"]
           x == IF whole THEN <<tail, version + 1>> ELSE Torn(tail)
<1>1. /\ store # <<>> /\ (store[tail].gpu = 0 => free # {})
      /\ store' = [store EXCEPT ![tail] = r] /\ gpu' = [gpu EXCEPT ![slot] = x]
      /\ free' = free \ {slot} /\ cpu' = cpu /\ nvme' = nvme /\ plan' = plan /\ phase' = phase
      /\ phase \in {"idle", "stuck"} /\ version' = version + 1 /\ spoiled' = spoiled
  <2>1. store' = [store EXCEPT ![tail] = r] /\ free' = free \ {slot}
    <3> HIDE DEF whole
    <3> QED BY DEF AppendToTail
  <2>2. store # <<>> /\ (store[tail].gpu = 0 => free # {})
    BY DEF AppendToTail
  <2>3. gpu' = [gpu EXCEPT ![slot] = x]
    BY Zenon DEF AppendToTail
  <2>4. /\ cpu' = cpu /\ nvme' = nvme /\ plan' = plan /\ phase' = phase
        /\ phase \in {"idle", "stuck"} /\ version' = version + 1 /\ spoiled' = spoiled
    BY DEF AppendToTail, Appending
  <2> QED BY <2>1, <2>2, <2>3, <2>4
<1>2. /\ gpu \in [1 .. GpuSlots -> Bytes] /\ version \in Nat /\ store \in Seq(Block)
      /\ BlocksOK(store, cpu, nvme, spoiled, Lost(phase, spoiled))
      /\ PlanOK(store, plan, phase, spoiled)
      /\ GpuOK(store, free, plan.frees) /\ HeldOK(store, gpu, spoiled)
      /\ TierOK(cpu, CpuSlots) /\ TierOK(nvme, NvmeSlots)
  BY DEF TiersInv, BlocksOK, TablesOK
<1>3. tail \in DOMAIN store /\ tail \in Nat \ {0} /\ store[tail] \in Block
  BY <1>1, <1>2
<1>4. slot \in 1 .. GpuSlots /\ slot \in 0 .. GpuSlots /\ slot \in Nat \ {0}
  <2>1. CASE store[tail].gpu # 0
    BY <1>2, <1>3, <2>1, GpuSlot, Slots
  <2>2. CASE store[tail].gpu = 0
    BY <1>1, <1>2, <2>2, FreeSlot, Slots DEF GpuOK
  <2> QED BY <2>1, <2>2
<1>5. /\ x \in Bytes /\ x[1] = tail /\ x[2] \in {0, version + 1}
  BY <1>2, <1>3 DEF Torn, Bytes
<1> HIDE DEF x
<1>6. slot = store[tail].gpu \/ (store[tail].gpu = 0 /\ slot \in free)
  BY <1>1, FreeSlot
<1> HIDE DEF slot, whole
<1>7. BlockRows \in Nat /\ n \in Nat
  BY TiersAssumption
<1>8. /\ r \in Block /\ r.tier = "GPU" /\ r.gpu = slot /\ r.nvme = store[tail].nvme
      /\ r.cpu = store[tail].cpu /\ r.kept = store[tail].kept /\ r.v = version + 1
  <2>1. store[tail].n + n \in Nat /\ version + 1 \in Nat
    BY <1>2, <1>3, <1>7 DEF Block
  <2> DEFINE rows == store[tail].n + n
             v == version + 1
  <2>2. r = [store[tail] EXCEPT !.n = rows, !.v = v, !.gpu = slot, !.tier = "GPU"]
    OBVIOUS
  <2>3. rows \in Nat /\ v \in Nat
    BY <2>1
  <2> HIDE DEF rows, v, r
  <2>4. /\ r \in Block /\ r.tier = "GPU" /\ r.gpu = slot /\ r.nvme = store[tail].nvme
        /\ r.cpu = store[tail].cpu /\ r.kept = store[tail].kept /\ r.v = v
    BY <1>3, <1>4, <2>2, <2>3 DEF Block
  <2> QED BY <2>4 DEF v
<1> HIDE DEF r
<1> DEFINE lost == Lost(phase, spoiled)
<1>10. BlocksOK(store', cpu, nvme, spoiled, lost)
  <2>1. BlocksOK(store, cpu, nvme, spoiled, lost)
    BY <1>2
  <2> HIDE DEF lost
  <2> QED BY <1>1, <1>2, <1>3, <1>4, <1>8, <2>1, Promoted
<1> HIDE DEF lost
<1>11. /\ DOMAIN store' = DOMAIN store /\ store'[tail] = r
       /\ \A i \in DOMAIN store \ {tail} : store'[i] = store[i]
  BY <1>1, <1>2, <1>3, <1>8, Replaced
<1>12. Current(x, tail, store'[tail])
  BY <1>5, <1>8, <1>11 DEF Current
<1>13. GpuOK(store', free', plan.frees) /\ HeldOK(store', gpu', spoiled) /\ gpu' \in [1 .. GpuSlots -> Bytes]
  <2>1. CASE slot = store[tail].gpu
    <3>1. \A i \in DOMAIN store : store'[i].gpu = store[i].gpu
      BY <1>8, <1>11, <2>1
    <3>2. GpuOK(store', free, plan.frees)
      BY <1>2, <1>11, <3>1, GpuSame
    <3>3. free' = free /\ tail \in OnGpu(store)
      BY <1>1, <1>2, <1>3, <1>4, <2>1 DEF GpuOK, OnGpu
    <3>4. gpu' = [gpu EXCEPT ![store[tail].gpu] = x]
      BY <1>1, <2>1
    <3>5. \A i \in DOMAIN store \ {tail} : store'[i].v = store[i].v /\ (store[i].older => store'[i].older)
      BY <1>11
    <3>6. HeldOK(store', gpu', spoiled) /\ gpu' \in [1 .. GpuSlots -> Bytes]
      BY <1>2, <1>5, <1>11, <1>12, <3>1, <3>3, <3>4, <3>5, HeldWritten
    <3> QED BY <3>2, <3>3, <3>6
  <2>2. CASE store[tail].gpu = 0 /\ slot \in free
    <3>1. Takes(store, store', tail, slot)
      BY <1>3, <1>8, <1>11, <2>2 DEF Takes, OnGpu
    <3>2. GpuOK(store', free \ {slot}, plan.frees)
      BY <1>2, <2>2, <3>1, GpuTaken
    <3>3. HeldOK(store', gpu', spoiled) /\ gpu' \in [1 .. GpuSlots -> Bytes]
      BY <1>1, <1>2, <1>5, <1>12, <2>2, <3>1, HeldTaken
    <3> QED BY <1>1, <3>2, <3>3
  <2> QED BY <1>6, <2>1, <2>2
<1>14. PlanOK(store', plan, phase, spoiled)
  BY <1>1, <1>2 DEF PlanOK
<1> QED BY <1>1, <1>2, <1>10, <1>13, <1>14 DEF TiersInv, lost

LEMMA AppendBlockStep ==
    ASSUME TiersInv, NEW n \in 1 .. BlockRows, AppendBlock(n)
    PROVE  TiersInv'
<1> DEFINE slot == AnyFree
           b == Len(store) + 1
           r == NewBlock(n, slot, version + 1)
           x == <<b, version + 1>>
<1>1. /\ free # {} /\ store' = Append(store, r) /\ gpu' = [gpu EXCEPT ![slot] = x]
      /\ free' = free \ {slot} /\ cpu' = cpu /\ nvme' = nvme /\ plan' = plan /\ phase' = phase
      /\ phase \in {"idle", "stuck"} /\ version' = version + 1 /\ spoiled' = spoiled
  BY DEF AppendBlock, Appending
<1>2. /\ gpu \in [1 .. GpuSlots -> Bytes] /\ version \in Nat /\ store \in Seq(Block)
      /\ BlocksOK(store, cpu, nvme, spoiled, Lost(phase, spoiled))
      /\ PlanOK(store, plan, phase, spoiled)
      /\ GpuOK(store, free, plan.frees) /\ HeldOK(store, gpu, spoiled)
      /\ TierOK(cpu, CpuSlots) /\ TierOK(nvme, NvmeSlots)
      /\ Marked(store) /\ KeptOK(store, spoiled) /\ Backings(store, nvme, spoiled)
      /\ Pins(store, cpu, spoiled) /\ Named(store, cpu, Lost(phase, spoiled))
  BY DEF TiersInv, BlocksOK, TablesOK
<1>3. slot \in free /\ slot \in 1 .. GpuSlots /\ slot \in 0 .. GpuSlots /\ slot \in Nat \ {0}
  <2>1. slot \in free
    BY <1>1, FreeSlot
  <2> HIDE DEF slot
  <2> QED BY <1>2, <2>1, Slots DEF GpuOK
<1> HIDE DEF slot
<1>4. x \in Bytes /\ x[1] = b /\ x[2] = version + 1
  BY <1>2 DEF Bytes
<1> HIDE DEF x
<1>5. BlockRows \in Nat /\ n \in Nat /\ 0 \in 0 .. CpuSlots /\ 0 \in 0 .. NvmeSlots
  BY TiersAssumption, Slots
<1>6. r \in Block /\ r.tier = "GPU" /\ r.gpu = slot /\ r.nvme = 0 /\ r.cpu = 0 /\ r.v = version + 1
  BY <1>2, <1>3, <1>5 DEF Block, NewBlock, NoBytes, Bytes
<1> HIDE DEF r
<1>7. /\ store' \in Seq(Block) /\ DOMAIN store' = DOMAIN store \cup {b} /\ store'[b] = r
      /\ \A i \in DOMAIN store : store'[i] = store[i] /\ i # b
      /\ b \notin DOMAIN store /\ b \in Nat
  BY <1>1, <1>2, <1>6
<1> HIDE DEF b
<1>8. Marked(store')
  <2> SUFFICES ASSUME NEW i \in DOMAIN store'
               PROVE  /\ store'[i].gpu # 0 <=> store'[i].tier = "GPU"
                      /\ store'[i].tier = "SSD" => store'[i].cpu = 0
    BY DEF Marked
  <2>1. CASE i = b
    BY <1>3, <1>6, <1>7, <2>1
  <2>2. CASE i # b
    <3>1. store'[i] = store[i] /\ i \in DOMAIN store
      BY <1>7, <2>2
    <3> QED BY <1>2, <3>1 DEF Marked
  <2> QED BY <2>1, <2>2
<1>9. Backings(store', nvme, spoiled)
  <2> SUFFICES ASSUME NEW d \in DOMAIN nvme.map \ spoiled PROVE Backing(store', nvme, d)
    BY DEF Backings
  <2>1. Backing(store, nvme, d)
    BY <1>2 DEF Backings
  <2>2. store'[d] = store[d] /\ d \in DOMAIN store'
    BY <1>7, <2>1 DEF Backing
  <2> QED BY <2>1, <2>2 DEF Backing
<1>10. KeptOK(store', spoiled)
  BY <1>2, <1>3, <1>6, <1>7 DEF KeptOK
<1>11. Pins(store', cpu, spoiled)
  <2> SUFFICES ASSUME NEW d \in DOMAIN cpu.map \ spoiled PROVE Pinned(store', cpu, d)
    BY DEF Pins
  <2>1. Pinned(store, cpu, d)
    BY <1>2 DEF Pins
  <2>2. store'[d] = store[d] /\ d \in DOMAIN store'
    BY <1>7, <2>1 DEF Pinned
  <2> QED BY <2>1, <2>2 DEF Pinned
<1>12. Named(store', cpu, Lost(phase, spoiled))
  BY <1>2, <1>6, <1>7 DEF Named
<1>13. BlocksOK(store', cpu, nvme, spoiled, Lost(phase, spoiled))
  BY <1>2, <1>7, <1>8, <1>9, <1>10, <1>11, <1>12 DEF BlocksOK, TablesOK
<1>14. Takes(store, store', b, slot)
  BY <1>6, <1>7 DEF Takes, OnGpu
<1>15. GpuOK(store', free \ {slot}, plan.frees)
  BY <1>2, <1>3, <1>14, GpuTaken
<1>16. HeldOK(store', gpu', spoiled) /\ gpu' \in [1 .. GpuSlots -> Bytes]
  <2>1. Current(x, b, store'[b])
    BY <1>4, <1>6, <1>7 DEF Current
  <2> QED BY <1>1, <1>2, <1>3, <1>4, <1>14, <2>1, HeldTaken
<1>17. PlanOK(store', plan, phase, spoiled)
  BY <1>1, <1>2 DEF PlanOK
<1> QED BY <1>1, <1>2, <1>13, <1>15, <1>16, <1>17 DEF TiersInv

LEMMA WritePackedStep ==
    ASSUME TiersInv, NEW b \in Ids, WritePacked(b)
    PROVE  TiersInv'
<1> DEFINE x == <<b, store[b].v>>
           r == [store[b] EXCEPT !.older = FALSE]
<1>1. /\ store[b].gpu # 0 /\ gpu' = [gpu EXCEPT ![store[b].gpu] = x] /\ phase = "idle"
      /\ store' = [store EXCEPT ![b] = r] /\ free' = free /\ cpu' = cpu /\ nvme' = nvme
      /\ plan' = plan /\ phase' = phase /\ version' = version /\ spoiled' = spoiled
  BY DEF WritePacked
<1>2. /\ gpu \in [1 .. GpuSlots -> Bytes] /\ version \in Nat /\ store \in Seq(Block)
      /\ BlocksOK(store, cpu, nvme, spoiled, Lost(phase, spoiled))
      /\ PlanOK(store, plan, phase, spoiled) /\ Ids = DOMAIN store
      /\ GpuOK(store, free, plan.frees) /\ HeldOK(store, gpu, spoiled)
      /\ KeptOK(store, spoiled) /\ TierOK(nvme, NvmeSlots)
  BY IdsAre DEF TiersInv, BlocksOK, TablesOK
<1>3. b \in OnGpu(store) /\ store[b] \in Block /\ b \in Nat /\ b \in DOMAIN store
  BY <1>1, <1>2 DEF OnGpu
<1>4. /\ r \in Block /\ r.tier = store[b].tier /\ r.gpu = store[b].gpu /\ r.cpu = store[b].cpu
      /\ r.nvme = store[b].nvme /\ r.v = store[b].v /\ r.kept = store[b].kept
  BY <1>3 DEF Block
<1> HIDE DEF r
<1>5. /\ store' \in Seq(Block) /\ DOMAIN store' = DOMAIN store /\ store'[b] = r
      /\ \A i \in DOMAIN store \ {b} : store'[i] = store[i]
  BY <1>1, <1>2, <1>3, <1>4, Replaced
<1>6. x \in Bytes /\ Current(x, b, store'[b])
  BY <1>3, <1>4, <1>5 DEF Bytes, Block, Current
<1> HIDE DEF x
<1>7. \A i \in DOMAIN store : /\ store'[i].tier = store[i].tier /\ store'[i].gpu = store[i].gpu
                             /\ store'[i].cpu = store[i].cpu /\ store'[i].nvme = store[i].nvme
                             /\ store'[i].kept = store[i].kept
  BY <1>4, <1>5
<1>8. KeptOK(store', spoiled)
  BY <1>1, <1>2, <1>4, <1>5 DEF KeptOK
<1> DEFINE lost == Lost(phase, spoiled)
<1>9. BlocksOK(store', cpu, nvme, spoiled, lost)
  <2>1. BlocksOK(store, cpu, nvme, spoiled, lost)
    BY <1>2
  <2> HIDE DEF lost
  <2> QED BY <1>2, <1>5, <1>7, <1>8, <2>1, Relabelled
<1>10. GpuOK(store', free, plan.frees)
  BY <1>2, <1>5, <1>7, GpuSame
<1>11. HeldOK(store', gpu', spoiled) /\ gpu' \in [1 .. GpuSlots -> Bytes]
  <2>1. \A i \in DOMAIN store \ {b} : store'[i].v = store[i].v /\ (store[i].older => store'[i].older)
    BY <1>5
  <2> QED BY <1>1, <1>2, <1>3, <1>5, <1>6, <1>7, <2>1, HeldWritten
<1>12. PlanOK(store', plan, phase, spoiled)
  BY <1>1, <1>2 DEF PlanOK
<1> QED BY <1>1, <1>2, <1>9, <1>10, <1>11, <1>12 DEF TiersInv

LEMMA FirstIs == ASSUME NEW S \in SUBSET Nat, S # {} PROVE First(S) \in S
<1>1. \E m \in S : \A k \in S : m <= k
  BY LeastNat
<1> QED BY <1>1 DEF First

LEMMA TruncateToStep ==
    ASSUME TiersInv, NEW full \in Nat, NEW cut \in Nat, TruncateTo(full, cut)
    PROVE  TiersInv'
<1> DEFINE keep == full + (IF cut > 0 THEN 1 ELSE 0)
           gone == (keep + 1) .. Len(store)
           st2 == [i \in 1 .. keep |-> IF i = full + 1 THEN [store[i] EXCEPT !.n = cut] ELSE store[i]]
           back == {store[b].gpu : b \in gone} \ {0}
<1>1. /\ full < Len(store) /\ store' = st2 /\ phase \in {"idle", "stuck"}
      /\ cpu' = Released(cpu, {b \in gone : store[b].cpu # 0})
      /\ nvme' = Released(nvme, {b \in gone : store[b].nvme # 0})
      /\ free' = free \cup back
      /\ plan' = [plan EXCEPT !.prefetch = <<>>]
      /\ gpu' = gpu /\ phase' = phase /\ version' = version /\ spoiled' = spoiled
  BY DEF TruncateTo
<1>2. /\ gpu \in [1 .. GpuSlots -> Bytes] /\ version \in Nat /\ store \in Seq(Block)
      /\ BlocksOK(store, cpu, nvme, spoiled, Lost(phase, spoiled))
      /\ PlanOK(store, plan, phase, spoiled)
      /\ GpuOK(store, free, plan.frees) /\ HeldOK(store, gpu, spoiled)
      /\ DOMAIN plan = {"in", "out", "selected", "prefetch", "frees"}
  BY DEF TiersInv, BlocksOK, TablesOK
<1>3. /\ keep \in Nat /\ DOMAIN store = 1 .. Len(store) /\ Len(store) \in Nat
      /\ keep <= Len(store) /\ \A i \in DOMAIN store : store[i] \in Block
  BY <1>1, <1>2
<1> HIDE DEF keep
<1>4. \A i \in 1 .. keep : i \in DOMAIN store
  BY <1>3
<1>5. DOMAIN st2 = 1 .. keep /\ \A i \in 1 .. keep : st2[i] \in {store[i], [store[i] EXCEPT !.n = cut]}
  OBVIOUS
<1>6. ASSUME NEW i \in 1 .. keep
      PROVE  /\ st2[i] \in Block
             /\ st2[i].tier = store[i].tier /\ st2[i].gpu = store[i].gpu /\ st2[i].cpu = store[i].cpu
             /\ st2[i].nvme = store[i].nvme /\ st2[i].v = store[i].v /\ st2[i].kept = store[i].kept
             /\ st2[i].older = store[i].older
  <2>1. store[i] \in Block
    BY <1>3, <1>4
  <2>2. CASE st2[i] = store[i]
    BY <2>1, <2>2
  <2>3. CASE st2[i] = [store[i] EXCEPT !.n = cut]
    <3> HIDE DEF st2
    <3> QED BY <2>1, <2>3 DEF Block
  <2> QED BY <1>5, <2>2, <2>3
<1>7. st2 \in Seq(Block)
  <2>1. st2 = [i \in 1 .. keep |-> st2[i]]
    OBVIOUS
  <2> HIDE DEF st2
  <2>2. st2 \in [1 .. keep -> Block]
    BY <1>6, <2>1
  <2> QED BY <1>3, <2>2, SeqDef
<1> HIDE DEF st2
<1>8. gone = DOMAIN store \ DOMAIN st2
  BY <1>3, <1>5
<1> HIDE DEF gone
<1> DEFINE lost == Lost(phase, spoiled)
<1>9. BlocksOK(store', cpu', nvme', spoiled, lost)
  <2>1. DOMAIN st2 \subseteq DOMAIN store
    BY <1>4, <1>5
  <2>2. \A i \in DOMAIN st2 : Like(store[i], st2[i]) /\ st2[i].nvme = store[i].nvme
    BY <1>5, <1>6 DEF Like, Alike
  <2>3. BlocksOK(store, cpu, nvme, spoiled, lost)
    BY <1>2
  <2> HIDE DEF lost
  <2> QED BY <1>1, <1>7, <1>8, <2>1, <2>2, <2>3, BlocksCut
<1> HIDE DEF lost
<1>10. plan'.frees = plan.frees /\ DOMAIN plan' = DOMAIN plan
  BY <1>1, <1>2
<1>11. PlanOK(store', plan', phase', spoiled)
  BY <1>1, <1>2, <1>10 DEF PlanOK
<1>12. OnGpu(st2) = OnGpu(store) \ gone /\ \A i \in OnGpu(st2) : st2[i].gpu = store[i].gpu
  BY <1>4, <1>5, <1>6, <1>8 DEF OnGpu
<1>13. back = {store[b].gpu : b \in OnGpu(store) \cap gone}
  BY <1>8 DEF OnGpu
<1> HIDE DEF back
<1>14. GpuOK(st2, free \cup back, plan.frees)
  <2>1. /\ free \cup back \subseteq 1 .. GpuSlots /\ plan.frees \subseteq 1 .. GpuSlots
        /\ (free \cup back) \cap plan.frees = {}
    <3>1. \A x \in back : x \in 1 .. GpuSlots \ (free \cup plan.frees)
      BY <1>2, <1>13 DEF GpuOK
    <3> QED BY <1>2, <3>1 DEF GpuOK
  <2>2. ASSUME NEW i \in OnGpu(st2) PROVE st2[i].gpu \in 1 .. GpuSlots \ ((free \cup back) \cup plan.frees)
    BY <1>2, <1>12, <1>13 DEF GpuOK
  <2>3. \A i, j \in OnGpu(st2) : st2[i].gpu = st2[j].gpu => i = j
    BY <1>2, <1>12 DEF GpuOK
  <2>4. ASSUME NEW k \in 1 .. GpuSlots, k \notin free \cup back, k \notin plan.frees
        PROVE  \E i \in OnGpu(st2) : st2[i].gpu = k
    <3>1. PICK i \in OnGpu(store) : store[i].gpu = k
      BY <1>2, <2>4 DEF GpuOK
    <3>2. i \notin gone
      BY <1>13, <2>4, <3>1
    <3> QED BY <1>12, <3>1, <3>2
  <2> QED BY <2>1, <2>2, <2>3, <2>4 DEF GpuOK
<1>15. HeldOK(st2, gpu, spoiled)
  <2>1. \A i \in OnGpu(st2) : /\ i \in OnGpu(store) /\ st2[i].gpu = store[i].gpu /\ st2[i].v = store[i].v
                              /\ store[i].older => st2[i].older
    BY <1>5, <1>6, <1>12 DEF OnGpu
  <2> QED BY <1>2, <2>1, HeldSame
<1>16. gpu' \in [1 .. GpuSlots -> Bytes] /\ version' \in Nat /\ phase' \in {"idle", "prepared", "spilled", "stuck"}
  BY <1>1, <1>2
<1>17. GpuOK(store', free', plan'.frees) /\ HeldOK(store', gpu', spoiled)
  BY <1>1, <1>10, <1>14, <1>15
<1>18. spoiled' = spoiled /\ Lost(phase', spoiled') = lost
  BY <1>1 DEF lost
<1> QED BY <1>2, <1>9, <1>10, <1>11, <1>16, <1>17, <1>18 DEF TiersInv

LEMMA PrepareStep ==
    ASSUME TiersInv, NEW selected \in SUBSET Ids, Prepare(selected)
    PROVE  TiersInv'
<1> DEFINE in == selected \ Resident
           reads == Prefetched(in)
           found == reads \cap DOMAIN nvme.map
           pre == [b \in reads |-> IF b \in found THEN nvme.bytes[nvme.map[b]] ELSE NoBytes]
           st2 == [b \in Ids |-> IF b \in reads /\ store[b].cpu # 0
                                 THEN [store[b] EXCEPT !.older = TRUE] ELSE store[b]]
<1>1. /\ plan' = [selected |-> selected, frees |-> {}, in |-> in, out |-> Resident \ selected,
                  prefetch |-> pre]
      /\ phase = "idle" /\ phase' = "prepared"
      /\ store' = st2 /\ gpu' = gpu /\ free' = free /\ cpu' = cpu /\ version' = version
      /\ spoiled' = spoiled
  BY DEF Prepare
<1>2. PICK order \in Orders(found) :
          nvme' = Tier(nvme.map, Without(nvme.lru, found) \o order, nvme.bytes)
  BY DEF Prepare
<1>3. /\ gpu \in [1 .. GpuSlots -> Bytes] /\ version \in Nat /\ store \in Seq(Block)
      /\ BlocksOK(store, cpu, nvme, spoiled, Lost(phase, spoiled))
      /\ PlanOK(store, plan, phase, spoiled)
      /\ GpuOK(store, free, plan.frees) /\ HeldOK(store, gpu, spoiled)
      /\ Ids = DOMAIN store /\ Resident = OnGpu(store)
      /\ TierOK(nvme, NvmeSlots) /\ KeptOK(store, spoiled) /\ Backings(store, nvme, spoiled)
  BY IdsAre DEF TiersInv, BlocksOK, TablesOK
<1>4. in \subseteq Ids /\ reads \subseteq in /\ found \subseteq Ids
  BY DEF Prefetched
<1>5. /\ DOMAIN st2 = DOMAIN store /\ st2 = [i \in DOMAIN st2 |-> st2[i]]
      /\ \A i \in DOMAIN store : /\ i \notin reads \/ store[i].cpu = 0 => st2[i] = store[i]
                                 /\ i \in reads /\ store[i].cpu # 0 => st2[i] = [store[i] EXCEPT !.older = TRUE]
  <2> HIDE DEF reads
  <2> QED BY <1>3
<1> HIDE DEF st2
<1>6. ASSUME NEW i \in DOMAIN store
      PROVE  /\ st2[i] \in Block
             /\ st2[i].tier = store[i].tier /\ st2[i].gpu = store[i].gpu /\ st2[i].cpu = store[i].cpu
             /\ st2[i].nvme = store[i].nvme /\ st2[i].v = store[i].v /\ st2[i].kept = store[i].kept
             /\ (store[i].older => st2[i].older)
             /\ (i \in reads /\ store[i].cpu # 0 => st2[i].older)
  <2>1. store[i] \in Block
    BY <1>3
  <2> HIDE DEF reads
  <2>2. CASE i \in reads /\ store[i].cpu # 0
    <3> DEFINE old == store[i]
               new == st2[i]
    <3>1. old \in Block /\ new = [old EXCEPT !.older = TRUE]
      BY <1>5, <2>1, <2>2
    <3> HIDE DEF old, new
    <3>2. /\ new \in Block /\ new.tier = old.tier /\ new.gpu = old.gpu /\ new.cpu = old.cpu
          /\ new.nvme = old.nvme /\ new.v = old.v /\ new.kept = old.kept /\ new.older = TRUE
      BY <3>1 DEF Block
    <3> QED BY <3>2 DEF old, new
  <2>3. CASE i \notin reads \/ store[i].cpu = 0
    <3>1. st2[i] = store[i]
      BY <1>5, <2>3
    <3> HIDE DEF st2
    <3> QED BY <2>1, <2>3, <3>1
  <2> QED BY <2>2, <2>3
<1>18. ASSUME NEW b \in DOMAIN pre
       PROVE  /\ b \in DOMAIN store /\ pre[b] \in Bytes
              /\ b \notin spoiled => Belongs(pre[b], b) /\ (st2[b].older \/ pre[b] \in {NoBytes, st2[b].kept})
  <2>1. b \in reads /\ pre[b] = IF b \in found THEN nvme.bytes[nvme.map[b]] ELSE NoBytes
    OBVIOUS
  <2>2. b \in DOMAIN store /\ b \notin OnGpu(store)
    BY <1>3, <1>4, <2>1
  <2>3. CASE b \in found
    <3>1. b \in DOMAIN nvme.map /\ nvme.bytes[nvme.map[b]] \in Bytes
      BY <1>3, <2>3 DEF TierOK
    <3>2. pre[b] = nvme.bytes[nvme.map[b]]
      BY <2>1, <2>3
    <3> HIDE DEF pre, found, reads
    <3>3. ASSUME b \notin spoiled, ~ st2[b].older PROVE pre[b] = st2[b].kept
      <4>1. Backing(store, nvme, b) /\ store[b].cpu = 0
        BY <1>3, <1>6, <2>1, <2>2, <3>1, <3>3 DEF Backings
      <4>2. store[b] \in Block /\ store[b].tier # "GPU"
        BY <1>3, <2>2 DEF OnGpu, BlocksOK, TablesOK, Marked
      <4>3. store[b].tier = "SSD"
        BY <4>1, <4>2 DEF Backing, Block
      <4> QED BY <1>6, <2>2, <3>2, <4>1, <4>3 DEF Backing
    <3>4. b \notin spoiled => Belongs(pre[b], b)
      BY <1>3, <3>1, <3>2 DEF Backings, Backing
    <3> QED BY <2>2, <3>1, <3>2, <3>3, <3>4
  <2>4. CASE b \notin found
    <3>1. pre[b] = NoBytes /\ NoBytes \in Bytes /\ Belongs(NoBytes, b)
      BY <2>1, <2>4 DEF NoBytes, Bytes, Belongs
    <3> HIDE DEF pre, found, reads
    <3> QED BY <2>2, <3>1
  <2> QED BY <2>3, <2>4
<1>7. found \subseteq DOMAIN nvme.map
  OBVIOUS
<1> HIDE DEF pre, found, reads
<1>8. /\ Without(nvme.lru, found) \in Seq(Nat) /\ Injective(Without(nvme.lru, found))
      /\ Listed(Without(nvme.lru, found)) = DOMAIN nvme.map \ found
  BY <1>3, WithoutFacts DEF TierOK
<1>9. order \in Seq(Nat) /\ Injective(order) /\ Listed(order) = found
  <2>1. IsFiniteSet(found)
    <3>1. IsFiniteSet(1 .. Len(store))
      BY <1>3, FS_Interval
    <3> QED BY <1>4, <3>1, FS_Subset DEF Ids
  <2>2. Cardinality(found) \in Nat
    BY <2>1, FS_CardinalityType
  <2> DEFINE k == Cardinality(found)
  <2>3. order \in [1 .. k -> found] /\ {order[i] : i \in DOMAIN order} = found
        /\ \A i, j \in DOMAIN order : order[i] = order[j] => i = j
    BY DEF Orders
  <2> HIDE DEF k
  <2>4. found \subseteq Nat
    BY <1>4 DEF Ids
  <2>5. order \in [1 .. k -> Nat] /\ k \in Nat
    BY <2>2, <2>3, <2>4 DEF k
  <2>6. order \in Seq(Nat)
    BY <2>5, SeqDef
  <2> QED BY <2>3, <2>6 DEF Injective, Listed
<1> DEFINE list == Without(nvme.lru, found) \o order
<1>10. list \in Seq(Nat) /\ Injective(list) /\ Listed(list) = DOMAIN nvme.map
  <2> DEFINE rest == Without(nvme.lru, found)
  <2>1. rest \in Seq(Nat) /\ Injective(rest) /\ Listed(rest) = DOMAIN nvme.map \ found
    BY <1>8
  <2> HIDE DEF rest
  <2>2. Listed(rest) \cap Listed(order) = {} /\ Listed(rest) \cup Listed(order) = DOMAIN nvme.map
    BY <1>7, <1>9, <2>1
  <2>3. rest \o order \in Seq(Nat) /\ Injective(rest \o order) /\ Listed(rest \o order) = DOMAIN nvme.map
    BY <1>9, <2>1, <2>2, Joined
  <2> QED BY <2>3 DEF rest
<1> HIDE DEF list
<1>11. TierOK(nvme', NvmeSlots) /\ nvme'.map = nvme.map /\ nvme'.bytes = nvme.bytes
  <2>1. nvme' = Tier(nvme.map, list, nvme.bytes)
    BY <1>2 DEF list
  <2>2. TierOK(Tier(nvme.map, list, nvme.bytes), NvmeSlots)
    BY <1>3, <1>10, Slots, TierIs DEF TierOK
  <2> QED BY <2>1, <2>2, Fields
<1>19. st2 \in Seq(Block) /\ KeptOK(st2, spoiled)
  <2>1. st2 \in Seq(Block)
    BY <1>3, <1>5, <1>6, Rewritten
  <2>2. ASSUME NEW i \in DOMAIN st2 \ spoiled, st2[i].gpu = 0 PROVE Current(st2[i].kept, i, st2[i])
    <3>1. /\ i \in DOMAIN store \ spoiled /\ st2[i].gpu = store[i].gpu /\ st2[i].kept = store[i].kept
          /\ st2[i].v = store[i].v /\ (store[i].older => st2[i].older)
      BY <1>5, <1>6
    <3>2. Current(store[i].kept, i, store[i])
      BY <1>3, <2>2, <3>1 DEF KeptOK
    <3> QED BY <3>1, <3>2, CurrentKept
  <2> QED BY <2>1, <2>2 DEF KeptOK
<1>12. BlocksOK(store', cpu', nvme', spoiled, Lost(phase', spoiled))
  <2>1. Lost(phase', spoiled) = {} /\ Lost(phase, spoiled) = {}
    BY <1>1 DEF Lost
  <2>2. BlocksOK(store, cpu, nvme, spoiled, {})
    BY <1>3, <2>1
  <2>3. BlocksOK(st2, cpu, nvme', spoiled, {})
    BY <1>5, <1>6, <1>11, <1>19, <2>2, Relabelled
  <2> QED BY <1>1, <2>1, <2>3
<1>13. /\ plan'.frees = {} /\ plan'.in = in /\ plan'.out = Resident \ selected /\ plan'.prefetch = pre
       /\ DOMAIN plan' = {"in", "out", "selected", "prefetch", "frees"}
  BY <1>1
<1>20. GpuOK(st2, free, plan.frees) /\ OnGpu(st2) = OnGpu(store)
  <2>1. DOMAIN st2 = DOMAIN store /\ \A i \in DOMAIN store : st2[i].gpu = store[i].gpu
    BY <1>5, <1>6
  <2>2. GpuOK(store, free, plan.frees)
    BY <1>3
  <2> QED BY <2>1, <2>2, GpuSame
<1>21. HeldOK(st2, gpu, spoiled)
  <2>1. \A i \in OnGpu(st2) : /\ i \in OnGpu(store) /\ st2[i].gpu = store[i].gpu
                              /\ st2[i].v = store[i].v /\ (store[i].older => st2[i].older)
    BY <1>6, <1>20 DEF OnGpu
  <2> QED BY <1>3, <2>1, HeldSame
<1>14. PlanOK(store', plan', phase', spoiled)
  <2>1. in \subseteq DOMAIN st2 \ OnGpu(st2) /\ Resident \ selected \subseteq OnGpu(st2)
    BY <1>3, <1>4, <1>5, <1>20
  <2>2. \A b \in DOMAIN pre : /\ b \in DOMAIN st2 /\ pre[b] \in Bytes
                              /\ b \notin spoiled => ReadAhead(st2, plan', b)
    BY <1>5, <1>13, <1>18 DEF ReadAhead
  <2> HIDE DEF in
  <2> QED BY <1>1, <1>13, <2>1, <2>2 DEF PlanOK
<1>15. plan.frees = {}
  BY <1>1, <1>3 DEF PlanOK
<1>16. GpuOK(store', free', plan'.frees) /\ HeldOK(store', gpu', spoiled)
  BY <1>1, <1>13, <1>15, <1>20, <1>21
<1> QED BY <1>1, <1>3, <1>12, <1>13, <1>14, <1>16 DEF TiersInv

LEMMA StageOutStep ==
    ASSUME TiersInv, StageOut
    PROVE  TiersInv'
<1> DEFINE b == First(plan.out)
           bytes == gpu[store[b].gpu]
           m == Parts(store, cpu, nvme)
           s == IF CpuSlots > 0 THEN StagedToCpu(m, b, bytes) ELSE StagedToNvme(m, b, bytes)
           slot == store[b].gpu
<1>1. /\ phase = "spilled" /\ plan.out # {}
      /\ store' = s.store /\ cpu' = s.cpu /\ nvme' = s.nvme
      /\ plan' = [plan EXCEPT !.out = @ \ {b}, !.frees = @ \cup {slot}]
      /\ gpu' = gpu /\ free' = free /\ phase' = phase /\ version' = version
      /\ spoiled' = spoiled
  BY DEF StageOut
<1>2. /\ gpu \in [1 .. GpuSlots -> Bytes] /\ version \in Nat /\ store \in Seq(Block)
      /\ GpuOK(store, free, plan.frees) /\ HeldOK(store, gpu, spoiled)
      /\ DOMAIN plan = {"in", "out", "selected", "prefetch", "frees"}
      /\ BlocksOK(store, cpu, nvme, spoiled, {}) /\ Lost(phase, spoiled) = {}
  BY <1>1 DEF TiersInv, BlocksOK, TablesOK, Lost
<1>3. /\ plan.in \subseteq DOMAIN store \ OnGpu(store) /\ plan.out \subseteq OnGpu(store)
      /\ \A d \in DOMAIN plan.prefetch :
            /\ d \in DOMAIN store /\ plan.prefetch[d] \in Bytes
            /\ d \notin spoiled => ReadAhead(store, plan, d)
  BY <1>1 DEF TiersInv, PlanOK
<1>4. b \in plan.out
  <2>1. plan.out \subseteq Nat
    BY <1>2, <1>3 DEF OnGpu
  <2> QED BY <1>1, <2>1, FirstIs
<1> HIDE DEF b
<1>5. b \in OnGpu(store) /\ b \in DOMAIN store /\ store[b].gpu # 0
  BY <1>3, <1>4 DEF OnGpu
<1>6. bytes \in Bytes /\ (b \notin spoiled => Current(bytes, b, store[b])) /\ slot \in 1 .. GpuSlots
  BY <1>2, <1>5, GpuSlot DEF HeldOK
<1> HIDE DEF bytes
<1>7. Staged(store, b, spoiled, s)
  <2>1. CASE CpuSlots > 0
    <3>1. CpuSlots # 0 /\ s = StagedToCpu(m, b, bytes)
      BY <2>1, Slots
    <3>2. Staged(store, b, spoiled, StagedToCpu(m, b, bytes))
      BY <1>2, <1>5, <1>6, <3>1, StagedToCpuIs
    <3> QED BY <3>1, <3>2
  <2>2. CASE ~(CpuSlots > 0)
    <3>1. CpuSlots = 0 /\ s = StagedToNvme(m, b, bytes)
      BY <2>2, Slots
    <3>2. Staged(store, b, spoiled, StagedToNvme(m, b, bytes))
      BY <1>2, <1>5, <1>6, <3>1, StagedToNvmeIs
    <3> QED BY <3>1, <3>2
  <2> QED BY <2>1, <2>2
<1> HIDE DEF s, m
<1>8. BlocksOK(store', cpu', nvme', spoiled', Lost(phase', spoiled'))
  BY <1>1, <1>2, <1>7 DEF Staged
<1>9. /\ DOMAIN store' = DOMAIN store /\ store'[b].gpu = 0
      /\ \A i \in DOMAIN store \ {b} : Alike(store[i], store'[i])
      /\ \A i \in DOMAIN store \ {b} : store'[i].gpu = store[i].gpu /\ store'[i].v = store[i].v
  BY <1>1, <1>7 DEF Staged, Alike
<1>10. OnGpu(store') = OnGpu(store) \ {b} /\ \A i \in OnGpu(store') : store'[i].gpu = store[i].gpu
  BY <1>9 DEF OnGpu
<1>11. /\ plan'.frees = plan.frees \cup {slot} /\ plan'.out = plan.out \ {b} /\ plan'.in = plan.in
       /\ plan'.prefetch = plan.prefetch /\ DOMAIN plan' = DOMAIN plan
  BY <1>1, <1>2
<1>12. PlanOK(store', plan', phase', spoiled')
  <2>1. plan'.in \subseteq DOMAIN store' \ OnGpu(store') /\ plan'.out \subseteq OnGpu(store')
    BY <1>3, <1>9, <1>10, <1>11
  <2>2. ASSUME NEW d \in DOMAIN plan'.prefetch
        PROVE  /\ d \in DOMAIN store' /\ plan'.prefetch[d] \in Bytes
               /\ d \notin spoiled => ReadAhead(store', plan', d)
    <3>1. /\ d \in DOMAIN store /\ plan.prefetch[d] \in Bytes
          /\ d \notin spoiled => ReadAhead(store, plan, d)
      BY <1>3, <1>11
    <3>2. d \in plan.in => Alike(store[d], store'[d])
      BY <1>3, <1>5, <1>9
    <3> QED BY <1>9, <1>11, <3>1, <3>2 DEF ReadAhead, Alike
  <2> QED BY <1>1, <2>1, <2>2 DEF PlanOK
<1>13. GpuOK(store', free, plan.frees \cup {slot})
  <2>1. slot \notin free /\ \A i \in OnGpu(store') : store[i].gpu # slot /\ i \in OnGpu(store)
    BY <1>2, <1>5, <1>10 DEF GpuOK
  <2>2. \A i \in OnGpu(store') : store'[i].gpu \in 1 .. GpuSlots \ (free \cup (plan.frees \cup {slot}))
    BY <1>2, <1>10, <2>1 DEF GpuOK
  <2>3. \A i, j \in OnGpu(store') : store'[i].gpu = store'[j].gpu => i = j
    BY <1>2, <1>10, <2>1 DEF GpuOK
  <2>4. ASSUME NEW k \in 1 .. GpuSlots, k \notin free, k \notin plan.frees \cup {slot}
        PROVE  \E i \in OnGpu(store') : store'[i].gpu = k
    <3>1. PICK i \in OnGpu(store) : store[i].gpu = k
      BY <1>2, <2>4 DEF GpuOK
    <3> QED BY <1>10, <2>4, <3>1
  <2>5. /\ free \subseteq 1 .. GpuSlots /\ plan.frees \cup {slot} \subseteq 1 .. GpuSlots
        /\ free \cap (plan.frees \cup {slot}) = {}
    BY <1>2, <1>6, <2>1 DEF GpuOK
  <2> QED BY <2>2, <2>3, <2>4, <2>5 DEF GpuOK
<1>14. HeldOK(store', gpu, spoiled)
  <2>1. \A i \in OnGpu(store') : /\ i \in OnGpu(store) /\ store'[i].gpu = store[i].gpu
                                 /\ store'[i].v = store[i].v /\ (store[i].older => store'[i].older)
    BY <1>9, <1>10 DEF OnGpu, Alike
  <2> QED BY <1>2, <2>1, HeldSame
<1>15. GpuOK(store', free', plan'.frees) /\ HeldOK(store', gpu', spoiled')
  BY <1>1, <1>11, <1>13, <1>14
<1> QED BY <1>1, <1>2, <1>8, <1>11, <1>12, <1>15 DEF TiersInv

LEMMA StageOutThrowsStep ==
    ASSUME TiersInv, StageOutThrows
    PROVE  TiersInv'
<1> DEFINE b == First(plan.out)
           pinned == PlaceEvicting(cpu, b)
           w == IF CpuSlots > 0 THEN pinned.victim ELSE b
           c2 == IF CpuSlots > 0 THEN pinned.tier ELSE cpu
           slot == PlaceEvicting(nvme, w).slot
<1>1. PICK x \in {nvme.bytes[slot], Mixed} :
          /\ store' = SpillBroken(Parts(store, c2, nvme), w, x).store
          /\ cpu' = SpillBroken(Parts(store, c2, nvme), w, x).cpu
          /\ nvme' = SpillBroken(Parts(store, c2, nvme), w, x).nvme
  BY Zenon DEF StageOutThrows
<1>2. /\ phase = "spilled" /\ plan.out # {} /\ NvmeSlots > 0 /\ w # 0
      /\ spoiled' = spoiled \cup {b, w} /\ phase' = "stuck"
      /\ gpu' = gpu /\ free' = free /\ plan' = plan /\ version' = version
  BY Zenon DEF StageOutThrows
<1>3. /\ gpu \in [1 .. GpuSlots -> Bytes] /\ version \in Nat /\ store \in Seq(Block)
      /\ GpuOK(store, free, plan.frees) /\ HeldOK(store, gpu, spoiled)
      /\ DOMAIN plan = {"in", "out", "selected", "prefetch", "frees"}
      /\ TierOK(cpu, CpuSlots) /\ TierOK(nvme, NvmeSlots)
      /\ BlocksOK(store, cpu, nvme, spoiled, {})
  BY <1>2 DEF TiersInv, BlocksOK, TablesOK, Lost
<1>4. b \in OnGpu(store) /\ b \in DOMAIN store /\ b \in Nat \ {0}
  <2>1. plan.out \subseteq Nat /\ plan.out \subseteq OnGpu(store)
    BY <1>2, <1>3 DEF TiersInv, PlanOK, OnGpu
  <2>2. b \in plan.out
    BY <1>2, <2>1, FirstIs
  <2> QED BY <1>3, <2>1, <2>2 DEF OnGpu
<1> HIDE DEF b
<1>5. /\ w \in Nat \ {0} /\ TierOK(c2, CpuSlots) /\ c2.bytes = cpu.bytes
      /\ DOMAIN c2.map \subseteq DOMAIN cpu.map \cup {b}
      /\ DOMAIN cpu.map \ {b, w} \subseteq DOMAIN c2.map
      /\ \A d \in DOMAIN cpu.map \ {b, w} : c2.map[d] = cpu.map[d]
  <2>1. CASE CpuSlots > 0
    <3>1. CpuSlots \in Nat /\ CpuSlots # 0 /\ w = pinned.victim /\ c2 = pinned.tier
      BY <2>1, Slots
    <3>2. Placed(cpu, pinned, b, CpuSlots)
      BY <1>3, <1>4, <3>1, PlaceIs
    <3> HIDE DEF pinned
    <3>3. /\ TierOK(pinned.tier, CpuSlots) /\ pinned.tier.bytes = cpu.bytes
          /\ DOMAIN pinned.tier.map = (DOMAIN cpu.map \ {pinned.victim}) \cup {b}
          /\ \A d \in DOMAIN cpu.map \ {pinned.victim, b} : pinned.tier.map[d] = cpu.map[d]
          /\ pinned.victim # 0 => pinned.victim \in DOMAIN cpu.map
      BY <3>1, <3>2 DEF Placed
    <3> HIDE DEF w, c2
    <3>4. w \in Nat \ {0}
      BY <1>2, <1>3, <3>1, <3>3 DEF TierOK
    <3> QED BY <3>1, <3>3, <3>4
  <2>2. CASE ~(CpuSlots > 0)
    <3>1. w = b /\ c2 = cpu
      BY <2>2
    <3> QED BY <1>3, <1>4, <3>1
  <2> QED BY <2>1, <2>2
<1> HIDE DEF w, c2
<1>6. NvmeSlots # 0 /\ NvmeSlots \in Nat
  BY <1>2, Slots
<1>7. x \in Bytes
  <2>1. Placed(nvme, PlaceEvicting(nvme, w), w, NvmeSlots)
    BY <1>3, <1>5, <1>6, PlaceIs
  <2>2. slot \in 1 .. NvmeSlots
    BY <1>6, <2>1 DEF Placed
  <2> HIDE DEF slot
  <2>3. nvme.bytes[slot] \in Bytes
    BY <1>3, <2>2 DEF TierOK
  <2>4. Mixed \in Bytes
    BY TiersAssumption DEF Mixed, Bytes
  <2> QED BY <2>3, <2>4
<1> DEFINE s == SpillBroken(Parts(store, c2, nvme), w, x)
           sp2 == spoiled \cup {b, w}
<1>8. Broken(store, sp2, s)
  <2>1. Breaks(store, cpu, nvme, spoiled, b, w, x, c2)
    BY <1>3, <1>5, <1>6, <1>7 DEF Breaks
  <2> QED BY <2>1, BrokenIs
<1> HIDE DEF s
<1>9. store' = s.store /\ cpu' = s.cpu /\ nvme' = s.nvme
  BY <1>1 DEF s
<1>10. BlocksOK(store', cpu', nvme', spoiled', Lost(phase', spoiled'))
  <2>1. spoiled' = sp2 /\ Lost(phase', spoiled') = sp2
    BY <1>2 DEF Lost
  <2> HIDE DEF sp2
  <2> QED BY <1>8, <1>9, <2>1 DEF Broken
<1>11. \A i \in DOMAIN store : /\ store'[i].gpu = store[i].gpu /\ store'[i].v = store[i].v
                               /\ store[i].older => store'[i].older
  BY <1>8, <1>9 DEF Broken, Alike
<1>12. DOMAIN store' = DOMAIN store /\ GpuOK(store', free, plan.frees) /\ OnGpu(store') = OnGpu(store)
  <2>1. DOMAIN store' = DOMAIN store
    BY <1>8, <1>9 DEF Broken
  <2>2. \A i \in DOMAIN store : store'[i].gpu = store[i].gpu
    BY <1>11
  <2> QED BY <1>3, <2>1, <2>2, GpuSame
<1>13. HeldOK(store', gpu, sp2)
  <2>0. \A i \in OnGpu(store) : i \in DOMAIN store
    BY DEF OnGpu
  <2>1. \A i \in OnGpu(store') : /\ i \in OnGpu(store) /\ store'[i].gpu = store[i].gpu
                                 /\ store'[i].v = store[i].v /\ (store[i].older => store'[i].older)
    BY <1>11, <1>12, <2>0
  <2>2. spoiled \subseteq sp2
    OBVIOUS
  <2> HIDE DEF sp2
  <2> QED BY <1>3, <2>1, <2>2, HeldSame
<1>14. PlanOK(store', plan, phase', spoiled')
  BY <1>2 DEF PlanOK
<1>15. GpuOK(store', free', plan'.frees) /\ HeldOK(store', gpu', spoiled') /\ plan' = plan
  BY <1>2, <1>12, <1>13
<1> QED BY <1>2, <1>3, <1>10, <1>14, <1>15 DEF TiersInv

LEMMA FreedFirstStep ==
    ASSUME TiersInv, FreedFirst
    PROVE  TiersInv'
<1>1. /\ phase = "spilled" /\ free' = free \cup plan.frees /\ plan' = [plan EXCEPT !.frees = {}]
      /\ store' = store /\ gpu' = gpu /\ cpu' = cpu /\ nvme' = nvme /\ phase' = phase
      /\ version' = version /\ spoiled' = spoiled
  BY DEF FreedFirst
<1>2. DOMAIN plan = {"in", "out", "selected", "prefetch", "frees"}
  BY DEF TiersInv
<1>3. /\ plan'.frees = {} /\ plan'.in = plan.in /\ plan'.out = plan.out
      /\ plan'.prefetch = plan.prefetch /\ DOMAIN plan' = DOMAIN plan
  BY <1>1, <1>2
<1>4. GpuOK(store, free, plan.frees) /\ PlanOK(store, plan, phase, spoiled)
  BY DEF TiersInv
<1>5. GpuOK(store, free \cup plan.frees, {})
  BY <1>4 DEF GpuOK
<1>6. PlanOK(store, plan', phase, spoiled)
  BY <1>3, <1>4 DEF PlanOK, ReadAhead
<1> QED BY <1>1, <1>3, <1>5, <1>6 DEF TiersInv

LEMMA StageInStep ==
    ASSUME TiersInv, StageIn
    PROVE  TiersInv'
<1> DEFINE b == First(plan.in)
           slot == AnyFree
           r == [store[b] EXCEPT !.cpu = 0, !.tier = "GPU", !.gpu = slot]
           x == Source(b)
<1>1. /\ phase = "spilled" /\ plan.in # {} /\ free # {}
      /\ LateRead(b) => b \in DOMAIN nvme.map
      /\ gpu' = [gpu EXCEPT ![slot] = x] /\ free' = free \ {slot}
      /\ cpu' = IF store[b].cpu # 0 THEN Released(cpu, {b}) ELSE cpu
      /\ nvme' = IF LateRead(b) THEN Touched(nvme, b) ELSE nvme
      /\ store' = [store EXCEPT ![b] = r]
      /\ plan' = [plan EXCEPT !.in = @ \ {b}]
      /\ phase' = phase /\ version' = version /\ spoiled' = spoiled
  BY DEF StageIn, Admitting
<1>2. /\ gpu \in [1 .. GpuSlots -> Bytes] /\ version \in Nat /\ store \in Seq(Block)
      /\ BlocksOK(store, cpu, nvme, spoiled, {}) /\ Lost(phase, spoiled) = {}
      /\ GpuOK(store, free, plan.frees) /\ HeldOK(store, gpu, spoiled)
      /\ DOMAIN plan = {"in", "out", "selected", "prefetch", "frees"}
      /\ TierOK(cpu, CpuSlots) /\ TierOK(nvme, NvmeSlots)
      /\ Marked(store) /\ KeptOK(store, spoiled) /\ Backings(store, nvme, spoiled)
      /\ Pins(store, cpu, spoiled) /\ Named(store, cpu, {})
  BY <1>1 DEF TiersInv, BlocksOK, TablesOK, Lost
<1>3. /\ plan.in \subseteq DOMAIN store \ OnGpu(store) /\ plan.out \subseteq OnGpu(store)
      /\ \A d \in DOMAIN plan.prefetch :
            /\ d \in DOMAIN store /\ plan.prefetch[d] \in Bytes
            /\ d \notin spoiled => ReadAhead(store, plan, d)
  BY <1>1 DEF TiersInv, PlanOK
<1>4. b \in plan.in
  <2>1. plan.in \subseteq Nat
    BY <1>2, <1>3
  <2> QED BY <1>1, <2>1, FirstIs
<1> HIDE DEF b
<1>5. b \in DOMAIN store /\ b \notin OnGpu(store) /\ store[b].gpu = 0 /\ store[b] \in Block
  BY <1>2, <1>3, <1>4 DEF OnGpu
<1>6. slot \in free /\ slot \in 0 .. GpuSlots /\ slot # 0
  <2>1. slot \in free
    BY <1>1, FreeSlot
  <2> HIDE DEF slot
  <2> QED BY <1>2, <2>1, Slots DEF GpuOK
<1> HIDE DEF slot
<1>7. /\ r \in Block /\ r.cpu = 0 /\ r.tier = "GPU" /\ r.gpu = slot /\ r.nvme = store[b].nvme
      /\ r.kept = store[b].kept /\ r.v = store[b].v /\ r.older = store[b].older
  <2>1. 0 \in 0 .. CpuSlots
    BY Slots
  <2> DEFINE old == store[b]
  <2>2. r = [old EXCEPT !.cpu = 0, !.tier = "GPU", !.gpu = slot] /\ old \in Block
    BY <1>5
  <2> HIDE DEF old, r
  <2>3. /\ r \in Block /\ r.cpu = 0 /\ r.tier = "GPU" /\ r.gpu = slot /\ r.nvme = old.nvme
        /\ r.kept = old.kept /\ r.v = old.v /\ r.older = old.older
    BY <1>6, <2>1, <2>2 DEF Block
  <2> QED BY <2>3 DEF old
<1> HIDE DEF r
<1>8. b \notin spoiled => Current(store[b].kept, b, store[b])
  BY <1>2, <1>5 DEF KeptOK
<1>9. x \in Bytes /\ (b \notin spoiled => Current(x, b, store[b]))
  <2>1. CASE b \in DOMAIN plan.prefetch
    <3>1. x = plan.prefetch[b]
      BY <2>1 DEF Source
    <3>2. x \in Bytes /\ (b \notin spoiled => ReadAhead(store, plan, b))
      BY <1>3, <2>1, <3>1
    <3> HIDE DEF x
    <3>3. ASSUME b \notin spoiled PROVE Current(x, b, store[b])
      <4>1. Belongs(x, b) /\ (store[b].older \/ x \in {NoBytes, store[b].kept})
        BY <1>4, <3>1, <3>2, <3>3 DEF ReadAhead
      <4> QED BY <1>8, <3>3, <4>1 DEF Belongs, Current
    <3> QED BY <3>2, <3>3
  <2>2. CASE b \notin DOMAIN plan.prefetch /\ store[b].cpu # 0
    <3>1. x = cpu.bytes[store[b].cpu]
      BY <2>2 DEF Source
    <3>2. b \in DOMAIN cpu.map /\ cpu.map[b] = store[b].cpu
      BY <1>2, <1>5, <2>2 DEF Named
    <3>3. cpu.map[b] \in 1 .. CpuSlots /\ cpu.bytes[cpu.map[b]] \in Bytes
      BY <1>2, <3>2 DEF TierOK
    <3> HIDE DEF x
    <3>4. ASSUME b \notin spoiled PROVE Current(x, b, store[b])
      <4>1. store[b].tier = "CPU"
        BY <1>2, <1>5, <2>2 DEF Marked, Block
      <4>2. Pinned(store, cpu, b)
        BY <1>2, <3>2, <3>4 DEF Pins
      <4> QED BY <1>8, <3>1, <3>2, <3>4, <4>1, <4>2 DEF Pinned
    <3> QED BY <3>1, <3>2, <3>3, <3>4
  <2>3. CASE /\ b \notin DOMAIN plan.prefetch /\ store[b].cpu = 0
             /\ b \in DOMAIN nvme.map /\ (store[b].nvme # 0 \/ store[b].tier = "SSD")
    <3>1. x = nvme.bytes[nvme.map[b]]
      BY <2>3 DEF Source
    <3>2. nvme.map[b] \in 1 .. NvmeSlots /\ nvme.bytes[nvme.map[b]] \in Bytes
      BY <1>2, <2>3 DEF TierOK
    <3> HIDE DEF x
    <3>3. ASSUME b \notin spoiled PROVE Current(x, b, store[b])
      <4>1. Backing(store, nvme, b)
        BY <1>2, <2>3, <3>3 DEF Backings
      <4>2. store[b].tier = "SSD"
        BY <1>2, <1>5, <2>3, <4>1 DEF Marked, Block, Backing
      <4> QED BY <1>8, <3>1, <3>3, <4>1, <4>2 DEF Backing
    <3> QED BY <3>1, <3>2, <3>3
  <2>4. CASE /\ b \notin DOMAIN plan.prefetch /\ store[b].cpu = 0
             /\ ~(b \in DOMAIN nvme.map /\ (store[b].nvme # 0 \/ store[b].tier = "SSD"))
    <3>1. x = NoBytes
      BY <2>4 DEF Source
    <3> QED BY <3>1 DEF NoBytes, Bytes, Current
  <2> QED BY <2>1, <2>2, <2>3, <2>4
<1> HIDE DEF x
<1>10. /\ TierOK(cpu', CpuSlots) /\ cpu'.bytes = cpu.bytes
       /\ DOMAIN cpu.map \ {b} \subseteq DOMAIN cpu'.map /\ DOMAIN cpu'.map \subseteq DOMAIN cpu.map
       /\ \A d \in DOMAIN cpu'.map : cpu'.map[d] = cpu.map[d]
       /\ b \in DOMAIN cpu'.map => b \in spoiled
  <2>1. CASE store[b].cpu # 0
    <3>1. cpu' = Released(cpu, {b}) /\ CpuSlots \in Nat
      BY <1>1, <2>1, Slots
    <3> QED BY <1>2, <3>1, ReleasedIs
  <2>2. CASE store[b].cpu = 0
    <3>1. b \in DOMAIN cpu.map => b \in spoiled
      BY <1>2, <2>2 DEF Pins, Pinned
    <3> QED BY <1>1, <1>2, <2>2, <3>1
  <2> QED BY <2>1, <2>2
<1>11. TierOK(nvme', NvmeSlots) /\ nvme'.map = nvme.map /\ nvme'.bytes = nvme.bytes
  <2>1. CASE LateRead(b)
    <3>1. nvme' = Touched(nvme, b) /\ b \in DOMAIN nvme.map /\ NvmeSlots \in Nat
      BY <1>1, <2>1, Slots
    <3> QED BY <1>2, <3>1, TouchedOK
  <2>2. CASE ~LateRead(b)
    BY <1>1, <1>2, <2>2
  <2> QED BY <2>1, <2>2
<1>12. BlocksOK(store', cpu', nvme', spoiled, {})
  <2>1. BlocksOK([store EXCEPT ![b] = r], cpu', nvme', spoiled, {})
    BY <1>2, <1>5, <1>6, <1>7, <1>10, <1>11, Promoted, SMTT(60)
  <2> QED BY <1>1, <2>1
<1>13. /\ DOMAIN store' = DOMAIN store /\ store'[b] = r
       /\ \A i \in DOMAIN store \ {b} : store'[i] = store[i]
  BY <1>1, <1>2, <1>5, <1>7, Replaced
<1>14. Takes(store, store', b, slot)
  BY <1>5, <1>7, <1>13 DEF Takes
<1>15. GpuOK(store', free', plan.frees)
  BY <1>1, <1>2, <1>6, <1>14, GpuTaken
<1>16. b \notin spoiled => Current(x, b, store'[b])
  BY <1>7, <1>9, <1>13, CurrentKept
<1>17. HeldOK(store', gpu', spoiled) /\ gpu' \in [1 .. GpuSlots -> Bytes]
  BY <1>1, <1>2, <1>6, <1>9, <1>14, <1>16, HeldTaken
<1>18. OnGpu(store') = OnGpu(store) \cup {b}
  BY <1>5, <1>6, <1>14 DEF Takes, OnGpu
<1>19. /\ plan'.frees = plan.frees /\ plan'.in = plan.in \ {b} /\ plan'.out = plan.out
       /\ plan'.prefetch = plan.prefetch /\ DOMAIN plan' = DOMAIN plan
  BY <1>1, <1>2
<1>20. PlanOK(store', plan', phase', spoiled)
  <2>1. plan'.in \subseteq DOMAIN store' \ OnGpu(store') /\ plan'.out \subseteq OnGpu(store')
    BY <1>3, <1>13, <1>18, <1>19
  <2>2. ASSUME NEW d \in DOMAIN plan'.prefetch
        PROVE  /\ d \in DOMAIN store' /\ plan'.prefetch[d] \in Bytes
               /\ d \notin spoiled => ReadAhead(store', plan', d)
    <3>1. /\ d \in DOMAIN store /\ plan.prefetch[d] \in Bytes
          /\ d \notin spoiled => ReadAhead(store, plan, d)
      BY <1>3, <1>19, <2>2
    <3>2. d \in plan'.in => d \in plan.in /\ store'[d] = store[d]
      BY <1>13, <1>19, <3>1
    <3> QED BY <1>13, <1>19, <3>1, <3>2 DEF ReadAhead
  <2> QED BY <1>1, <2>1, <2>2 DEF PlanOK
<1>21. phase' = "spilled" /\ Lost(phase', spoiled') = {} /\ spoiled' = spoiled
  BY <1>1 DEF Lost
<1> QED BY <1>1, <1>2, <1>12, <1>15, <1>17, <1>19, <1>20, <1>21 DEF TiersInv

LEMMA ResetToEmptyStep ==
    ASSUME TiersInv, ResetToEmpty
    PROVE  TiersInv'
<1>1. /\ plan' = NoPlan /\ phase' = "idle" /\ store' = <<>> /\ free' = 1 .. GpuSlots
      /\ cpu' = Released(cpu, {b \in Ids : store[b].cpu # 0})
      /\ nvme' = Released(nvme, {b \in Ids : store[b].nvme # 0})
      /\ gpu' = gpu /\ version' = version /\ spoiled' = spoiled
  BY DEF ResetToEmpty
<1>2. /\ BlocksOK(store, cpu, nvme, spoiled, Lost(phase, spoiled)) /\ store \in Seq(Block)
      /\ Ids = DOMAIN store
  BY IdsAre DEF TiersInv, BlocksOK, TablesOK
<1>3. <<>> \in Seq(Block) /\ DOMAIN <<>> = {}
  OBVIOUS
<1>4. BlocksOK(<<>>, cpu', nvme', spoiled, {})
  <2> DEFINE none == <<>>
             lost == Lost(phase, spoiled)
  <2>1. none \in Seq(Block) /\ DOMAIN none = {} /\ Ids = DOMAIN store \ DOMAIN none
    BY <1>2, <1>3
  <2>2. BlocksOK(store, cpu, nvme, spoiled, lost)
    BY <1>2
  <2> HIDE DEF none, lost
  <2>3. BlocksOK(none, cpu', nvme', spoiled, lost)
    BY <1>1, <2>1, <2>2, BlocksCut
  <2>4. BlocksOK(none, cpu', nvme', spoiled, {})
    BY <2>1, <2>3 DEF BlocksOK, Named
  <2> QED BY <2>4 DEF none
<1>5. plan'.frees = {} /\ DOMAIN plan' = {"in", "out", "selected", "prefetch", "frees"}
  BY <1>1 DEF NoPlan
<1>6. OnGpu(<<>>) = {}
  BY <1>3 DEF OnGpu
<1>7. GpuOK(<<>>, 1 .. GpuSlots, {}) /\ HeldOK(<<>>, gpu, spoiled)
  BY <1>6 DEF GpuOK, HeldOK
<1>8. PlanOK(<<>>, plan', "idle", spoiled)
  BY <1>5 DEF PlanOK
<1>9. /\ BlocksOK(store', cpu', nvme', spoiled', Lost(phase', spoiled'))
      /\ PlanOK(store', plan', phase', spoiled')
  BY <1>1, <1>4, <1>8 DEF Lost
<1>10. GpuOK(store', free', plan'.frees) /\ HeldOK(store', gpu', spoiled')
  BY <1>1, <1>5, <1>7
<1>11. gpu' \in [1 .. GpuSlots -> Bytes] /\ version' \in Nat /\ phase' \in {"idle", "prepared", "spilled", "stuck"}
  BY <1>1 DEF TiersInv
<1> QED BY <1>5, <1>9, <1>10, <1>11 DEF TiersInv

\* The phases of a plan, with nothing else changed: the reads that are not the
\* last of an apply, and the end of one.
LEMMA PhaseStep ==
    ASSUME TiersInv, SpillOutgoing \/ SpillThrows \/ AdmitThrows \/ Admitted
    PROVE  TiersInv'
<1>1. /\ store' = store /\ gpu' = gpu /\ free' = free /\ cpu' = cpu /\ nvme' = nvme
      /\ version' = version /\ spoiled' = spoiled /\ phase \in {"prepared", "spilled"}
  BY DEF SpillOutgoing, SpillThrows, AdmitThrows, Admitted, Admitting
<1>2. PlanOK(store, plan, phase, spoiled) /\ GpuOK(store, free, plan.frees)
  BY DEF TiersInv
<1>3. BlocksOK(store, cpu, nvme, spoiled, Lost(phase', spoiled))
  <2>1. BlocksOK(store, cpu, nvme, spoiled, {})
    BY <1>1 DEF TiersInv, Lost
  <2> QED BY <2>1 DEF BlocksOK, Named
<1>4. CASE SpillOutgoing
  <2>1. plan' = plan /\ phase = "prepared" /\ phase' = "spilled"
    BY <1>4 DEF SpillOutgoing
  <2>2. PlanOK(store, plan, phase', spoiled)
    BY <1>2, <2>1 DEF PlanOK
  <2> QED BY <1>1, <1>3, <2>1, <2>2 DEF TiersInv
<1>5. CASE SpillThrows \/ AdmitThrows
  <2>1. plan' = plan /\ phase' = "stuck"
    BY <1>5 DEF SpillThrows, AdmitThrows
  <2>2. PlanOK(store, plan, phase', spoiled)
    BY <2>1 DEF PlanOK
  <2> QED BY <1>1, <1>3, <2>1, <2>2 DEF TiersInv
<1>6. CASE Admitted
  <2>1. plan' = NoPlan /\ phase' = "idle" /\ plan.frees = {}
    BY <1>6 DEF Admitted, Admitting
  <2>2. plan'.frees = {} /\ DOMAIN plan' = {"in", "out", "selected", "prefetch", "frees"}
    BY <2>1 DEF NoPlan
  <2>3. PlanOK(store, plan', phase', spoiled)
    BY <2>1, <2>2 DEF PlanOK
  <2> QED BY <1>1, <1>3, <2>1, <2>2, <2>3 DEF TiersInv
<1> QED BY <1>4, <1>5, <1>6

LEMMA TiersStep == TiersInv /\ [Next]_vars => TiersInv'
<1> SUFFICES ASSUME TiersInv, [Next]_vars PROVE TiersInv'
  OBVIOUS
<1>1. CASE \E n \in 1 .. BlockRows : AppendToTail(n) \/ AppendBlock(n)
  BY <1>1, AppendToTailStep, AppendBlockStep
<1>2. CASE \E b \in Ids : WritePacked(b)
  BY <1>2, WritePackedStep
<1>3. CASE \E full \in 0 .. MaxBlocks, cut \in 0 .. BlockRows : TruncateTo(full, cut)
  <2>1. MaxBlocks \in Nat /\ BlockRows \in Nat
    BY TiersAssumption
  <2>2. PICK full \in 0 .. MaxBlocks, cut \in 0 .. BlockRows : TruncateTo(full, cut)
    BY <1>3
  <2>3. full \in Nat /\ cut \in Nat
    BY <2>1
  <2> QED BY <2>2, <2>3, TruncateToStep
<1>4. CASE \E s \in Selections : Prepare(s)
  <2>1. PICK s \in Selections : Prepare(s)
    BY <1>4
  <2>2. s \in SUBSET Ids
    BY DEF Selections
  <2> QED BY <2>1, <2>2, PrepareStep
<1>5. CASE SpillOutgoing \/ SpillThrows \/ AdmitThrows \/ Admitted
  BY <1>5, PhaseStep
<1>6. CASE StageOut
  BY <1>6, StageOutStep
<1>7. CASE StageOutThrows
  BY <1>7, StageOutThrowsStep
<1>8. CASE FreedFirst
  BY <1>8, FreedFirstStep
<1>9. CASE StageIn
  BY <1>9, StageInStep
<1>10. CASE ResetToEmpty
  BY <1>10, ResetToEmptyStep
<1>11. CASE UNCHANGED vars
  BY <1>11 DEF vars, TiersInv
<1> QED BY <1>1, <1>2, <1>3, <1>4, <1>5, <1>6, <1>7, <1>8, <1>9, <1>10, <1>11 DEF Next

-----------------------------------------------------------------------------
(* The theorems                                                             *)

\* The inductive invariant of the block tiers: types, the tables of the three
\* tiers against what the blocks say, the plan under way, the bytes of every
\* copy; of the ids a failed write to NVMe concerned, only what the code still
\* keeps of them.
THEOREM TiersInvariant == Spec => []TiersInv
<1>1. Init => TiersInv
  BY InitSafe
<1>2. TiersInv /\ [Next]_vars => TiersInv'
  BY TiersStep
<1> QED BY <1>1, <1>2, PTL DEF Spec

\* For any number of blocks and slots: a slot of the GPU is never lost nor
\* shared, a slot of a lower tier is never shared, and the tables and the blocks
\* say the same of every id but those a failed write to NVMe concerned, however
\* often plans fail and stores are truncated or emptied behind it
\* (kvmem_runtime.cpp stage_out, stage_in, truncate_to; place_block_evicting).
THEOREM SlotsAreExact == Spec => []SlotsExact
<1>1. TiersInv => SlotsExact
  <2> SUFFICES ASSUME TiersInv PROVE SlotsExact
    OBVIOUS
  <2>1. /\ GpuOK(store, free, plan.frees) /\ Pins(store, cpu, spoiled)
        /\ Backings(store, nvme, spoiled) /\ Named(store, cpu, Lost(phase, spoiled))
        /\ TierOK(cpu, CpuSlots) /\ TierOK(nvme, NvmeSlots)
        /\ Ids = DOMAIN store /\ Resident = OnGpu(store)
    BY IdsAre DEF TiersInv, BlocksOK, TablesOK
  <2>2. {store[b].gpu : b \in Resident} \cup free \cup plan.frees = 1 .. GpuSlots
    <3>1. \A k \in 1 .. GpuSlots : k \in {store[b].gpu : b \in Resident} \cup free \cup plan.frees
      BY <2>1 DEF GpuOK
    <3>2. \A b \in Resident : store[b].gpu \in 1 .. GpuSlots
      BY <2>1 DEF GpuOK
    <3>3. free \subseteq 1 .. GpuSlots /\ plan.frees \subseteq 1 .. GpuSlots
      BY <2>1 DEF GpuOK
    <3> QED BY <3>1, <3>2, <3>3
  <2>3. {store[b].gpu : b \in Resident} \cap (free \cup plan.frees) = {}
    BY <2>1 DEF GpuOK
  <2>4. \A b, c \in Resident : store[b].gpu = store[c].gpu => b = c
    BY <2>1 DEF GpuOK
  <2>5. free \cap plan.frees = {}
    BY <2>1 DEF GpuOK
  <2> DEFINE pinned == {b \in Ids : store[b].cpu # 0}
  <2>6. /\ \A b \in pinned : b \notin spoiled \/ phase # "stuck" =>
               b \in DOMAIN cpu.map /\ cpu.map[b] = store[b].cpu
        /\ DOMAIN cpu.map \subseteq pinned \cup spoiled
    BY <2>1 DEF Pins, Pinned, Named, Lost
  <2>7. /\ Injective(cpu.map) /\ Listed(cpu.lru) = DOMAIN cpu.map
        /\ Injective(nvme.map) /\ Listed(nvme.lru) = DOMAIN nvme.map
        /\ \A b \in DOMAIN nvme.map \ spoiled : b \in Ids /\ store[b].nvme = nvme.map[b]
    BY <2>1 DEF TierOK, Backings, Backing
  <2> QED BY <2>2, <2>3, <2>4, <2>5, <2>6, <2>7 DEF SlotsExact
<1> QED BY <1>1, TiersInvariant, PTL

\* The active copy of a block below the GPU is what it last left the GPU with,
\* through every displacement from tier to tier and past the failed writes of
\* other blocks (spill_bytes_to_nvme).
THEOREM ActiveCopyIsLast == Spec => []ActiveIsLast
<1>1. TiersInv => ActiveIsLast
  <2> SUFFICES ASSUME TiersInv, NEW b \in Ids \ spoiled
               PROVE  /\ store[b].tier = "CPU" /\ store[b].cpu # 0 =>
                             cpu.bytes[store[b].cpu] = store[b].kept
                      /\ store[b].tier = "SSD" /\ b \in DOMAIN nvme.map =>
                             nvme.bytes[nvme.map[b]] = store[b].kept
    BY DEF ActiveIsLast
  <2>1. /\ Pins(store, cpu, spoiled) /\ Backings(store, nvme, spoiled)
        /\ Named(store, cpu, Lost(phase, spoiled)) /\ b \in DOMAIN store /\ b \notin spoiled
    BY IdsAre DEF TiersInv, BlocksOK, TablesOK
  <2>2. ASSUME store[b].tier = "CPU", store[b].cpu # 0 PROVE cpu.bytes[store[b].cpu] = store[b].kept
    <3>1. b \in DOMAIN cpu.map /\ cpu.map[b] = store[b].cpu
      BY <2>1, <2>2 DEF Named, Lost
    <3> QED BY <2>1, <2>2, <3>1 DEF Pins, Pinned
  <2>3. ASSUME store[b].tier = "SSD", b \in DOMAIN nvme.map
        PROVE  nvme.bytes[nvme.map[b]] = store[b].kept
    BY <2>1, <2>3 DEF Backings, Backing
  <2> QED BY <2>2, <2>3
<1> QED BY <1>1, TiersInvariant, PTL

\* What the slot of a resident block holds is the block's own, and its newest
\* rows unless older ones were read ahead past a newer pinned copy; a failed
\* write to NVMe touches no other id (start_prefetch, stage_in, stage_out).
THEOREM ResidentsHoldTheirOwn == Spec => []ResidentBytes
<1>1. TiersInv => ResidentBytes
  <2> SUFFICES ASSUME TiersInv, NEW b \in Resident \ spoiled, gpu[store[b].gpu] # NoBytes
               PROVE  /\ gpu[store[b].gpu][1] = b
                      /\ store[b].older \/ gpu[store[b].gpu][2] \in {0, store[b].v}
    BY DEF ResidentBytes
  <2>1. b \in OnGpu(store) \ spoiled /\ HeldOK(store, gpu, spoiled)
    BY IdsAre DEF TiersInv, BlocksOK, TablesOK
  <2> QED BY <2>1 DEF HeldOK, Current
<1> QED BY <1>1, TiersInvariant, PTL

===============================================================================
