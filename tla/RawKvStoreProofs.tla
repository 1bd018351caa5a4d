---------------------------- MODULE RawKvStoreProofs ----------------------------
(***************************************************************************)
(* The host copy of RawKvStore holds the rows last written, its means are  *)
(* the means of the rows they count, and the writer thread's buffers are   *)
(* left alone, for any number of blocks, rows and slots, whatever fails.   *)
(***************************************************************************)
EXTENDS RawKvStore, FiniteSetTheorems, SequenceTheorems, WellFoundedInduction, TLAPS

Rows == [Offsets -> Nat]
LayerPart == [ram : Rows \cup {None}, tokens : 0 .. BT, nvme : Rows \cup {None}, flushing : BOOLEAN]
LayerBlk == [n : 0 .. BT, meanTokens : 0 .. BT, sum : SUBSET (Offsets \X Nat),
             part : [Part -> LayerPart]]
Jobs == Blocks \X Part
WriteKinds == {"tokens", "tokens_f16", "k_gpu", "v_gpu", "k_rows"}
OpKinds == WriteKinds \cup {"idle", "truncate", "invalidate", "clear", "copy", "wait",
                            "restore", "notify", "join", "gone"}

StoreTypes ==
    /\ family \in {"packed", "f16", "rows"}
    /\ blk \in [Blocks -> LayerBlk] /\ size \in 0 .. NB
    /\ placed \subseteq Jobs
    /\ q \in Seq(Jobs) /\ batch \in Seq(Jobs)
    /\ ioError \in BOOLEAN /\ stop \in BOOLEAN
    /\ io \in {"wait", "tested", "asleep", "copy", "write", "ended"}
    /\ op \in [kind : OpKinds, pos : Nat, end : Nat]
    /\ truth \in [Part -> [Positions -> Nat]] /\ meanTruth \in [Positions -> Nat]
    /\ written \in Nat /\ faults \in Nat
    /\ lost \subseteq Jobs

\* The jobs queued and taken are those marked, each in one place.
Waits(queued, taken, marked) ==
    /\ \A i, j \in DOMAIN queued : queued[i] = queued[j] => i = j
    /\ \A i, j \in DOMAIN taken : taken[i] = taken[j] => i = j
    /\ \A i \in DOMAIN queued, j \in DOMAIN taken : queued[i] # taken[j]
    /\ \A x \in Jobs :
         x \in marked <=> \/ \E i \in DOMAIN queued : queued[i] = x
                          \/ \E i \in DOMAIN taken : taken[i] = x

Marked == {x \in Jobs : blk[x[1]].part[x[2]].flushing}

\* What the writer thread relies on: a marked buffer is there, the slab is a
\* copy of the marked buffers, and a thread that ended has left nothing.
QueueSafe ==
    /\ Waits(q, batch, Marked)
    /\ Marked \subseteq placed
    /\ \A x \in Marked : blk[x[1]].part[x[2]].ram # None
    /\ batch # <<>> => io \in {"copy", "write"}
    /\ io = "ended" => q = <<>> /\ stop
    /\ stop <=> op.kind \in {"notify", "join", "gone"}
    /\ op.kind = "gone" => io = "ended"
    /\ io = "write" => /\ DOMAIN slab = DOMAIN batch
                       /\ \A i \in DOMAIN batch :
                            slab[i] = blk[batch[i][1]].part[batch[i][2]].ram

\* Opaque K rows have no V part.
Used(p) == family # "rows" \/ p = "K"

RowsTrue(b, p) ==
    \A o \in 0 .. Claimed(b, p) - 1 :
        \/ Content(b, p)[o] = truth[p][b * BT + o]
        \/ Content(b, p)[o] = 0 /\ <<b, p>> \in lost

RowsSafe ==
    /\ \A b \in Blocks : b >= size => blk[b] = Fresh
    /\ \A b \in Blocks, p \in Part : Content(b, p) # None => RowsTrue(b, p)
    /\ \A b \in Blocks, p \in Part :
         Used(p) /\ Claimed(b, p) > 0 /\ Content(b, p) = None => <<b, p>> \in lost
    /\ \A b \in Blocks, p \in Part : ~Used(p) => Content(b, p) = None

\* Where the owner's call may be: a write has all claimed rows behind it.
OpSafe ==
    /\ op.pos < NB * BT
    /\ op.kind \in WriteKinds =>
        /\ op.kind \in Kinds
        /\ op.pos < op.end /\ op.end <= NB * BT
        /\ \A p \in Parts(op.kind) :
             /\ op.pos % BT <= Claimed(op.pos \div BT, p)
             /\ \A c \in Blocks : c < op.pos \div BT => Claimed(c, p) = BT
    /\ op.kind = "tokens" => blk[op.pos \div BT].n = op.pos % BT
    /\ op.kind = "truncate" /\ family # "f16" => Restorable(op.pos)
    /\ op.kind = "restore" =>
        family = "packed" /\ op.pos = saved.pos /\ saved.pos % BT # 0

MeansOf(b, n) == {<<o, meanTruth[b * BT + o]>> : o \in 0 .. n - 1}

\* FP16 rows and their means are written and cut together.
MeansSafe ==
    /\ \A b \in Blocks : <<b, "K">> \in lost \/ blk[b].sum = MeansOf(b, blk[b].meanTokens)
    /\ family = "packed" => \A b \in Blocks : <<b, "K">> \notin lost
    /\ family = "f16" =>
        /\ meanTruth = truth["K"]
        /\ \A b \in Blocks : <<b, "K">> \in lost \/ blk[b].meanTokens = blk[b].n
        /\ \A b \in Blocks : b + 1 < size => blk[b].n = BT

\* The checkpoint of a tail is its mean, and the block has grown since.
SavedSafe ==
    \/ saved = NoMean
    \/ /\ family = "packed"
       /\ saved.pos \in Nat /\ 0 < saved.pos /\ saved.pos < NB * BT /\ saved.pos % BT # 0
       /\ saved.tokens = saved.pos % BT
       /\ saved.sum = MeansOf(saved.pos \div BT, saved.tokens)
       /\ op.kind # "restore" => /\ saved.pos \div BT < size
                                 /\ blk[saved.pos \div BT].meanTokens >= saved.tokens

StoreInv == StoreTypes /\ QueueSafe /\ RowsSafe /\ OpSafe /\ MeansSafe /\ SavedSafe

-----------------------------------------------------------------------------
(* Blocks and positions                                                     *)

LEMMA ProductOrder ==
  ASSUME NEW a \in Nat, NEW b \in Nat, NEW k \in Nat, a <= b
  PROVE  a * k <= b * k
  <1>1. PICK d \in Nat : b = a + d
    BY SMT
  <1>2. b * k = (a * k) + (d * k) /\ d * k >= 0
    BY <1>1, SMT
  <1> QED
    BY <1>2, SMT

LEMMA BlockBase ==
  ASSUME NEW b \in Nat
  PROVE  b * BT \in Nat /\ (b + 1) * BT = b * BT + BT
  BY StoreAssumption, SMT

LEMMA Split ==
  ASSUME NEW pos \in Nat
  PROVE  /\ pos \div BT \in Nat /\ pos % BT \in Offsets
         /\ pos = (pos \div BT) * BT + (pos % BT)
  BY StoreAssumption, SMT DEF Offsets

\* Positions are ordered by block, then by offset.
LEMMA Order ==
  ASSUME NEW b \in Nat, NEW o \in Offsets, NEW c \in Nat, NEW t \in Offsets
  PROVE  /\ b * BT + o < c * BT + t <=> b < c \/ (b = c /\ o < t)
         /\ b * BT + o = c * BT + t <=> b = c /\ o = t
  <1>1. o \in Nat /\ t \in Nat /\ o < BT /\ t < BT /\ BT \in Nat
    BY StoreAssumption DEF Offsets
  <1>2. CASE b < c
    <2>1. (b + 1) * BT <= c * BT
      BY <1>1, <1>2, ProductOrder
    <2> QED
      BY <1>1, <1>2, <2>1, BlockBase
  <1>3. CASE c < b
    <2>1. (c + 1) * BT <= b * BT
      BY <1>1, <1>3, ProductOrder
    <2> QED
      BY <1>1, <1>3, <2>1, BlockBase
  <1>4. CASE b = c
    BY <1>1, <1>4, BlockBase
  <1> QED
    BY <1>2, <1>3, <1>4

LEMMA SamePlace ==
  ASSUME NEW b \in Nat, NEW o \in Offsets, NEW c \in Nat, NEW t \in Offsets,
         b * BT + o = c * BT + t
  PROVE  b = c /\ o = t
  <1>1. ~(b * BT + o < c * BT + t) /\ ~(c * BT + t < b * BT + o)
    BY BlockBase DEF Offsets
  <1>2. ~(b < c \/ (b = c /\ o < t))
    BY <1>1, Order
  <1>3. ~(c < b \/ (c = b /\ t < o))
    BY <1>1, Order
  <1> QED
    BY <1>2, <1>3 DEF Offsets

LEMMA Size == NB * BT \in Nat /\ Positions = {i \in Nat : i < NB * BT} /\ 0 \in Positions
  <1>1. NB * BT \in Nat /\ NB * BT > 0
    BY StoreAssumption, SMT
  <1> QED
    BY <1>1 DEF Positions

LEMMA Inside ==
  ASSUME NEW b \in Nat, NEW o \in Offsets
  PROVE  b * BT + o \in Positions <=> b \in Blocks
  <1>1. 0 \in Offsets /\ NB \in Nat
    BY StoreAssumption DEF Offsets
  <1>2. b * BT + o < NB * BT + 0 <=> b < NB \/ (b = NB /\ o < 0)
    BY <1>1, Order
  <1> DEFINE i == b * BT + o
             size0 == NB * BT
  <1>3. i \in Nat /\ ~(o < 0) /\ size0 \in Nat /\ Positions = {k \in Nat : k < size0}
    BY BlockBase, Size DEF Offsets
  <1>4. i < size0 <=> b < NB
    BY <1>2, <1>3
  <1> HIDE DEF i, size0
  <1>5. i \in Positions <=> b \in Blocks
    BY <1>1, <1>3, <1>4 DEF Blocks
  <1> QED
    BY <1>5 DEF i

LEMMA PositionIs ==
  ASSUME NEW pos \in Nat, pos < NB * BT
  PROVE  pos \div BT \in Blocks /\ pos % BT \in Offsets
  <1>1. pos = (pos \div BT) * BT + (pos % BT) /\ pos \div BT \in Nat /\ pos % BT \in Offsets
    BY Split
  <1>2. pos \in Positions
    BY Size
  <1> DEFINE c == pos \div BT
             t == pos % BT
  <1>3. c * BT + t \in Positions
    BY <1>1, <1>2
  <1> HIDE DEF c, t
  <1>4. c \in Blocks
    BY <1>1, <1>3, Inside DEF c, t
  <1> QED
    BY <1>1, <1>4 DEF c, t

LEMMA SplitOf ==
  ASSUME NEW b \in Nat, NEW o \in Offsets
  PROVE  (b * BT + o) \div BT = b /\ (b * BT + o) % BT = o
  <1> DEFINE pos == b * BT + o
             c == pos \div BT
             t == pos % BT
  <1>1. pos \in Nat
    BY BlockBase DEF Offsets
  <1>2. pos = c * BT + t /\ c \in Nat /\ t \in Offsets
    BY <1>1, Split
  <1> HIDE DEF c, t
  <1>3. b = c /\ o = t
    BY <1>2, Order
  <1> QED
    BY <1>3 DEF c, t

\* The positions of a run of rows inside a block.
LEMMA Run ==
  ASSUME NEW b \in Nat, NEW o \in Offsets, NEW c \in Nat, NEW off \in Offsets,
         NEW take \in Nat, 1 <= take, off + take <= BT
  PROVE  b * BT + o \in c * BT + off .. c * BT + off + take - 1
            <=> b = c /\ o \in off .. off + take - 1
  <1> DEFINE last == off + take - 1
  <1>1. last \in Offsets /\ off \in Nat /\ o \in Nat
    BY StoreAssumption DEF Offsets
  <1>2. b * BT \in Nat /\ c * BT \in Nat
    BY BlockBase
  <1> HIDE DEF last
  <1>3. c * BT + last < b * BT + o <=> c < b \/ (c = b /\ last < o)
    BY <1>1, Order
  <1>4. b * BT + o < c * BT + off <=> b < c \/ (b = c /\ o < off)
    BY Order
  <1>5. c * BT + off + take - 1 = c * BT + last /\ off + take - 1 = last /\ off <= last
    BY <1>1, <1>2 DEF last
  <1> QED
    BY <1>1, <1>2, <1>3, <1>4, <1>5

\* The blocks a history of pos rows needs (the rounding of truncate_to).
LEMMA KeepIs ==
  ASSUME NEW pos \in Nat
  PROVE  (pos + BT - 1) \div BT = (IF pos % BT = 0 THEN pos \div BT ELSE pos \div BT + 1)
  <1> DEFINE c == pos \div BT
             t == pos % BT
  <1>1. pos = c * BT + t /\ c \in Nat /\ t \in Offsets
    BY Split
  <1>2. BT \in Nat /\ BT > 0 /\ c * BT \in Nat /\ (c + 1) * BT = c * BT + BT
    BY <1>1, BlockBase, StoreAssumption
  <1> HIDE DEF c, t
  <1>3. CASE t = 0
    <2>1. pos + BT - 1 = c * BT + (BT - 1) /\ BT - 1 \in Offsets
      BY <1>1, <1>2, <1>3 DEF Offsets
    <2>2. (c * BT + (BT - 1)) \div BT = c
      BY <1>1, <2>1, SplitOf
    <2> QED
      BY <1>3, <2>1, <2>2 DEF c, t
  <1>4. CASE t # 0
    <2>1. pos + BT - 1 = (c + 1) * BT + (t - 1) /\ t - 1 \in Offsets /\ c + 1 \in Nat
      BY <1>1, <1>2, <1>4 DEF Offsets
    <2>2. ((c + 1) * BT + (t - 1)) \div BT = c + 1
      BY <2>1, SplitOf
    <2> QED
      BY <1>4, <2>1, <2>2 DEF c, t
  <1> QED
    BY <1>3, <1>4

LEMMA LeastNumber ==
  ASSUME NEW S, S \subseteq Nat, S # {}
  PROVE  \E m \in S : \A c \in S : m <= c
  <1>1. PICK m \in S : \A c \in S : ~(<<c, m>> \in OpToRel(<, Nat))
    BY WFMin, NatLessThanWellFounded
  <1>2. \A c \in S : ~(c < m)
    BY <1>1 DEF OpToRel
  <1> QED
    BY <1>2

LEMMA GreatestNumber ==
  ASSUME NEW n \in Nat, NEW S, S \subseteq 0 .. n, S # {}
  PROVE  \E m \in S : \A c \in S : c <= m
  <1> DEFINE T == {n - s : s \in S}
  <1>1. \A c \in S : n - c \in Nat /\ n - c \in T
    OBVIOUS
  <1>2. T \subseteq Nat /\ T # {}
    BY <1>1
  <1> HIDE DEF T
  <1>3. PICK t \in T : \A c \in T : t <= c
    BY <1>2, LeastNumber
  <1>4. PICK m \in S : t = n - m
    BY <1>3 DEF T
  <1>5. \A c \in S : n - m <= n - c
    BY <1>1, <1>3, <1>4
  <1> QED
    BY <1>4, <1>5

-----------------------------------------------------------------------------
(* Marks and the two lists                                                  *)

LEMMA MarkedIs ==
  ASSUME NEW b \in Blocks, NEW p \in Part
  PROVE  <<b, p>> \in Marked <=> blk[b].part[p].flushing
  BY DEF Marked, Jobs

LEMMA MarkedSame ==
  ASSUME \A b \in Blocks, p \in Part : blk'[b].part[p].flushing = blk[b].part[p].flushing
  PROVE  Marked' = Marked
  BY DEF Marked, Jobs

LEMMA Unmarked ==
  ASSUME QueueSafe, q = <<>>, batch = <<>>
  PROVE  Marked = {} /\ \A b \in Blocks, p \in Part : ~blk[b].part[p].flushing
  <1>1. \A x \in Jobs : x \notin Marked
    BY DEF QueueSafe, Waits
  <1>2. Marked = {}
    BY <1>1 DEF Marked
  <1> QED
    BY <1>2, MarkedIs

\* A job that is not marked joins the queue.
LEMMA JoinQueue ==
  ASSUME NEW queued \in Seq(Jobs), NEW taken \in Seq(Jobs), NEW marked \in SUBSET Jobs,
         NEW x \in Jobs \ marked, Waits(queued, taken, marked)
  PROVE  Waits(Append(queued, x), taken, marked \cup {x})
  <1> DEFINE more == Append(queued, x)
             n == Len(queued) + 1
  <1>1. /\ n \in Nat /\ n >= 1 /\ DOMAIN queued = 1 .. n - 1 /\ DOMAIN more = 1 .. n
        /\ more[n] = x /\ \A i \in 1 .. n - 1 : more[i] = queued[i]
    OBVIOUS
  <1>2. \A i \in 1 .. n - 1 : queued[i] # x
    BY <1>1 DEF Waits
  <1>3. \A i \in DOMAIN taken : taken[i] # x
    BY DEF Waits
  <1> HIDE DEF more, n
  <1>4. \A i \in DOMAIN more : i \in DOMAIN queued \/ (i = n /\ more[i] = x)
    BY <1>1
  <1>5. \A i \in DOMAIN queued : i \in DOMAIN more /\ more[i] = queued[i] /\ more[i] # x
    BY <1>1, <1>2
  <1>6. n \in DOMAIN more
    BY <1>1
  <1>7. \A i, j \in DOMAIN more : more[i] = more[j] => i = j
    BY <1>1, <1>4, <1>5 DEF Waits
  <1>8. \A i \in DOMAIN more, j \in DOMAIN taken : more[i] # taken[j]
    BY <1>3, <1>4, <1>5 DEF Waits
  <1>9. ASSUME NEW y \in Jobs
        PROVE  y \in marked \cup {x} <=> \/ \E i \in DOMAIN more : more[i] = y
                                         \/ \E i \in DOMAIN taken : taken[i] = y
    <2>1. CASE y = x
      BY <1>1, <1>6, <2>1
    <2>2. CASE y # x
      <3>1. (\E i \in DOMAIN more : more[i] = y) <=> (\E i \in DOMAIN queued : queued[i] = y)
        BY <1>1, <1>4, <1>5, <2>2
      <3> QED
        BY <2>2, <3>1 DEF Waits
    <2> QED
      BY <2>1, <2>2
  <1>10. \A i, j \in DOMAIN taken : taken[i] = taken[j] => i = j
    BY DEF Waits
  <1>11. Waits(more, taken, marked \cup {x})
    BY <1>7, <1>8, <1>9, <1>10 DEF Waits
  <1> QED
    BY <1>11 DEF more

\* A step that leaves the writer's batch, its slab and the marked buffers alone.
LEMMA QueueKept ==
  ASSUME StoreTypes, QueueSafe, UNCHANGED <<batch, slab>>,
         io' = io \/ (io = "asleep" /\ io' = "wait"),
         Waits(q', batch, Marked'), Marked' \subseteq placed',
         \A x \in Marked' : blk'[x[1]].part[x[2]].ram # None,
         \A x \in Marked : blk'[x[1]].part[x[2]].ram = blk[x[1]].part[x[2]].ram,
         io' = "ended" => q' = <<>> /\ stop',
         stop' <=> op'.kind \in {"notify", "join", "gone"},
         op'.kind = "gone" => io' = "ended"
  PROVE  QueueSafe'
  <1>1. \A i \in DOMAIN batch : batch[i] \in Marked
    <2> TAKE i \in DOMAIN batch
    <2>1. batch[i] \in Jobs
      BY DEF StoreTypes
    <2> QED
      BY <2>1 DEF QueueSafe, Waits
  <1>2. io' = "write" => /\ DOMAIN slab' = DOMAIN batch'
                         /\ \A i \in DOMAIN batch' :
                              slab'[i] = blk'[batch'[i][1]].part[batch'[i][2]].ram
    BY <1>1 DEF QueueSafe
  <1>3. batch' # <<>> => io' \in {"copy", "write"}
    BY DEF QueueSafe
  <1>4. Waits(q, batch, Marked)'
    BY Zenon
  <1> QED
    BY <1>2, <1>3, <1>4 DEF QueueSafe

LEMMA SameQueue ==
  ASSUME StoreTypes, QueueSafe, UNCHANGED <<q, batch, slab, placed>>,
         io' = io \/ (io = "asleep" /\ io' = "wait"),
         \A b \in Blocks, p \in Part :
            /\ blk'[b].part[p].flushing = blk[b].part[p].flushing
            /\ blk[b].part[p].flushing => blk'[b].part[p].ram = blk[b].part[p].ram,
         io' = "ended" => stop',
         stop' <=> op'.kind \in {"notify", "join", "gone"},
         op'.kind = "gone" => io' = "ended"
  PROVE  QueueSafe'
  <1>1. Marked' = Marked
    BY MarkedSame
  <1>2. \A x \in Marked : blk'[x[1]].part[x[2]].ram = blk[x[1]].part[x[2]].ram
    BY DEF Marked, Jobs
  <1>3. Waits(q', batch, Marked') /\ Marked' \subseteq placed'
    BY <1>1 DEF QueueSafe
  <1>4. \A x \in Marked' : blk'[x[1]].part[x[2]].ram # None
    BY <1>1, <1>2 DEF QueueSafe
  <1>5. io' = "ended" => q' = <<>> /\ stop'
    BY DEF QueueSafe
  <1> QED
    BY <1>2, <1>3, <1>4, <1>5, QueueKept

-----------------------------------------------------------------------------
(* What a step leaves alone                                                 *)

\* Contents stay and claims shrink.
LEMMA RowsKept ==
  ASSUME RowsSafe, UNCHANGED <<family, truth, lost>>,
         \A b \in Blocks, p \in Part :
            /\ Content(b, p)' = Content(b, p)
            /\ Claimed(b, p) \in Int /\ Claimed(b, p)' \in Int
            /\ Claimed(b, p)' <= Claimed(b, p),
         \A b \in Blocks : b >= size' => blk'[b] = Fresh
  PROVE  RowsSafe'
  <1>1. ASSUME NEW b \in Blocks, NEW p \in Part, Content(b, p)' # None
        PROVE  RowsTrue(b, p)'
    <2>1. RowsTrue(b, p)
      BY <1>1 DEF RowsSafe
    <2>2. \A o \in 0 .. Claimed(b, p)' - 1 : o \in 0 .. Claimed(b, p) - 1
      OBVIOUS
    <2> QED
      BY <2>1, <2>2 DEF RowsTrue
  <1>2. ASSUME NEW b \in Blocks, NEW p \in Part, Used(p)', Claimed(b, p)' > 0, Content(b, p)' = None
        PROVE  <<b, p>> \in lost'
    <2>1. Used(p) /\ Claimed(b, p) > 0 /\ Content(b, p) = None
      BY <1>2 DEF Used
    <2> QED
      BY <2>1 DEF RowsSafe
  <1>3. \A b \in Blocks, p \in Part : ~Used(p)' => Content(b, p)' = None
    BY DEF RowsSafe, Used
  <1> QED
    BY <1>1, <1>2, <1>3 DEF RowsSafe

LEMMA MeansKept ==
  ASSUME MeansSafe, UNCHANGED <<family, size, truth, meanTruth, lost>>,
         \A b \in Blocks : /\ blk'[b].n = blk[b].n /\ blk'[b].sum = blk[b].sum
                           /\ blk'[b].meanTokens = blk[b].meanTokens
  PROVE  MeansSafe'
  BY DEF MeansSafe, MeansOf

LEMMA SavedKept ==
  ASSUME SavedSafe, UNCHANGED <<family, size, saved, meanTruth>>,
         \A b \in Blocks : blk'[b].meanTokens = blk[b].meanTokens,
         op'.kind # "restore" => op.kind # "restore"
  PROVE  SavedSafe'
  <1>1. saved # NoMean => saved.pos \div BT \in Blocks
    BY PositionIs DEF SavedSafe
  <1> QED
    BY <1>1 DEF SavedSafe, MeansOf

\* Steps of calls that neither write nor move the truth.
LEMMA QuietStep ==
  ASSUME StoreInv, UNCHANGED <<family, blk, size, truth, meanTruth, lost>>,
         StoreTypes', QueueSafe', OpSafe', SavedSafe'
  PROVE  StoreInv'
  <1>1. \A b \in Blocks, p \in Part :
          /\ Content(b, p)' = Content(b, p) /\ Claimed(b, p)' = Claimed(b, p)
          /\ Claimed(b, p) \in Int
    BY DEF Content, Claimed, StoreInv, StoreTypes, LayerBlk, LayerPart
  <1>2. \A b \in Blocks : b >= size' => blk'[b] = Fresh
    BY DEF StoreInv, RowsSafe
  <1>3. RowsSafe'
    BY <1>1, <1>2, RowsKept DEF StoreInv
  <1>4. MeansSafe'
    BY MeansKept DEF StoreInv
  <1> QED
    BY <1>3, <1>4 DEF StoreInv

LEMMA OpRests ==
  ASSUME op'.kind \notin WriteKinds \cup {"truncate", "restore"}, op'.pos < NB * BT
  PROVE  OpSafe'
  BY DEF OpSafe, WriteKinds

LEMMA OpStays ==
  ASSUME OpSafe, op.pos \in Nat, UNCHANGED <<op, family, saved>>,
         \A b \in Blocks, p \in Part : Claimed(b, p)' = Claimed(b, p),
         op.kind = "tokens" => \A b \in Blocks : blk'[b].n = blk[b].n
  PROVE  OpSafe'
  <1>1. op.pos \div BT \in Blocks
    BY PositionIs DEF OpSafe
  <1>2. Kinds' = Kinds /\ \A kind : Parts(kind) \subseteq Part
    BY DEF Kinds, Parts, Part
  <1>3. \A p \in Parts(op.kind) :
          /\ Claimed(op.pos \div BT, p)' = Claimed(op.pos \div BT, p)
          /\ \A c \in Blocks : Claimed(c, p)' = Claimed(c, p)
    BY <1>1, <1>2
  <1>4. (op.kind \in WriteKinds =>
          /\ op.kind \in Kinds
          /\ op.pos < op.end /\ op.end <= NB * BT
          /\ \A p \in Parts(op.kind) :
               /\ op.pos % BT <= Claimed(op.pos \div BT, p)
               /\ \A c \in Blocks : c < op.pos \div BT => Claimed(c, p) = BT)'
    BY <1>2, <1>3 DEF OpSafe
  <1>5. (op.kind = "tokens" => blk[op.pos \div BT].n = op.pos % BT)'
    BY <1>1 DEF OpSafe
  <1> QED
    BY <1>4, <1>5 DEF OpSafe, Restorable

-----------------------------------------------------------------------------
(* Calls begin, wait and return                                             *)

LEMMA ClaimedIs ==
  ASSUME StoreTypes, NEW b \in Blocks, NEW p \in Part
  PROVE  Claimed(b, p) \in 0 .. BT /\ blk[b] \in LayerBlk /\ blk[b].part[p] \in LayerPart
  BY DEF StoreTypes, Claimed, LayerBlk, LayerPart

\* Before a position up to which a part's rows exist, every row is claimed.
LEMMA LengthCovers ==
  ASSUME StoreTypes, NEW p \in Part, NEW pos \in Nat, pos < NB * BT, pos <= Length(p),
         \A b \in Blocks : b >= size => blk[b] = Fresh
  PROVE  /\ pos % BT <= Claimed(pos \div BT, p)
         /\ \A c \in Blocks : c < pos \div BT => Claimed(c, p) = BT
         /\ pos = Length(p) => pos % BT = Claimed(pos \div BT, p)
  <1> DEFINE c == pos \div BT
             t == pos % BT
             full == {i \in 1 .. size : \A b \in 0 .. i - 2 : Claimed(b, p) = BT}
             last == CHOOSE i \in full : \A j \in full : j <= i
             m == last - 1
             have == Claimed(m, p)
  <1>1. /\ pos = c * BT + t /\ c \in Blocks /\ t \in Offsets /\ c \in Nat
        /\ BT \in Nat \ {0} /\ size \in 0 .. NB /\ NB \in Nat
    BY Split, PositionIs, StoreAssumption DEF StoreTypes
  <1>2. \A b \in Blocks : Claimed(b, p) \in 0 .. BT /\ (b >= size => Claimed(b, p) = 0)
    BY ClaimedIs DEF Claimed, Fresh, FreshPart
  <1>3. CASE size = 0
    <2>1. pos = 0
      BY <1>3 DEF Length
    <2>2. c = 0 /\ t = 0
      BY <2>1, <1>1, StoreAssumption
    <2>3. Length(p) = 0
      BY <1>3 DEF Length
    <2> HIDE DEF c, t
    <2>4. Claimed(c, p) = 0 /\ t <= Claimed(c, p) /\ ~\E b \in Blocks : b < c
      BY <1>1, <1>2, <1>3, <2>2 DEF Blocks
    <2> QED
      BY <2>2, <2>4 DEF c, t
  <1>4. CASE size # 0
    <2>1. Length(p) = m * BT + have
      BY <1>4 DEF Length
    <2>2. full \subseteq 0 .. NB /\ full # {}
      <3>1. 1 \in 1 .. size /\ 0 .. 1 - 2 = {}
        BY <1>1, <1>4
      <3>2. 1 \in full
        BY <3>1
      <3>3. \A i \in full : i \in 0 .. NB
        BY <1>1
      <3> QED
        BY <3>2, <3>3
    <2>3. \E i \in full : \A j \in full : j <= i
      <3> HIDE DEF full
      <3> QED
        BY <1>1, <2>2, GreatestNumber
    <2>4. last \in full /\ \A j \in full : j <= last
      <3> HIDE DEF full
      <3> QED
        BY <2>3
    <2>5. /\ last \in 1 .. size /\ \A b \in 0 .. last - 2 : Claimed(b, p) = BT
          /\ \A j \in 1 .. size : (\A b \in 0 .. j - 2 : Claimed(b, p) = BT) => j <= last
      BY <2>4
    <2> HIDE DEF last, full
    <2>6. m \in Blocks /\ m \in Nat /\ m < size /\ have \in 0 .. BT
      BY <1>1, <1>2, <2>5 DEF Blocks
    <2>7. \A b \in Blocks : b < m => Claimed(b, p) = BT
      BY <1>1, <2>5, <2>6 DEF Blocks
    <2>8. have = BT => m + 1 = size
      <3> SUFFICES ASSUME have = BT, m + 1 # size PROVE FALSE
        OBVIOUS
      <3>1. last + 1 \in 1 .. size
        BY <1>1, <2>5, <2>6
      <3>2. \A b \in 0 .. (last + 1) - 2 : Claimed(b, p) = BT
        <4> TAKE b \in 0 .. (last + 1) - 2
        <4>1. b \in 0 .. last - 2 \/ b = m
          BY <2>5
        <4> QED
          BY <2>5, <4>1
      <3>3. last + 1 <= last
        BY <2>5, <3>1, <3>2
      <3> QED
        BY <2>5, <3>3
    <2> HIDE DEF m, have, c, t
    <2>9. m * BT \in Nat /\ (m + 1) * BT = m * BT + BT
      BY <2>6, BlockBase
    <2>10. CASE have < BT
      <3>1. have \in Offsets
        BY <1>1, <2>6, <2>10 DEF Offsets
      <3>2. ~(m * BT + have < c * BT + t)
        BY <1>1, <2>1, <2>6, <2>9
      <3>3. ~(m < c \/ (m = c /\ have < t))
        BY <1>1, <2>6, <3>1, <3>2, Order
      <3>4. pos = Length(p) => m = c /\ have = t
        <4> SUFFICES ASSUME pos = Length(p) PROVE m = c /\ have = t
          OBVIOUS
        <4>1. m * BT + have = c * BT + t
          BY <1>1, <2>1
        <4>2. m \in Nat /\ c \in Nat /\ t \in Offsets
          BY <1>1, <2>6
        <4> QED
          BY <3>1, <4>1, <4>2, SamePlace
      <3>5. c < m \/ (c = m /\ t <= have)
        BY <1>1, <2>6, <3>3 DEF Offsets
      <3> QED
        BY <1>1, <1>2, <2>6, <2>7, <3>4, <3>5 DEF c, t, have, Offsets
    <2>11. CASE have = BT
      <3>1. 0 \in Offsets /\ m + 1 \in Nat
        BY <1>1, <2>6 DEF Offsets
      <3>2. pos <= (m + 1) * BT + 0 /\ (m + 1) * BT \in Nat
        BY <2>1, <2>9, <2>11, <1>1
      <3>3. ~((m + 1) * BT + 0 < c * BT + t)
        BY <1>1, <3>2
      <3>4. ~(m + 1 < c \/ (m + 1 = c /\ 0 < t))
        BY <1>1, <3>1, <3>3, Order
      <3>5. pos = Length(p) => m + 1 = c /\ t = 0
        <4> SUFFICES ASSUME pos = Length(p) PROVE m + 1 = c /\ t = 0
          OBVIOUS
        <4>1. Length(p) = m * BT + BT
          BY <2>1, <2>11
        <4>2. (m + 1) * BT = m * BT + BT /\ (m + 1) * BT \in Nat
          BY <2>9, <3>2
        <4>3. (m + 1) * BT + 0 = c * BT + t
          <5> DEFINE u == (m + 1) * BT
                     v == m * BT
                     w == c * BT + t
          <5>1. u = v + BT /\ u \in Nat /\ w = v + BT
            BY <1>1, <4>1, <4>2
          <5> HIDE DEF u, v, w
          <5>2. u + 0 = w
            BY <5>1
          <5> QED
            BY <5>2 DEF u, w
        <4>4. c \in Nat /\ t \in Offsets
          BY <1>1
        <4> QED
          BY <3>1, <4>3, <4>4, SamePlace
      <3>6. c <= m \/ (c = m + 1 /\ t = 0)
        BY <1>1, <2>6, <3>4 DEF Offsets
      <3>7. \A b \in Blocks : b <= m => Claimed(b, p) = BT
        BY <2>6, <2>7, <2>11 DEF have, Blocks
      <3>8. c = m + 1 => Claimed(c, p) = 0
        BY <1>1, <1>2, <2>8, <2>11
      <3> QED
        BY <1>1, <1>2, <2>6, <3>5, <3>6, <3>7, <3>8 DEF c, t, Offsets, Blocks
    <2> QED
      BY <1>1, <2>6, <2>10, <2>11
  <1> QED
    BY <1>3, <1>4

\* A step of a call that changes nothing but the call.
LEMMA CallMoves ==
  ASSUME StoreInv, UNCHANGED <<family, mem, queue, io, stop, saved, truth, meanTruth, written, lost>>,
         faults' \in Nat, op' \in [kind : OpKinds, pos : Nat, end : Nat],
         stop <=> op'.kind \in {"notify", "join", "gone"},
         op'.kind = "gone" => io = "ended", op.kind # "restore", OpSafe'
  PROVE  StoreInv'
  <1>1. StoreTypes'
    BY DEF StoreInv, StoreTypes, mem, queue
  <1>2. QueueSafe'
    BY SameQueue DEF StoreInv, QueueSafe, mem, queue
  <1>3. SavedSafe'
    BY SavedKept DEF StoreInv, mem
  <1> QED
    BY <1>1, <1>2, <1>3, QuietStep DEF mem

LEMMA KindsAre ==
  ASSUME StoreTypes
  PROVE  Kinds \subseteq WriteKinds /\ \A kind \in Kinds : Parts(kind) \subseteq Part
  BY DEF StoreTypes, Kinds, Parts, WriteKinds, Part

LEMMA BeginWriteSafe ==
  ASSUME StoreInv, NEW kind \in Kinds, NEW pos \in Positions, NEW end \in 1 .. NB * BT,
         BeginWrite(kind, pos, end)
  PROVE  StoreInv'
  <1>1. /\ op' = [kind |-> kind, pos |-> pos, end |-> end] /\ op.kind = "idle" /\ ~stop /\ pos < end
        /\ \A p \in Parts(kind) : IF kind = "tokens" THEN pos = Length(p) ELSE pos <= Length(p)
        /\ UNCHANGED <<family, mem, queue, control, saved, hist>>
    BY DEF BeginWrite, Idle
  <1>2. pos \in Nat /\ end \in Nat /\ pos < NB * BT /\ end <= NB * BT /\ NB * BT \in Nat
    BY Size
  <1>3. kind \in WriteKinds /\ Parts(kind) \subseteq Part
    BY KindsAre DEF StoreInv
  <1>4. op' \in [kind : OpKinds, pos : Nat, end : Nat]
    BY <1>1, <1>2, <1>3 DEF OpKinds
  <1>5. ASSUME NEW p \in Parts(kind)
        PROVE  /\ pos % BT <= Claimed(pos \div BT, p)
               /\ \A c \in Blocks : c < pos \div BT => Claimed(c, p) = BT
               /\ kind = "tokens" => pos % BT = Claimed(pos \div BT, p)
    <2>1. p \in Part /\ pos <= Length(p) /\ (kind = "tokens" => pos = Length(p))
      BY <1>1, <1>2, <1>3, <1>5
    <2> QED
      BY <1>2, <2>1, LengthCovers DEF StoreInv, RowsSafe
  <1>6. kind = "tokens" => pos % BT = blk[pos \div BT].n
    <2> SUFFICES ASSUME kind = "tokens" PROVE pos % BT = blk[pos \div BT].n
      OBVIOUS
    <2>1. family # "packed" /\ "K" \in Parts(kind)
      BY DEF Kinds, Parts
    <2> QED
      BY <1>5, <2>1 DEF Claimed
  <1>7. OpSafe'
    BY <1>1, <1>2, <1>3, <1>5, <1>6 DEF OpSafe, Claimed, Kinds, Parts, mem, WriteKinds
  <1> QED
    BY <1>1, <1>3, <1>4, <1>7, CallMoves DEF control, hist, StoreInv, StoreTypes, WriteKinds

LEMMA BeginCallSafe ==
  ASSUME StoreInv, NEW pos \in Positions,
         NEW kind \in {"truncate", "invalidate", "clear", "copy", "wait"}, BeginCall(kind, pos)
  PROVE  StoreInv'
  <1>1. /\ op' = [kind |-> kind, pos |-> pos, end |-> pos] /\ op.kind = "idle" /\ ~stop
        /\ kind = "truncate" /\ family # "f16" => Restorable(pos)
        /\ UNCHANGED <<family, mem, queue, control, saved, hist>>
    BY DEF BeginCall, Idle
  <1>2. pos \in Nat /\ pos < NB * BT
    BY Size
  <1>3. op' \in [kind : OpKinds, pos : Nat, end : Nat]
    BY <1>1, <1>2 DEF OpKinds
  <1>4. OpSafe'
    BY <1>1, <1>2 DEF OpSafe, Restorable, WriteKinds
  <1> QED
    BY <1>1, <1>3, <1>4, CallMoves DEF control, hist, StoreInv, StoreTypes

LEMMA WaitsSafe ==
  ASSUME StoreInv, WriteWaits
  PROVE  StoreInv'
  <1>1. UNCHANGED <<family, mem, queue, io, stop, op, saved, hist>>
    BY DEF WriteWaits
  <1>2. op.kind \in WriteKinds
    BY KindsAre DEF WriteWaits, StoreInv
  <1>3. OpSafe'
    BY <1>1, OpStays DEF StoreInv, StoreTypes, Claimed, mem
  <1> QED
    BY <1>1, <1>2, <1>3, CallMoves DEF hist, StoreInv, StoreTypes, QueueSafe, WriteKinds

\* A call that ends without having changed a block.
LEMMA ReturnSafe ==
  ASSUME StoreInv, op' = Idle, ~stop, op.kind # "restore", faults' \in Nat,
         UNCHANGED <<family, mem, queue, io, stop, saved, truth, meanTruth, written, lost>>
  PROVE  StoreInv'
  <1>1. op' \in [kind : OpKinds, pos : Nat, end : Nat] /\ op'.kind = "idle" /\ op'.pos = 0
    BY DEF Idle, OpKinds
  <1>2. 0 < NB * BT
    BY Size
  <1>3. OpSafe'
    BY <1>1, <1>2, OpRests DEF WriteKinds
  <1> QED
    BY <1>1, <1>3, CallMoves

LEMMA ReturnsSafe ==
  ASSUME StoreInv, WriteRefused \/ WaitWrites \/ CopyRows
  PROVE  StoreInv'
  <1>1. /\ op' = Idle /\ op.kind \notin {"restore", "notify", "join", "gone"} /\ faults' \in Nat
        /\ UNCHANGED <<family, mem, queue, io, stop, saved, truth, meanTruth, written, lost>>
    <2>1. faults \in Nat
      BY DEF StoreInv, StoreTypes
    <2>2. CASE WriteRefused
      <3>1. /\ op' = Idle /\ op.kind \in {"k_gpu", "v_gpu"} /\ faults' = faults + 1
            /\ UNCHANGED <<family, mem, queue, io, stop, saved, truth, meanTruth, written, lost>>
        BY <2>2, ZenonT(40) DEF WriteRefused, Finish
      <3>2. op.kind \notin {"restore", "notify", "join", "gone"} /\ faults' \in Nat
        BY <2>1, <3>1
      <3> QED
        BY <3>1, <3>2
    <2>3. CASE WaitWrites
      BY <2>1, <2>3 DEF WaitWrites, control, hist
    <2>4. CASE CopyRows
      BY <2>1, <2>4 DEF CopyRows, control, hist
    <2> QED
      BY <2>2, <2>3, <2>4
  <1>2. ~stop
    BY <1>1 DEF StoreInv, QueueSafe
  <1> QED
    BY <1>1, <1>2, ReturnSafe

LEMMA DestroySafe ==
  ASSUME StoreInv, Destroy \/ DestroyNotify \/ Destroyed
  PROVE  StoreInv'
  <1>1. \E kind \in {"notify", "join", "gone"} :
          op' = [kind |-> kind, pos |-> 0, end |-> 0] /\ (kind = "gone" => io' = "ended")
    BY DEF Destroy, DestroyNotify, Destroyed, Idle, control
  <1>2. /\ op.kind # "restore" /\ UNCHANGED <<family, mem, queue, saved, hist>>
        /\ io' = io \/ (io = "asleep" /\ io' = "wait")
    BY DEF Destroy, DestroyNotify, Destroyed, Idle, control
  <1>3. stop'
    BY DEF Destroy, DestroyNotify, Destroyed, control, StoreInv, QueueSafe
  <1>4. /\ op' \in [kind : OpKinds, pos : Nat, end : Nat] /\ op'.pos = 0
        /\ op'.kind \in {"notify", "join", "gone"}
        /\ op'.kind = "gone" => io' = "ended"
    <2>1. PICK kind \in {"notify", "join", "gone"} :
             op' = [kind |-> kind, pos |-> 0, end |-> 0] /\ (kind = "gone" => io' = "ended")
      BY <1>1
    <2> QED
      BY <2>1 DEF OpKinds
  <1>5. StoreTypes'
    BY <1>2, <1>3, <1>4 DEF StoreInv, StoreTypes, mem, queue, hist
  <1>6. QueueSafe'
    BY <1>2, <1>3, <1>4, SameQueue DEF StoreInv, QueueSafe, mem, queue
  <1>7. SavedSafe'
    BY <1>2, SavedKept DEF StoreInv, mem, hist
  <1>8. 0 < NB * BT
    BY Size
  <1>9. OpSafe'
    BY <1>4, <1>8, OpRests DEF WriteKinds
  <1> QED
    BY <1>2, <1>5, <1>6, <1>7, <1>9, QuietStep DEF mem, hist

-----------------------------------------------------------------------------
(* The writer thread                                                        *)

LEMMA IoTestSafe ==
  ASSUME StoreInv, IoTest
  PROVE  StoreInv'
  <1>1. /\ io = "wait" /\ UNCHANGED <<family, mem, slab, ioError, stop, op, saved, hist>>
        /\ \/ batch' = q /\ q' = <<>> /\ io' = "copy"
           \/ q = <<>> /\ io' = (IF stop THEN "ended" ELSE "tested") /\ UNCHANGED <<q, batch>>
    BY DEF IoTest
  <1>2. batch = <<>> /\ op.kind # "gone"
    BY <1>1 DEF StoreInv, QueueSafe
  <1>3. StoreTypes'
    <2>1. q' \in Seq(Jobs) /\ batch' \in Seq(Jobs)
      <3>1. q \in Seq(Jobs) /\ batch \in Seq(Jobs) /\ <<>> \in Seq(Jobs)
        BY DEF StoreInv, StoreTypes
      <3>2. (batch' = q /\ q' = <<>>) \/ (batch' = batch /\ q' = q)
        BY <1>1
      <3> QED
        BY <3>1, <3>2
    <2>2. io' \in {"wait", "tested", "asleep", "copy", "write", "ended"}
      BY <1>1
    <2> QED
      BY <1>1, <2>1, <2>2 DEF StoreInv, StoreTypes, mem, hist
  <1>4. Marked' = Marked
    BY <1>1, MarkedSame DEF mem
  <1>5. Waits(q', batch', Marked')
    <2>1. Waits(q, <<>>, Marked)
      BY <1>2 DEF StoreInv, QueueSafe
    <2>2. Waits(<<>>, q, Marked)
      BY <2>1 DEF Waits
    <2> QED
      BY <1>1, <1>2, <1>4, <2>1, <2>2
  <1>6. Waits(q, batch, Marked)'
    BY <1>5
  <1>7. QueueSafe'
    BY <1>1, <1>2, <1>4, <1>6 DEF StoreInv, QueueSafe, mem
  <1>8. SavedSafe'
    BY <1>1, SavedKept DEF StoreInv, mem, hist
  <1>9. OpSafe'
    BY <1>1, OpStays DEF StoreInv, StoreTypes, mem, Claimed
  <1> QED
    BY <1>1, <1>3, <1>7, <1>8, <1>9, QuietStep DEF mem, hist

LEMMA IoSleepSafe ==
  ASSUME StoreInv, IoSleep
  PROVE  StoreInv'
  <1>1. /\ io = "tested" /\ io' = "asleep"
        /\ UNCHANGED <<family, mem, queue, stop, op, saved, hist>>
    BY DEF IoSleep
  <1>2. StoreTypes'
    BY <1>1 DEF StoreInv, StoreTypes, mem, queue, hist
  <1>3. Marked' = Marked
    BY <1>1, MarkedSame DEF mem
  <1>4. Waits(q, batch, Marked)'
    BY <1>1, <1>3 DEF StoreInv, QueueSafe, queue
  <1>5. QueueSafe'
    BY <1>1, <1>3, <1>4 DEF StoreInv, QueueSafe, mem, queue
  <1>6. SavedSafe'
    BY <1>1, SavedKept DEF StoreInv, mem, hist
  <1>7. OpSafe'
    BY <1>1, OpStays DEF StoreInv, StoreTypes, mem, Claimed
  <1> QED
    BY <1>1, <1>2, <1>5, <1>6, <1>7, QuietStep DEF mem, hist

LEMMA IoCopySafe ==
  ASSUME StoreInv, IoCopy
  PROVE  StoreInv'
  <1>1. /\ io = "copy" /\ io' = "write"
        /\ slab' = [i \in DOMAIN batch |-> blk[batch[i][1]].part[batch[i][2]].ram]
        /\ UNCHANGED <<family, mem, q, batch, ioError, stop, op, saved, hist>>
    BY DEF IoCopy
  <1>2. StoreTypes'
    BY <1>1 DEF StoreInv, StoreTypes, mem, hist
  <1>3. Marked' = Marked
    BY <1>1, MarkedSame DEF mem
  <1>4. Waits(q, batch, Marked)'
    BY <1>1, <1>3 DEF StoreInv, QueueSafe
  <1>5. QueueSafe'
    BY <1>1, <1>3, <1>4 DEF StoreInv, QueueSafe, mem
  <1>6. SavedSafe'
    BY <1>1, SavedKept DEF StoreInv, mem, hist
  <1>7. OpSafe'
    BY <1>1, OpStays DEF StoreInv, StoreTypes, mem, Claimed
  <1> QED
    BY <1>1, <1>2, <1>5, <1>6, <1>7, QuietStep DEF mem, hist

\* What is published has the rows that were claimed, in RAM or in the file.
LEMMA PublishedPart ==
  ASSUME StoreInv, NEW ok \in BOOLEAN, IoPublish(ok), NEW b \in Blocks, NEW p \in Part
  PROVE  /\ blk'[b].part[p] \in LayerPart
         /\ blk'[b].part[p].flushing <=> blk[b].part[p].flushing /\ ~InBatch(b, p)
         /\ blk'[b].part[p].tokens = blk[b].part[p].tokens
         /\ Content(b, p)' = Content(b, p)
         /\ ~InBatch(b, p) => blk'[b].part[p] = blk[b].part[p]
  <1>1. /\ blk[b] \in LayerBlk /\ blk[b].part \in [Part -> LayerPart] /\ blk[b].part[p] \in LayerPart
        /\ io = "write"
    BY DEF StoreInv, StoreTypes, LayerBlk, IoPublish
  <1>2. blk'[b].part[p] = IF ~InBatch(b, p) THEN blk[b].part[p]
                          ELSE IF ok THEN Landed(b, p) ELSE Refused(b, p)
    BY <1>1 DEF IoPublish, LayerBlk
  <1>3. CASE ~InBatch(b, p)
    BY <1>1, <1>2, <1>3 DEF Content, LayerPart
  <1>4. CASE InBatch(b, p) /\ ~ok
    BY <1>1, <1>2, <1>4 DEF Refused, Content, LayerPart
  <1>5. CASE InBatch(b, p) /\ ok
    <2> DEFINE i == CHOOSE j \in DOMAIN batch : batch[j] = <<b, p>>
    <2>1. i \in DOMAIN batch /\ batch[i] = <<b, p>>
      BY <1>5 DEF InBatch, Range
    <2> HIDE DEF i
    <2>2. slab[i] = blk[b].part[p].ram
      BY <1>1, <2>1 DEF StoreInv, QueueSafe
    <2>3. <<b, p>> \in Marked
      BY <2>1 DEF StoreInv, QueueSafe, Waits, Jobs
    <2>4. blk[b].part[p].ram # None
      BY <2>3 DEF StoreInv, QueueSafe
    <2>5. blk'[b].part[p] = [blk[b].part[p] EXCEPT !.flushing = FALSE, !.ram = None, !.nvme = slab[i]]
      BY <1>2, <1>5 DEF Landed, i
    <2> QED
      BY <1>1, <1>5, <2>2, <2>4, <2>5 DEF Content, LayerPart
  <1> QED
    BY <1>3, <1>4, <1>5

LEMMA IoPublishSafe ==
  ASSUME StoreInv, NEW ok \in BOOLEAN, IoPublish(ok)
  PROVE  StoreInv'
  <1>1. /\ io = "write" /\ io' = "wait" /\ batch' = <<>>
        /\ ioError' \in BOOLEAN /\ faults' \in Nat
        /\ UNCHANGED <<family, size, placed, q, stop, op, saved, truth, meanTruth, written, lost>>
    BY DEF IoPublish, StoreInv, StoreTypes
  <1>2. ASSUME NEW b \in Blocks
        PROVE  /\ blk'[b] \in LayerBlk
               /\ blk'[b].n = blk[b].n /\ blk'[b].sum = blk[b].sum
               /\ blk'[b].meanTokens = blk[b].meanTokens
               /\ b >= size => blk'[b] = Fresh
    <2>1. blk[b] \in LayerBlk /\ blk[b].part \in [Part -> LayerPart]
      BY DEF StoreInv, StoreTypes, LayerBlk
    <2> DEFINE parts == [p \in Part |-> blk'[b].part[p]]
    <2>2. blk'[b] = [blk[b] EXCEPT !.part = parts]
      <3> DEFINE new(p) == IF ~InBatch(b, p) THEN blk[b].part[p]
                           ELSE IF ok THEN Landed(b, p) ELSE Refused(b, p)
      <3>1. blk'[b] = [blk[b] EXCEPT !.part = [p \in Part |-> new(p)]]
        BY DEF IoPublish
      <3> HIDE DEF new
      <3>2. \A p \in Part : blk'[b].part[p] = new(p)
        BY <2>1, <3>1 DEF LayerBlk
      <3> QED
        BY <3>1, <3>2
    <2>3. parts \in [Part -> LayerPart]
      BY PublishedPart
    <2>4. b >= size => \A p \in Part : blk'[b].part[p] = blk[b].part[p]
      <3> SUFFICES ASSUME b >= size, NEW p \in Part PROVE blk'[b].part[p] = blk[b].part[p]
        OBVIOUS
      <3>1. ~blk[b].part[p].flushing
        BY DEF StoreInv, RowsSafe, Fresh, FreshPart
      <3>2. <<b, p>> \notin Marked
        BY <3>1, MarkedIs
      <3>3. ~InBatch(b, p)
        BY <3>2 DEF StoreInv, QueueSafe, Waits, InBatch, Range, Jobs
      <3> QED
        BY <3>3, PublishedPart
    <2>5. b >= size => parts = blk[b].part
      BY <2>1, <2>4
    <2> HIDE DEF parts
    <2>6. b >= size => blk'[b] = blk[b]
      BY <2>1, <2>2, <2>5 DEF LayerBlk
    <2>7. b >= size => blk'[b] = Fresh
      BY <2>6 DEF StoreInv, RowsSafe
    <2> QED
      BY <2>1, <2>2, <2>3, <2>7 DEF LayerBlk
  <1>3. blk' \in [Blocks -> LayerBlk]
    <2>1. blk' = [b \in Blocks |-> blk'[b]]
      BY DEF IoPublish
    <2> QED
      BY <1>2, <2>1
  <1>4. StoreTypes'
    BY <1>1, <1>3 DEF StoreInv, StoreTypes
  <1>5. Waits(q', batch', Marked')
    <2>1. \A b \in Blocks, p \in Part :
            InBatch(b, p) <=> \E i \in DOMAIN batch : batch[i] = <<b, p>>
      BY DEF InBatch, Range
    <2>2. ASSUME NEW b \in Blocks, NEW p \in Part
          PROVE  <<b, p>> \in Marked' <=> \E i \in DOMAIN q : q[i] = <<b, p>>
      <3>1. <<b, p>> \in Marked' <=> blk'[b].part[p].flushing
        BY DEF Marked, Jobs
      <3>2. <<b, p>> \in Marked <=> blk[b].part[p].flushing
        BY MarkedIs
      <3>3. <<b, p>> \in Jobs
        BY DEF Jobs
      <3>4. /\ <<b, p>> \in Marked <=> \/ \E i \in DOMAIN q : q[i] = <<b, p>>
                                       \/ \E i \in DOMAIN batch : batch[i] = <<b, p>>
            /\ \A i \in DOMAIN q, j \in DOMAIN batch : q[i] # batch[j]
        BY <3>3 DEF StoreInv, QueueSafe, Waits
      <3>5. blk'[b].part[p].flushing <=> blk[b].part[p].flushing /\ ~InBatch(b, p)
        BY PublishedPart
      <3> QED
        BY <2>1, <3>1, <3>2, <3>4, <3>5
    <2>3. \A x \in Jobs : x \in Marked' <=> \E i \in DOMAIN q : q[i] = x
      BY <2>2 DEF Jobs
    <2> QED
      BY <1>1, <2>3 DEF StoreInv, QueueSafe, Waits
  <1>6. \A x \in Marked' : x \in Marked /\ blk'[x[1]].part[x[2]].ram = blk[x[1]].part[x[2]].ram
    BY PublishedPart DEF Marked, Jobs
  <1>7. QueueSafe'
    <2>1. Waits(q, batch, Marked)'
      BY <1>5
    <2>2. (Marked \subseteq placed)' /\ \A x \in Marked' : blk'[x[1]].part[x[2]].ram # None
      BY <1>1, <1>6 DEF StoreInv, QueueSafe
    <2> QED
      BY <1>1, <2>1, <2>2 DEF StoreInv, QueueSafe
  <1>8. \A b \in Blocks, p \in Part :
          /\ Content(b, p)' = Content(b, p) /\ Claimed(b, p)' = Claimed(b, p)
          /\ Claimed(b, p) \in Int
    BY <1>1, <1>2, PublishedPart, ClaimedIs DEF Claimed, StoreInv
  <1>9. RowsSafe'
    BY <1>1, <1>2, <1>8, RowsKept DEF StoreInv
  <1>10. MeansSafe'
    BY <1>1, <1>2, MeansKept DEF StoreInv
  <1>11. SavedSafe'
    BY <1>1, <1>2, SavedKept DEF StoreInv
  <1>12. OpSafe'
    BY <1>1, <1>2, <1>8, OpStays DEF StoreInv, StoreTypes
  <1> QED
    BY <1>4, <1>7, <1>9, <1>10, <1>11, <1>12 DEF StoreInv

-----------------------------------------------------------------------------
(* Means                                                                    *)

LEMMA MeansSame ==
  ASSUME NEW b, NEW n \in Nat,
         \A o \in 0 .. n - 1 : meanTruth'[b * BT + o] = meanTruth[b * BT + o]
  PROVE  MeansOf(b, n)' = MeansOf(b, n)
  BY DEF MeansOf

LEMMA MeansTyped ==
  ASSUME StoreTypes, NEW b \in Blocks, NEW n \in 0 .. BT
  PROVE  MeansOf(b, n) \in SUBSET (Offsets \X Nat)
  <1>1. ASSUME NEW o \in 0 .. n - 1
        PROVE  o \in Offsets /\ meanTruth[b * BT + o] \in Nat
    <2>1. o \in Offsets /\ b \in Nat
      BY StoreAssumption DEF Offsets, Blocks
    <2>2. b * BT + o \in Positions
      BY <2>1, Inside
    <2> QED
      BY <2>1, <2>2 DEF StoreTypes
  <1> QED
    BY <1>1 DEF MeansOf

\* The end of the means: the place the next contribution goes to.
LEMMA MeanLengthIs ==
  ASSUME StoreTypes, \A c \in Blocks : c >= size => blk[c] = Fresh
  PROVE  LET b == MeanLength \div BT
             off == MeanLength % BT
         IN /\ MeanLength = b * BT + off /\ b \in 0 .. size /\ off \in Offsets
            /\ MeanLength \in Nat
            /\ off # 0 => b \in Blocks /\ b < size /\ blk[b].meanTokens = off
            /\ \A c \in Blocks : blk[c].meanTokens > 0 =>
                 c < b \/ (c = b /\ blk[c].meanTokens <= off)
  <1> DEFINE has == {b \in Blocks : b < size /\ blk[b].meanTokens > 0}
             last == CHOOSE b \in has : \A c \in has : c <= b
             m == blk[last].meanTokens
  <1>1. /\ \A c \in Blocks : c \in Nat /\ blk[c].meanTokens \in 0 .. BT
        /\ BT \in Nat \ {0} /\ size \in 0 .. NB /\ NB \in Nat /\ 0 \in Offsets
    BY StoreAssumption DEF StoreTypes, LayerBlk, Blocks, Offsets
  <1>2. \A c \in Blocks : blk[c].meanTokens > 0 => c \in has
    BY <1>1 DEF Fresh
  <1>3. CASE has = {}
    <2>1. MeanLength = 0
      BY <1>3 DEF MeanLength
    <2>2. 0 \div BT = 0 /\ 0 % BT = 0 /\ 0 * BT + 0 = 0
      BY <1>1
    <2> QED
      BY <1>1, <1>2, <1>3, <2>1, <2>2
  <1>4. CASE has # {}
    <2>1. MeanLength = last * BT + m
      BY <1>4 DEF MeanLength
    <2>2. has \subseteq 0 .. NB
      BY <1>1 DEF Blocks
    <2>3. \E b \in has : \A c \in has : c <= b
      <3> HIDE DEF has
      <3> QED
        BY <1>1, <1>4, <2>2, GreatestNumber
    <2>4. last \in has /\ \A c \in has : c <= last
      <3> HIDE DEF has
      <3> QED
        BY <2>3
    <2> HIDE DEF last
    <2>5. last \in Blocks /\ last \in Nat /\ last < size /\ m \in 1 .. BT
      BY <1>1, <2>4
    <2>6. \A c \in Blocks : blk[c].meanTokens > 0 => c <= last
      BY <1>2, <2>4
    <2> HIDE DEF has
    <2>7. CASE m < BT
      <3>1. m \in Offsets /\ m # 0
        BY <1>1, <2>5, <2>7 DEF Offsets
      <3>2. MeanLength \div BT = last /\ MeanLength % BT = m
        BY <2>1, <2>5, <3>1, SplitOf
      <3>3. MeanLength \in Nat
        BY <1>1, <2>1, <2>5, BlockBase
      <3>4. last \in 0 .. size
        BY <1>1, <2>5
      <3>5. \A c \in Blocks : blk[c].meanTokens > 0 =>
               c < last \/ (c = last /\ blk[c].meanTokens <= m)
        BY <1>1, <2>5, <2>6
      <3> QED
        BY <2>1, <2>5, <3>1, <3>2, <3>3, <3>4, <3>5
    <2>8. CASE m = BT
      <3>1. last + 1 \in Nat /\ last + 1 \in 0 .. size
        BY <1>1, <2>5
      <3>2. MeanLength = (last + 1) * BT + 0 /\ MeanLength \in Nat
        BY <1>1, <2>1, <2>5, <2>8, BlockBase
      <3>3. MeanLength \div BT = last + 1 /\ MeanLength % BT = 0
        BY <1>1, <3>1, <3>2, SplitOf
      <3>4. ASSUME NEW c \in Blocks, blk[c].meanTokens > 0 PROVE c < last + 1
        <4>1. c <= last /\ c \in Nat
          BY <1>1, <2>6, <3>4
        <4> QED
          BY <2>5, <4>1
      <3> QED
        BY <1>1, <3>1, <3>2, <3>3, <3>4
    <2> QED
      BY <1>1, <2>5, <2>7, <2>8
  <1> QED
    BY <1>3, <1>4

LEMMA CheckpointSafe ==
  ASSUME StoreInv, MeanCheckpoint
  PROVE  StoreInv'
  <1> DEFINE b == MeanLength \div BT
             off == MeanLength % BT
  <1>1. /\ family = "packed" /\ off # 0 /\ op.kind = "idle"
        /\ saved' = [pos |-> MeanLength, tokens |-> blk[b].meanTokens, sum |-> blk[b].sum]
        /\ UNCHANGED <<family, blk, size, placed, queue, io, stop, mu, op>>
        /\ UNCHANGED <<truth, meanTruth, written, faults, lost>>
    BY DEF MeanCheckpoint, Idle, mem, control, hist
  <1>2. /\ MeanLength = b * BT + off /\ off \in Offsets /\ MeanLength \in Nat
        /\ b \in Blocks /\ b < size /\ blk[b].meanTokens = off
    BY <1>1, MeanLengthIs DEF StoreInv, RowsSafe
  <1>3. MeanLength \in Positions
    <2>1. b \in Nat /\ b * BT + off \in Positions
      BY <1>2, Inside DEF Blocks
    <2> QED
      BY <1>2, <2>1
  <1>4. 0 < MeanLength /\ MeanLength < NB * BT
    <2>1. MeanLength # 0
      BY <1>1, StoreAssumption
    <2> QED
      BY <1>2, <1>3, <2>1, Size
  <1>5. blk[b].sum = MeansOf(b, off)
    BY <1>1, <1>2 DEF StoreInv, MeansSafe
  <1> DEFINE n == MeanLength
  <1>6. /\ saved'.pos = n /\ saved'.tokens = off
        /\ saved'.sum = {<<o, meanTruth'[b * BT + o]>> : o \in 0 .. off - 1}
        /\ op'.kind # "restore"
    <2>1. blk[b].sum = {<<o, meanTruth[b * BT + o]>> : o \in 0 .. off - 1}
      BY <1>5 DEF MeansOf
    <2> QED
      BY <1>1, <1>2, <2>1
  <1>7. /\ blk'[b].meanTokens >= off /\ b < size' /\ family' = "packed"
    BY <1>1, <1>2 DEF Offsets
  <1>8. SavedSafe'
    <2>1. n \in Nat /\ 0 < n /\ n < NB * BT /\ n % BT # 0 /\ off = n % BT /\ b = n \div BT
      BY <1>1, <1>2, <1>4
    <2> HIDE DEF n, b, off
    <2>2. (saved.sum = MeansOf(saved.pos \div BT, saved.tokens))'
      BY <1>6, <2>1 DEF MeansOf
    <2> QED
      BY <1>6, <1>7, <2>1, <2>2 DEF SavedSafe
  <1>9. StoreTypes'
    BY <1>1 DEF StoreInv, StoreTypes, queue
  <1>10. QueueSafe'
    BY <1>1, SameQueue DEF StoreInv, QueueSafe, queue
  <1>11. 0 < NB * BT /\ op'.kind = "idle" /\ op'.pos < NB * BT
    BY <1>1, Size DEF StoreInv, OpSafe
  <1>12. OpSafe'
    BY <1>11, OpRests DEF WriteKinds
  <1> QED
    BY <1>1, <1>8, <1>9, <1>10, <1>12, QuietStep

\* The checkpoint is restored where the truncation has cut.
LEMMA RestoreSafe ==
  ASSUME StoreInv, RestoreMean
  PROVE  StoreInv'
  <1> DEFINE b == op.pos \div BT
  <1>1. /\ op.kind = "restore" /\ op' = Idle
        /\ blk' = [blk EXCEPT ![b].meanTokens = saved.tokens, ![b].sum = saved.sum]
        /\ size' = Most(size, b + 1)
        /\ UNCHANGED <<family, placed, queue, io, stop, mu, saved>>
        /\ UNCHANGED <<truth, meanTruth, written, faults, lost>>
    BY DEF RestoreMean, control, hist
  <1>2. /\ family = "packed" /\ op.pos = saved.pos /\ saved.pos % BT # 0 /\ saved # NoMean
        /\ saved.tokens = saved.pos % BT /\ saved.sum = MeansOf(b, saved.tokens)
        /\ saved.pos \in Nat /\ saved.pos < NB * BT
    <2>1. family = "packed" /\ op.pos = saved.pos /\ saved.pos % BT # 0
      BY <1>1 DEF StoreInv, OpSafe
    <2>2. 0 % BT = 0
      BY StoreAssumption
    <2>3. saved # NoMean
      BY <2>1, <2>2 DEF NoMean
    <2> QED
      BY <2>1, <2>3 DEF StoreInv, SavedSafe
  <1>3. b \in Blocks /\ saved.tokens \in Offsets /\ saved.tokens \in 0 .. BT
    BY <1>2, PositionIs, StoreAssumption DEF Offsets
  <1>4. saved.sum \in SUBSET (Offsets \X Nat)
    <2>1. StoreTypes /\ b \in Blocks /\ saved.tokens \in 0 .. BT
      BY <1>3 DEF StoreInv
    <2> HIDE DEF b
    <2>2. MeansOf(b, saved.tokens) \in SUBSET (Offsets \X Nat)
      BY <2>1, MeansTyped, ZenonT(40)
    <2> QED
      BY <1>2, <2>2
  <1>5. size \in Nat /\ size' \in 0 .. NB /\ b < size' /\ size <= size' /\ b \in Nat
    <2>1. size \in 0 .. NB /\ size' = Most(size, b + 1) /\ NB \in Nat /\ b \in Nat /\ b < NB
      BY <1>1, <1>3, StoreAssumption DEF StoreInv, StoreTypes, Blocks
    <2> HIDE DEF b
    <2> QED
      BY <2>1 DEF Most
  <1>6. op' \in [kind : OpKinds, pos : Nat, end : Nat] /\ op'.kind = "idle" /\ op'.pos = 0
    BY <1>1 DEF Idle, OpKinds
  <1> HIDE DEF b
  <1>7. ASSUME NEW c \in Blocks
        PROVE  /\ blk'[c] \in LayerBlk /\ blk'[c].part = blk[c].part /\ blk'[c].n = blk[c].n
               /\ c # b => blk'[c] = blk[c]
               /\ c = b => blk'[c].meanTokens = saved.tokens /\ blk'[c].sum = saved.sum
    <2>1. blk[c] \in LayerBlk /\ blk \in [Blocks -> LayerBlk]
      BY DEF StoreInv, StoreTypes
    <2>2. blk'[c] = IF c = b THEN [blk[c] EXCEPT !.meanTokens = saved.tokens, !.sum = saved.sum]
                    ELSE blk[c]
      BY <1>1, <1>3, <2>1 DEF LayerBlk
    <2> QED
      BY <1>3, <1>4, <2>1, <2>2 DEF LayerBlk
  <1>8. blk' \in [Blocks -> LayerBlk]
    <2>1. DOMAIN blk' = Blocks /\ blk' = [c \in Blocks |-> blk'[c]]
      BY <1>1 DEF StoreInv, StoreTypes
    <2> QED
      BY <1>7, <2>1
  <1>9. StoreTypes'
    BY <1>1, <1>5, <1>6, <1>8 DEF StoreInv, StoreTypes, queue
  <1>10. QueueSafe'
    BY <1>1, <1>6, <1>7, SameQueue DEF StoreInv, QueueSafe, queue
  <1>11. 0 < NB * BT
    BY Size
  <1>12. OpSafe'
    BY <1>6, <1>11, OpRests DEF WriteKinds
  <1>0. family' = family /\ truth' = truth /\ meanTruth' = meanTruth /\ lost' = lost /\ saved' = saved
    BY <1>1
  <1>13. ASSUME NEW c \in Blocks, NEW p \in Part
         PROVE  /\ Content(c, p)' = Content(c, p) /\ Claimed(c, p)' = Claimed(c, p)
                /\ Claimed(c, p) \in Int
    <2>1. Claimed(c, p) \in 0 .. BT
      BY ClaimedIs DEF StoreInv
    <2>2. Claimed(c, p)' = Claimed(c, p) /\ Content(c, p)' = Content(c, p)
      BY <1>0, <1>7 DEF Content, Claimed
    <2> QED
      BY <2>1, <2>2, StoreAssumption
  <1>14. \A c \in Blocks : c >= size' => blk'[c] = Fresh
    BY <1>5, <1>7 DEF StoreInv, RowsSafe, Blocks
  <1>15. RowsSafe'
    <2>1. UNCHANGED <<family, truth, lost>> /\ RowsSafe
      BY <1>0 DEF StoreInv
    <2>2. \A c \in Blocks, p \in Part :
            /\ Content(c, p)' = Content(c, p) /\ Claimed(c, p) \in Int /\ Claimed(c, p)' \in Int
            /\ Claimed(c, p)' <= Claimed(c, p)
      BY <1>13
    <2> QED
      BY <1>14, <2>1, <2>2, RowsKept
  <1>16. \A c \in Blocks : \A n \in Nat : MeansOf(c, n)' = MeansOf(c, n)
    BY <1>0 DEF MeansOf
  <1>17. MeansSafe'
    <2>1. ASSUME NEW c \in Blocks
          PROVE  (blk[c].sum = MeansOf(c, blk[c].meanTokens))'
      <3>1. blk[c].sum = MeansOf(c, blk[c].meanTokens) /\ blk[c].meanTokens \in Nat
        <4>1. blk[c] \in LayerBlk
          BY DEF StoreInv, StoreTypes
        <4>2. blk[c].sum = MeansOf(c, blk[c].meanTokens)
          BY <1>2 DEF StoreInv, MeansSafe
        <4> QED
          BY <4>1, <4>2, StoreAssumption DEF LayerBlk
      <3>2. CASE c = b
        <4>1. blk'[c].meanTokens = saved.tokens /\ blk'[c].sum = MeansOf(c, saved.tokens)
          BY <1>2, <1>7, <3>2 DEF b
        <4> QED
          BY <1>0, <4>1 DEF MeansOf
      <3>3. CASE c # b
        <4>1. blk'[c] = blk[c]
          BY <1>7, <3>3
        <4> QED
          BY <1>0, <3>1, <4>1 DEF MeansOf
      <3> QED
        BY <3>2, <3>3
    <2>2. family' = "packed" /\ \A c \in Blocks : <<c, "K">> \notin lost'
      BY <1>1, <1>2 DEF StoreInv, MeansSafe
    <2> QED
      BY <2>1, <2>2 DEF MeansSafe
  <1>18. SavedSafe'
    <2>1. saved'.pos \div BT = b /\ saved' = saved
      BY <1>1, <1>2 DEF b
    <2>2. saved.tokens \in Nat /\ blk'[b].meanTokens >= saved.tokens
      BY <1>3, <1>7, StoreAssumption DEF Offsets
    <2>3. (saved.sum = MeansOf(saved.pos \div BT, saved.tokens))'
      <3>1. saved.sum = {<<o, meanTruth[b * BT + o]>> : o \in 0 .. saved.tokens - 1}
        BY <1>2 DEF MeansOf
      <3>2. saved.sum = {<<o, meanTruth'[(saved'.pos \div BT) * BT + o]>> : o \in 0 .. saved'.tokens - 1}
        BY <1>0, <2>1, <3>1
      <3> QED
        BY <1>0, <3>2 DEF MeansOf
    <2> QED
      BY <1>0, <1>2, <1>5, <2>1, <2>2, <2>3 DEF StoreInv, SavedSafe
  <1> QED
    BY <1>9, <1>10, <1>12, <1>15, <1>17, <1>18 DEF StoreInv

-----------------------------------------------------------------------------
(* Calls that run when the writer is drained                                *)

LEMMA InvalidateSafe ==
  ASSUME StoreInv, InvalidatePacked
  PROVE  StoreInv'
  <1>1. /\ op.kind = "invalidate" /\ op' = Idle
        /\ UNCHANGED <<family, size, placed, queue, io, stop, mu, saved>>
        /\ UNCHANGED <<truth, meanTruth, written, faults, lost>>
    BY DEF InvalidatePacked, control, hist
  <1>2. op' \in [kind : OpKinds, pos : Nat, end : Nat] /\ op'.kind = "idle" /\ op'.pos = 0
    BY <1>1 DEF Idle, OpKinds
  <1> DEFINE first == op.pos \div BT
             few(b) == IF b = first THEN op.pos % BT ELSE 0
             part(b) == [p \in Part |-> Shortened(blk[b].part[p], few(b))]
  <1>3. \A b \in Blocks : few(b) \in Nat
    BY Split DEF StoreInv, StoreTypes, Offsets
  <1>4. blk' = [b \in Blocks |-> IF b >= size \/ b < first THEN blk[b]
                                 ELSE [blk[b] EXCEPT !.part = part(b)]]
    BY Zenon DEF InvalidatePacked
  <1> HIDE DEF few, first
  <1>5. ASSUME NEW b \in Blocks
        PROVE  /\ blk'[b] \in LayerBlk /\ blk'[b].n = blk[b].n /\ blk'[b].sum = blk[b].sum
               /\ blk'[b].meanTokens = blk[b].meanTokens
               /\ b >= size => blk'[b] = blk[b]
               /\ \A p \in Part : /\ blk'[b].part[p].ram = blk[b].part[p].ram
                                  /\ blk'[b].part[p].nvme = blk[b].part[p].nvme
                                  /\ blk'[b].part[p].flushing = blk[b].part[p].flushing
                                  /\ blk'[b].part[p].tokens <= blk[b].part[p].tokens
    <2>1. blk[b] \in LayerBlk /\ \A p \in Part : blk[b].part[p] \in LayerPart
      BY ClaimedIs DEF StoreInv, Part
    <2>2. ASSUME NEW p \in Part
          PROVE  /\ part(b)[p] \in LayerPart
                 /\ part(b)[p].ram = blk[b].part[p].ram /\ part(b)[p].nvme = blk[b].part[p].nvme
                 /\ part(b)[p].flushing = blk[b].part[p].flushing
                 /\ part(b)[p].tokens <= blk[b].part[p].tokens
      <3>1. few(b) \in Nat /\ blk[b].part[p] \in LayerPart /\ BT \in Nat
        BY <1>3, <2>1, StoreAssumption
      <3> QED
        BY <3>1 DEF LayerPart, Shortened, Least
    <2>3. part(b) \in [Part -> LayerPart]
      BY <2>2
    <2>4. blk'[b] = IF b >= size \/ b < first THEN blk[b] ELSE [blk[b] EXCEPT !.part = part(b)]
      BY <1>4
    <2> HIDE DEF part
    <2>5. CASE b >= size \/ b < first
      <3>1. \A p \in Part : blk[b].part[p].tokens <= blk[b].part[p].tokens
        BY <2>1, StoreAssumption DEF LayerPart
      <3> QED
        BY <2>1, <2>4, <2>5, <3>1
    <2>6. CASE ~(b >= size \/ b < first)
      BY <2>1, <2>2, <2>3, <2>4, <2>6 DEF LayerBlk
    <2> QED
      BY <2>5, <2>6
  <1> HIDE DEF part
  <1>6. blk' \in [Blocks -> LayerBlk]
    BY <1>4, <1>5
  <1>7. StoreTypes'
    BY <1>1, <1>2, <1>6, SMTT(40) DEF StoreInv, StoreTypes, queue
  <1>8. QueueSafe'
    <2>1. /\ UNCHANGED <<q, batch, slab, placed>> /\ io' = io
          /\ \A b \in Blocks, p \in Part :
               /\ blk'[b].part[p].flushing = blk[b].part[p].flushing
               /\ blk[b].part[p].flushing => blk'[b].part[p].ram = blk[b].part[p].ram
      BY <1>1, <1>5 DEF queue
    <2>2. /\ io' = "ended" => stop'
          /\ stop' <=> op'.kind \in {"notify", "join", "gone"}
          /\ op'.kind = "gone" => io' = "ended"
      BY <1>1, <1>2 DEF StoreInv, QueueSafe
    <2>3. StoreTypes /\ QueueSafe
      BY DEF StoreInv
    <2> QED
      BY <2>1, <2>2, <2>3, SameQueue
  <1>9. OpSafe'
    BY <1>2, Size, OpRests DEF WriteKinds
  <1>10. family' = family /\ size' = size /\ op.kind # "restore"
    BY <1>1
  <1>11. RowsSafe'
    <2>1. ASSUME NEW b \in Blocks, NEW p \in Part
          PROVE  /\ Content(b, p)' = Content(b, p) /\ Claimed(b, p) \in Int
                 /\ Claimed(b, p)' \in Int /\ Claimed(b, p)' <= Claimed(b, p)
      <3>1. Claimed(b, p) \in 0 .. BT
        BY ClaimedIs DEF StoreInv
      <3>2. Claimed(b, p)' \in 0 .. BT
        BY <1>7, <1>10, <1>5 DEF Claimed, LayerBlk, LayerPart
      <3>3. Claimed(b, p)' <= Claimed(b, p)
        BY <1>5, <1>10, <3>1, StoreAssumption DEF Claimed
      <3> QED
        BY <1>5, <3>1, <3>2, <3>3, StoreAssumption DEF Content
    <2>2. \A b \in Blocks : b >= size' => blk'[b] = Fresh
      BY <1>5, <1>10 DEF StoreInv, RowsSafe
    <2>3. UNCHANGED <<family, truth, lost>> /\ RowsSafe
      BY <1>1 DEF StoreInv
    <2> QED
      BY <2>1, <2>2, <2>3, RowsKept
  <1>12. MeansSafe'
    BY <1>1, <1>5, MeansKept DEF StoreInv
  <1>13. SavedSafe'
    BY <1>1, <1>5, SavedKept DEF StoreInv
  <1> QED
    BY <1>7, <1>8, <1>9, <1>11, <1>12, <1>13 DEF StoreInv

LEMMA FreshTyped == Fresh \in LayerBlk
  <1>1. 0 \in 0 .. BT
    BY StoreAssumption
  <1> QED
    BY <1>1 DEF Fresh, FreshPart, LayerBlk, LayerPart

LEMMA ClearSafe ==
  ASSUME StoreInv, Clear
  PROVE  StoreInv'
  <1>1. /\ op.kind = "clear" /\ op' = Idle /\ q = <<>> /\ batch = <<>>
        /\ blk' = [b \in Blocks |-> Fresh] /\ size' = 0 /\ placed' = {} /\ ioError' = FALSE
        /\ saved' = NoMean /\ lost' = {}
        /\ truth' = [p \in Part |-> [i \in Positions |-> 0]]
        /\ meanTruth' = [i \in Positions |-> 0]
        /\ UNCHANGED <<family, q, batch, slab, io, stop, mu, written, faults>>
    BY DEF Clear, Drained, control
  <1>2. op' \in [kind : OpKinds, pos : Nat, end : Nat] /\ op'.kind = "idle" /\ op'.pos = 0
    BY <1>1 DEF Idle, OpKinds
  <1>3. blk' \in [Blocks -> LayerBlk] /\ \A b \in Blocks : blk'[b] = Fresh
    BY <1>1, FreshTyped
  <1>4. StoreTypes'
    <2>1. truth' \in [Part -> [Positions -> Nat]] /\ meanTruth' \in [Positions -> Nat]
      BY <1>1
    <2>2. size' \in 0 .. NB
      BY <1>1, StoreAssumption
    <2> QED
      BY <1>1, <1>2, <1>3, <2>1, <2>2 DEF StoreInv, StoreTypes
  <1>5. Marked = {} /\ Marked' = {}
    <2>1. \A x \in Jobs : x[1] \in Blocks /\ x[2] \in Part
      BY DEF Jobs
    <2>2. \A x \in Jobs : ~blk'[x[1]].part[x[2]].flushing
      BY <1>3, <2>1 DEF Fresh, FreshPart
    <2> QED
      BY <1>1, <2>2, Unmarked DEF Marked, StoreInv
  <1>6. QueueSafe'
    <2>1. Waits(q', batch, Marked')
      BY <1>1, <1>5 DEF StoreInv, QueueSafe
    <2>2. io' = io /\ (io' = "ended" => q' = <<>> /\ stop')
      BY <1>1 DEF StoreInv, QueueSafe
    <2>3. stop' <=> op'.kind \in {"notify", "join", "gone"}
      BY <1>1, <1>2 DEF StoreInv, QueueSafe
    <2> QED
      BY <1>1, <1>2, <1>5, <2>1, <2>2, <2>3, QueueKept DEF StoreInv
  <1>7. RowsSafe'
    <2>1. \A b \in Blocks, p \in Part : Content(b, p)' = None /\ Claimed(b, p)' = 0
      BY <1>3 DEF Content, Claimed, Fresh, FreshPart
    <2> QED
      BY <1>3, <2>1 DEF RowsSafe
  <1>8. OpSafe'
    BY <1>2, Size, OpRests DEF WriteKinds
  <1>9. MeansSafe'
    <2>1. \A b \in Blocks : blk'[b].sum = {} /\ blk'[b].meanTokens = 0 /\ blk'[b].n = 0
      BY <1>3 DEF Fresh
    <2>2. \A b \in Blocks : MeansOf(b, 0)' = {}
      BY DEF MeansOf
    <2>3. \A b \in Blocks : (blk[b].sum = MeansOf(b, blk[b].meanTokens))'
      BY <2>1 DEF MeansOf
    <2>4. meanTruth' = truth'["K"] /\ \A b \in Blocks : ~(b + 1 < size')
      BY <1>1 DEF Part, Blocks
    <2> QED
      BY <1>1, <2>1, <2>3, <2>4 DEF MeansSafe
  <1>10. SavedSafe'
    BY <1>1 DEF SavedSafe
  <1> QED
    BY <1>4, <1>6, <1>7, <1>8, <1>9, <1>10 DEF StoreInv

-----------------------------------------------------------------------------
(* The harvest worker                                                       *)

\* The sum add_mean_f32 makes of an earlier one.
Added(sum, off, take, w) ==
    LET rows == {<<o, w>> : o \in off .. off + take - 1}
    IN IF off = 0 THEN rows ELSE sum \cup rows

MeansNow(b, n) == {<<o, meanTruth'[b * BT + o]>> : o \in 0 .. n - 1}

\* The mean of a block after the next run of tokens, each with the value w.
LEMMA MeanGrows ==
  ASSUME NEW b, NEW off \in Nat, NEW take \in Nat, 1 <= take, off + take <= BT, NEW w, NEW sum,
         off # 0 => sum = MeansOf(b, off),
         \A o \in Offsets : meanTruth'[b * BT + o] = IF o \in off .. off + take - 1 THEN w
                                                     ELSE meanTruth[b * BT + o]
  PROVE  Added(sum, off, take, w) = MeansNow(b, off + take)
  <1> DEFINE rows == {<<o, w>> : o \in off .. off + take - 1}
             all == {<<o, meanTruth'[b * BT + o]>> : o \in 0 .. (off + take) - 1}
  <1>0. Added(sum, off, take, w) = (IF off = 0 THEN rows ELSE sum \cup rows) /\ MeansNow(b, off + take) = all
    BY DEF Added, MeansNow
  <1>1. BT \in Nat \ {0}
    BY StoreAssumption
  <1>2. ASSUME NEW o \in off .. off + take - 1
        PROVE  o \in 0 .. (off + take) - 1 /\ meanTruth'[b * BT + o] = w
    <2>1. o \in Offsets /\ o \in 0 .. (off + take) - 1
      BY <1>1 DEF Offsets
    <2> QED
      BY <2>1
  <1>3. rows \subseteq all /\ \A o \in off .. off + take - 1 : <<o, meanTruth'[b * BT + o]>> \in rows
    BY <1>2
  <1>4. CASE off = 0
    <2>1. \A o \in 0 .. (off + take) - 1 : o \in off .. off + take - 1
      BY <1>4
    <2>2. all \subseteq rows
      BY <1>3, <2>1
    <2> QED
      BY <1>0, <1>3, <1>4, <2>2
  <1>5. CASE off # 0
    <2>1. sum = {<<o, meanTruth[b * BT + o]>> : o \in 0 .. off - 1}
      BY <1>5 DEF MeansOf
    <2>2. \A o \in 0 .. off - 1 :
             o \in 0 .. (off + take) - 1 /\ meanTruth'[b * BT + o] = meanTruth[b * BT + o]
      <3> TAKE o \in 0 .. off - 1
      <3>1. o \in Offsets /\ o \in 0 .. (off + take) - 1 /\ ~(o \in off .. off + take - 1)
        BY <1>1 DEF Offsets
      <3> QED
        BY <3>1
    <2>3. \A o \in 0 .. (off + take) - 1 : o \in 0 .. off - 1 \/ o \in off .. off + take - 1
      OBVIOUS
    <2>4. sum \subseteq all /\ all \subseteq sum \cup rows
      BY <1>3, <2>1, <2>2, <2>3
    <2> QED
      BY <1>0, <1>3, <1>5, <2>4
  <1> QED
    BY <1>4, <1>5

LEMMA WriteMeanKSafe ==
  ASSUME StoreInv, NEW take \in 1 .. BT, WriteMeanK(take)
  PROVE  StoreInv'
  <1> DEFINE b == MeanLength \div BT
             off == MeanLength % BT
             w == NextWrite
             rows == {<<o, w>> : o \in off .. off + take - 1}
             sum == IF off = 0 THEN rows ELSE blk[b].sum \cup rows
  <1>1. /\ family = "packed" /\ op.kind # "restore" /\ b \in Blocks /\ take \in 1 .. BT - off
        /\ written' = w /\ size' = Most(size, b + 1)
        /\ blk' = [blk EXCEPT ![b] = AddMean(Covering(blk[b], off + take), off, take, w)]
        /\ meanTruth' = [i \in Positions |->
               IF i \in MeanLength .. MeanLength + take - 1 THEN w ELSE meanTruth[i]]
        /\ UNCHANGED <<family, placed, queue, io, stop, mu, op, saved>>
        /\ UNCHANGED <<truth, faults, lost>>
    BY DEF WriteMeanK, control
  <1>0. /\ family' = family /\ op' = op /\ saved' = saved /\ truth' = truth /\ lost' = lost
    BY <1>1
  <1>2. /\ MeanLength = b * BT + off /\ off \in Offsets /\ MeanLength \in Nat
        /\ off # 0 => blk[b].meanTokens = off
        /\ \A c \in Blocks : blk[c].meanTokens > 0 => c < b \/ (c = b /\ blk[c].meanTokens <= off)
    BY MeanLengthIs DEF StoreInv, RowsSafe
  <1>3. /\ BT \in Nat \ {0} /\ off \in Nat /\ off < BT /\ take \in Nat /\ 1 <= take
        /\ off + take <= BT /\ w \in Nat /\ b \in Nat /\ b < NB /\ NB \in Nat /\ size \in 0 .. NB
        /\ off + take \in 0 .. BT
    <2> HIDE DEF b, off
    <2>1. BT \in Nat \ {0} /\ NB \in Nat /\ size \in 0 .. NB /\ w \in Nat
      BY StoreAssumption DEF NextWrite, StoreInv, StoreTypes
    <2>2. off \in Nat /\ off < BT /\ b \in Nat /\ b < NB
      BY <1>1, <1>2, <2>1 DEF Offsets, Blocks
    <2>3. take \in Nat /\ 1 <= take /\ off + take <= BT /\ off + take \in 0 .. BT
      BY <1>1, <2>1, <2>2
    <2> QED
      BY <2>1, <2>2, <2>3
  <1> HIDE DEF b, off, w
  <1>4. ASSUME NEW c \in Blocks, NEW o \in Offsets
        PROVE  meanTruth'[c * BT + o] = IF c = b /\ o \in off .. off + take - 1 THEN w
                                        ELSE meanTruth[c * BT + o]
    <2>1. c \in Nat
      BY DEF Blocks
    <2>2. c * BT + o \in Positions
      BY <2>1, Inside
    <2>3. c * BT + o \in b * BT + off .. b * BT + off + take - 1
            <=> c = b /\ o \in off .. off + take - 1
      <3>1. off \in Offsets /\ take \in Nat /\ 1 <= take /\ off + take <= BT /\ b \in Nat
        BY <1>2, <1>3
      <3> QED
        BY <2>1, <3>1, Run, ZenonT(60)
    <2> QED
      BY <1>1, <1>2, <2>2, <2>3
  <1>5. blk[b] \in LayerBlk /\ blk \in [Blocks -> LayerBlk]
    BY <1>1 DEF StoreInv, StoreTypes
  <1>6. ASSUME off # 0 PROVE Most(blk[b].meanTokens, off + take) = off + take
    BY <1>2, <1>3, <1>6 DEF Most
  <1>7. /\ blk'[b].part = blk[b].part /\ blk'[b].meanTokens = off + take /\ blk'[b].sum = sum
        /\ blk'[b].n = Most(blk[b].n, off + take) /\ blk'[b] \in LayerBlk
    <2> DEFINE n == Most(blk[b].n, off + take)
               m == IF off = 0 THEN take ELSE Most(blk[b].meanTokens, off + take)
    <2> DEFINE y == Covering(blk[b], off + take)
    <2>1. blk'[b] = [y EXCEPT !.sum = sum, !.meanTokens = m]
      <3>1. blk'[b] = AddMean(y, off, take, w)
        BY <1>1, <1>5
      <3>2. y.sum = blk[b].sum /\ y.meanTokens = blk[b].meanTokens
        BY <1>5 DEF LayerBlk, Covering
      <3>3. AddMean(y, off, take, w) =
              [y EXCEPT !.sum = IF off = 0 THEN rows ELSE y.sum \cup rows,
                        !.meanTokens = IF off = 0 THEN take ELSE Most(y.meanTokens, off + take)]
        BY DEF AddMean, Covering
      <3> QED
        BY <3>1, <3>2, <3>3
    <2>2. m = off + take
      BY <1>3, <1>6
    <2>3. n \in 0 .. BT
      BY <1>3, <1>5 DEF Most, LayerBlk
    <2>4. rows \subseteq Offsets \X Nat
      BY <1>3 DEF Offsets
    <2>5. sum \in SUBSET (Offsets \X Nat)
      BY <1>5, <2>4 DEF LayerBlk
    <2> HIDE DEF m, sum
    <2>6. y \in LayerBlk /\ y.part = blk[b].part /\ y.n = n
      <3>1. y = [blk[b] EXCEPT !.n = n]
        BY DEF Covering
      <3> HIDE DEF n, y
      <3> QED
        BY <1>5, <2>3, <3>1 DEF LayerBlk
    <2> HIDE DEF y
    <2> QED
      BY <1>3, <2>1, <2>2, <2>5, <2>6 DEF LayerBlk
  <1>8. \A c \in Blocks : c # b => blk'[c] = blk[c]
    BY <1>1, <1>5
  <1>9. \A c \in Blocks : blk'[c].part = blk[c].part /\ blk'[c] \in LayerBlk
    BY <1>5, <1>7, <1>8
  <1>10. size' \in 0 .. NB /\ b < size' /\ size <= size'
    BY <1>1, <1>3 DEF Most
  <1>11. StoreTypes'
    <2>1. blk' \in [Blocks -> LayerBlk]
      BY <1>1, <1>5, <1>9
    <2>2. meanTruth' \in [Positions -> Nat]
      <3>1. meanTruth \in [Positions -> Nat]
        BY DEF StoreInv, StoreTypes
      <3> QED
        BY <1>1, <1>3, <3>1
    <2> QED
      BY <1>1, <1>3, <1>10, <2>1, <2>2 DEF StoreInv, StoreTypes, queue
  <1>12. QueueSafe'
    BY <1>1, <1>9, SameQueue DEF StoreInv, QueueSafe, queue
  <1>13. ASSUME NEW c \in Blocks, NEW p \in Part
         PROVE  /\ Content(c, p)' = Content(c, p) /\ Claimed(c, p)' = Claimed(c, p)
                /\ Claimed(c, p) \in Int
    <2>1. Claimed(c, p) \in 0 .. BT
      BY ClaimedIs DEF StoreInv
    <2> QED
      BY <1>0, <1>1, <1>9, <2>1, StoreAssumption DEF Content, Claimed
  <1>14. RowsSafe'
    <2>1. \A c \in Blocks : c >= size' => blk'[c] = Fresh
      BY <1>3, <1>8, <1>10 DEF StoreInv, RowsSafe, Blocks
    <2>2. UNCHANGED <<family, truth, lost>> /\ RowsSafe
      BY <1>0 DEF StoreInv
    <2>3. \A c \in Blocks, p \in Part :
            /\ Content(c, p)' = Content(c, p) /\ Claimed(c, p) \in Int /\ Claimed(c, p)' \in Int
            /\ Claimed(c, p)' <= Claimed(c, p)
      BY <1>13
    <2> QED
      BY <2>1, <2>2, <2>3, RowsKept
  <1>15. OpSafe'
    <2>1. op.kind # "tokens"
      BY <1>1 DEF StoreInv, OpSafe, Kinds, WriteKinds
    <2> QED
      BY <1>0, <1>13, <2>1, OpStays DEF StoreInv, StoreTypes
  <1>16. ASSUME NEW c \in Blocks, NEW n \in 0 .. BT, c # b \/ n <= off
         PROVE  MeansOf(c, n)' = MeansOf(c, n)
    <2>1. \A o \in 0 .. n - 1 : o \in Offsets /\ ~(c = b /\ o \in off .. off + take - 1)
      BY <1>3, <1>16 DEF Offsets
    <2>2. \A o \in 0 .. n - 1 : meanTruth'[c * BT + o] = meanTruth[c * BT + o]
      BY <1>4, <2>1
    <2>3. n \in Nat
      BY <1>3
    <2> QED
      BY <2>2, <2>3, MeansSame
  <1>17. MeansSafe'
    <2>1. \A c \in Blocks : blk[c].sum = MeansOf(c, blk[c].meanTokens) /\ blk[c].meanTokens \in 0 .. BT
      BY <1>1, <1>5 DEF StoreInv, MeansSafe, LayerBlk
    <2>2. ASSUME NEW c \in Blocks, c # b
          PROVE  blk'[c].sum = {<<o, meanTruth'[c * BT + o]>> : o \in 0 .. blk'[c].meanTokens - 1}
      <3> DEFINE n == blk[c].meanTokens
      <3>2. \A o \in 0 .. n - 1 : meanTruth'[c * BT + o] = meanTruth[c * BT + o]
        BY <1>3, <1>4, <2>1, <2>2 DEF Offsets
      <3> QED
        BY <1>8, <2>1, <2>2, <3>2 DEF MeansOf
    <2>3. blk'[b].sum = {<<o, meanTruth'[b * BT + o]>> : o \in 0 .. blk'[b].meanTokens - 1}
      <3>1. off # 0 => blk[b].sum = MeansOf(b, off)
        BY <1>1, <1>2, <2>1
      <3>2. \A o \in Offsets : meanTruth'[b * BT + o] = IF o \in off .. off + take - 1 THEN w
                                                        ELSE meanTruth[b * BT + o]
        BY <1>1, <1>4
      <3>3. sum = {<<o, meanTruth'[b * BT + o]>> : o \in 0 .. (off + take) - 1}
        <4>1. off \in Nat /\ take \in Nat /\ 1 <= take /\ off + take <= BT
          BY <1>3
        <4>2. Added(blk[b].sum, off, take, w) = MeansNow(b, off + take)
          BY <3>1, <3>2, <4>1, MeanGrows, ZenonT(60)
        <4>3. Added(blk[b].sum, off, take, w) = sum
          BY DEF Added
        <4> QED
          BY <4>2, <4>3 DEF MeansNow
      <3> HIDE DEF sum
      <3> QED
        BY <1>7, <3>3
    <2>4. \A c \in Blocks : (blk[c].sum = MeansOf(c, blk[c].meanTokens))'
      BY <2>2, <2>3 DEF MeansOf
    <2>5. family' = "packed" /\ \A c \in Blocks : <<c, "K">> \notin lost'
      BY <1>0, <1>1 DEF StoreInv, MeansSafe
    <2> QED
      BY <2>4, <2>5 DEF MeansSafe
  <1>18. SavedSafe'
    <2> SUFFICES ASSUME saved # NoMean PROVE SavedSafe'
      BY <1>0 DEF SavedSafe
    <2> DEFINE c == saved.pos \div BT
    <2>1. /\ family = "packed" /\ saved.pos \in Nat /\ 0 < saved.pos /\ saved.pos < NB * BT
          /\ saved.pos % BT # 0 /\ saved.tokens = saved.pos % BT
          /\ saved.sum = MeansOf(c, saved.tokens)
          /\ c < size /\ blk[c].meanTokens >= saved.tokens
      BY <1>1 DEF StoreInv, SavedSafe
    <2>2. c \in Blocks /\ saved.tokens \in Offsets /\ saved.tokens > 0
      BY <2>1, PositionIs DEF Offsets
    <2> HIDE DEF c
    <2>3. blk[c].meanTokens \in 0 .. BT /\ c \in Nat /\ saved.tokens \in 0 .. BT /\ saved.tokens \in Nat
      BY <1>3, <1>5, <2>2 DEF LayerBlk, Blocks, Offsets
    <2>4. c < b \/ (c = b /\ blk[c].meanTokens <= off)
      BY <1>2, <1>3, <2>1, <2>2, <2>3
    <2>5. c # b \/ saved.tokens <= off
      BY <1>3, <2>1, <2>3, <2>4
    <2>6. \A o \in 0 .. saved.tokens - 1 : o \in Offsets /\ ~(c = b /\ o \in off .. off + take - 1)
      BY <1>3, <2>3, <2>5 DEF Offsets
    <2>7. \A o \in 0 .. saved.tokens - 1 : meanTruth'[c * BT + o] = meanTruth[c * BT + o]
      BY <1>4, <2>2, <2>6
    <2>8. saved.sum = {<<o, meanTruth'[c * BT + o]>> : o \in 0 .. saved.tokens - 1}
      BY <2>1, <2>7 DEF MeansOf
    <2>9. (saved.sum = MeansOf(saved.pos \div BT, saved.tokens))'
      BY <1>0, <2>8 DEF MeansOf, c
    <2>10. c < size' /\ blk'[c].meanTokens >= saved.tokens
      BY <1>3, <1>7, <1>8, <1>10, <2>1, <2>2, <2>3, <2>4, <2>5
    <2> QED
      BY <1>0, <2>1, <2>9, <2>10 DEF SavedSafe, c
  <1> QED
    BY <1>11, <1>12, <1>14, <1>15, <1>17, <1>18 DEF StoreInv

-----------------------------------------------------------------------------
(* Truncation                                                               *)

\* What is left of the block a truncation cuts.
LEMMA TailIs ==
  ASSUME StoreTypes, NEW b \in Blocks, NEW tail \in Offsets, NEW readOk \in BOOLEAN
  PROVE  LET x == TailOf(b, tail, readOk)
             y == blk[b]
         IN /\ x \in LayerBlk /\ x.n = Least(y.n, tail)
            /\ \A p \in Part : /\ x.part[p].tokens = Least(y.part[p].tokens, tail)
                               /\ x.part[p].flushing = y.part[p].flushing
            /\ \A p \in Part :
                 \/ x.part[p].ram = y.part[p].ram /\ x.part[p].nvme = y.part[p].nvme
                 \/ /\ p = "K" /\ family = "f16" /\ y.part[p].ram = None /\ x.part[p].nvme = None
                    /\ x.part[p].ram = (IF readOk THEN y.part[p].nvme ELSE None)
            /\ y.meanTokens <= tail => x.sum = y.sum /\ x.meanTokens = y.meanTokens
            /\ y.meanTokens > tail =>
                 \/ /\ x.sum = {} /\ x.meanTokens = 0
                    /\ family # "f16" \/ x.part["K"].ram = None \/ x.n = 0
                 \/ /\ family = "f16" /\ x.part["K"].ram # None /\ x.meanTokens = x.n
                    /\ x.sum = {<<o, x.part["K"].ram[o]>> : o \in 0 .. x.n - 1}
            /\ family = "f16" /\ y.meanTokens > tail =>
                 x.part["K"].ram # None \/ y.part["K"].nvme = None \/ ~readOk
  <1> DEFINE y == blk[b]
             cutParts == [p \in Part |-> Shortened(y.part[p], tail)]
             cut == [y EXCEPT !.n = Least(@, tail), !.part = cutParts]
             k == cut.part["K"]
             loaded == family = "f16" /\ k.ram = None /\ k.nvme # None
             back == IF loaded
                     THEN [cut EXCEPT !.part["K"].nvme = None,
                                      !.part["K"].ram = IF readOk THEN k.nvme ELSE None]
                     ELSE cut
             bare == [back EXCEPT !.sum = {}, !.meanTokens = 0]
             x == TailOf(b, tail, readOk)
  <1>1. /\ y \in LayerBlk /\ tail \in 0 .. BT /\ 0 \in 0 .. BT /\ BT \in Nat
        /\ \A p \in Part : y.part[p] \in LayerPart
    BY ClaimedIs, StoreAssumption DEF Offsets, Part
  <1>2. x = IF cut.meanTokens <= tail THEN cut ELSE CaptureMean(bare)
    BY DEF TailOf
  <1>3. ASSUME NEW p \in Part
        PROVE  /\ cutParts[p] \in LayerPart /\ cutParts[p].tokens = Least(y.part[p].tokens, tail)
               /\ cutParts[p].flushing = y.part[p].flushing
               /\ cutParts[p].ram = y.part[p].ram /\ cutParts[p].nvme = y.part[p].nvme
    <2>1. y.part[p] \in LayerPart
      BY <1>1
    <2> HIDE DEF y
    <2> QED
      BY <1>1, <2>1 DEF Shortened, LayerPart, Least
  <1>4. cutParts \in [Part -> LayerPart]
    BY <1>3
  <1> HIDE DEF y, cutParts
  <1>5. /\ cut \in LayerBlk /\ cut.n = Least(y.n, tail) /\ cut.part = cutParts
        /\ cut.sum = y.sum /\ cut.meanTokens = y.meanTokens
    BY <1>1, <1>4 DEF LayerBlk, Least
  <1> HIDE DEF cut
  <1>6. /\ back \in LayerBlk /\ back.n = cut.n
        /\ \A p \in Part : /\ back.part[p].tokens = cutParts[p].tokens
                           /\ back.part[p].flushing = cutParts[p].flushing
        /\ back.part["V"] = cutParts["V"]
        /\ ~loaded => back.part["K"] = cutParts["K"]
        /\ loaded => /\ back.part["K"].nvme = None
                     /\ back.part["K"].ram = (IF readOk THEN cutParts["K"].nvme ELSE None)
    <2>1. CASE ~loaded
      BY <1>5, <2>1
    <2>2. CASE loaded
      <3> DEFINE ram == IF readOk THEN k.nvme ELSE None
                 kk == [k EXCEPT !.nvme = None, !.ram = ram]
      <3>1. k \in LayerPart /\ ram \in Rows \cup {None} /\ "K" \in Part /\ "V" \in Part
        BY <1>4, <1>5 DEF LayerPart, Part
      <3>2. back = [cut EXCEPT !.part = [cutParts EXCEPT !["K"] = kk]]
        <4>1. cut.part["K"] = k
          OBVIOUS
        <4> QED
          BY <1>5, <2>2, <3>1, <4>1 DEF LayerBlk, LayerPart
      <3>3. kk \in LayerPart /\ kk.tokens = k.tokens /\ kk.flushing = k.flushing
            /\ kk.nvme = None /\ kk.ram = ram
        <4> HIDE DEF k, ram
        <4> QED
          BY <3>1 DEF LayerPart
      <3>4. k = cutParts["K"]
        BY <1>5
      <3> HIDE DEF kk, k, back
      <3>5. /\ [cutParts EXCEPT !["K"] = kk] \in [Part -> LayerPart]
            /\ [cutParts EXCEPT !["K"] = kk]["K"] = kk
            /\ [cutParts EXCEPT !["K"] = kk]["V"] = cutParts["V"]
        BY <1>4, <3>1, <3>3
      <3>6. /\ back \in LayerBlk /\ back.n = cut.n /\ back.part["K"] = kk
            /\ back.part["V"] = cutParts["V"]
        BY <1>5, <3>2, <3>5 DEF LayerBlk
      <3> QED
        BY <2>2, <3>3, <3>4, <3>6 DEF Part
    <2> QED
      BY <2>1, <2>2
  <1>7. loaded <=> family = "f16" /\ y.part["K"].ram = None /\ y.part["K"].nvme # None
    BY <1>3, <1>5 DEF Part
  <1> HIDE DEF k, loaded, back
  <1>8. bare \in LayerBlk /\ bare.n = cut.n /\ bare.part = back.part /\ bare.sum = {} /\ bare.meanTokens = 0
    BY <1>1, <1>6 DEF LayerBlk
  <1>9. CASE y.meanTokens <= tail
    <2>1. x = cut
      BY <1>2, <1>5, <1>9
    <2>2. ~(y.meanTokens > tail)
      BY <1>1, <1>9 DEF LayerBlk
    <2> HIDE DEF x, bare
    <2>3. \A p \in Part : /\ x.part[p].ram = y.part[p].ram /\ x.part[p].nvme = y.part[p].nvme
                          /\ x.part[p].tokens = Least(y.part[p].tokens, tail)
                          /\ x.part[p].flushing = y.part[p].flushing
      BY <1>3, <1>5, <2>1
    <2> QED
      BY <1>5, <1>9, <2>1, <2>2, <2>3 DEF x, y
  <1>10. CASE y.meanTokens > tail
    <2>1. x = CaptureMean(bare)
      BY <1>1, <1>2, <1>5, <1>10 DEF LayerBlk
    <2> DEFINE none == family # "f16" \/ bare.part["K"].ram = None \/ bare.n = 0
               sum == {<<o, bare.part["K"].ram[o]>> : o \in 0 .. bare.n - 1}
    <2>2. x = IF none THEN bare ELSE [bare EXCEPT !.sum = sum, !.meanTokens = bare.n]
      BY <2>1 DEF CaptureMean
    <2>3. ~none => sum \in SUBSET (Offsets \X Nat)
      <3> SUFFICES ASSUME ~none, NEW o \in 0 .. bare.n - 1
                   PROVE  o \in Offsets /\ bare.part["K"].ram[o] \in Nat
        OBVIOUS
      <3>1. bare.part["K"] \in LayerPart /\ bare.n \in 0 .. BT
        BY <1>8 DEF LayerBlk, Part
      <3>2. bare.part["K"].ram \in Rows /\ o \in Offsets
        BY <1>1, <3>1 DEF LayerPart, Offsets
      <3> QED
        BY <3>2 DEF Rows
    <2> HIDE DEF x, bare, sum
    <2>4. /\ x \in LayerBlk /\ x.n = cut.n /\ x.part = back.part
          /\ none => x.sum = {} /\ x.meanTokens = 0
          /\ ~none => x.sum = sum /\ x.meanTokens = x.n
      <3>1. bare.n \in 0 .. BT
        BY <1>8 DEF LayerBlk
      <3>2. CASE none
        BY <1>8, <2>2, <3>2
      <3>3. CASE ~none
        BY <1>8, <2>2, <2>3, <3>1, <3>3 DEF LayerBlk
      <3> QED
        BY <3>2, <3>3
    <2>5. \A p \in Part :
            /\ x.part[p].tokens = Least(y.part[p].tokens, tail)
            /\ x.part[p].flushing = y.part[p].flushing
            /\ \/ x.part[p].ram = y.part[p].ram /\ x.part[p].nvme = y.part[p].nvme
               \/ /\ p = "K" /\ family = "f16" /\ y.part[p].ram = None /\ x.part[p].nvme = None
                  /\ x.part[p].ram = (IF readOk THEN y.part[p].nvme ELSE None)
      BY <1>3, <1>6, <1>7, <2>4 DEF Part
    <2>6. y.meanTokens > tail =>
            \/ /\ x.sum = {} /\ x.meanTokens = 0
               /\ family # "f16" \/ x.part["K"].ram = None \/ x.n = 0
            \/ /\ family = "f16" /\ x.part["K"].ram # None /\ x.meanTokens = x.n
               /\ x.sum = {<<o, x.part["K"].ram[o]>> : o \in 0 .. x.n - 1}
      <3>1. x.part["K"].ram = bare.part["K"].ram /\ x.n = bare.n
        BY <1>8, <2>4
      <3> QED
        BY <2>4, <3>1 DEF sum
    <2>7. family = "f16" => x.part["K"].ram # None \/ y.part["K"].nvme = None \/ ~readOk
      BY <1>3, <1>6, <1>7, <2>4 DEF Part
    <2>8. ~(y.meanTokens <= tail) /\ x.n = Least(y.n, tail)
      BY <1>1, <1>5, <1>10, <2>4 DEF LayerBlk
    <2> QED
      BY <2>4, <2>5, <2>6, <2>7, <2>8 DEF x, y
  <1>11. y.meanTokens <= tail \/ y.meanTokens > tail
    BY <1>1 DEF LayerBlk
  <1> QED
    BY <1>9, <1>10, <1>11

\* A truncation leaves the blocks before the cut, what TailOf leaves of the block
\* that is cut, and nothing after it.
LEMMA TruncateBlocks ==
  ASSUME StoreInv, NEW readOk \in BOOLEAN, Truncate(readOk), NEW b \in Blocks
  PROVE  LET c == op.pos \div BT
             tail == op.pos % BT
         IN \/ blk'[b] = Fresh /\ (b >= c + 1 \/ (b = c /\ tail = 0))
            \/ b < c /\ blk'[b] = blk[b]
            \/ b = c /\ tail # 0 /\ blk[b] = Fresh /\ blk'[b] = Fresh
            \/ b = c /\ tail # 0 /\ b < size /\ blk'[b] = TailOf(b, tail, readOk)
  <1> DEFINE c == op.pos \div BT
             tail == op.pos % BT
             keep == (op.pos + BT - 1) \div BT
  <1>1. /\ op.pos \in Nat /\ c \in Nat /\ tail \in Offsets /\ b \in Nat /\ size \in Nat
        /\ keep = (IF tail = 0 THEN c ELSE c + 1)
    <2>1. op.pos \in Nat /\ size \in 0 .. NB
      BY DEF StoreInv, StoreTypes
    <2>2. size \in Nat /\ b \in Nat
      BY <2>1, StoreAssumption DEF Blocks
    <2>3. c \in Nat /\ tail \in Offsets /\ keep = (IF tail = 0 THEN c ELSE c + 1)
      BY <2>1, Split, KeepIs
    <2> QED
      BY <2>1, <2>2, <2>3
  <1>2. blk'[b] = IF b >= keep THEN Fresh
                  ELSE IF b = keep - 1 /\ keep <= size /\ tail # 0 THEN TailOf(b, tail, readOk)
                  ELSE blk[b]
    BY DEF Truncate
  <1>3. b >= size => blk[b] = Fresh
    BY DEF StoreInv, RowsSafe
  <1> HIDE DEF c, tail, keep
  <1>4. CASE b >= keep
    BY <1>1, <1>2, <1>4 DEF c, tail
  <1>5. CASE b < keep /\ tail = 0
    <2>1. b < c /\ blk'[b] = blk[b]
      BY <1>1, <1>2, <1>5
    <2> QED
      BY <2>1 DEF c
  <1>6. CASE b < keep /\ tail # 0 /\ b # c
    <2>1. b < c /\ blk'[b] = blk[b]
      BY <1>1, <1>2, <1>6
    <2> QED
      BY <2>1 DEF c
  <1>7. CASE b < keep /\ tail # 0 /\ b = c
    <2>1. keep = c + 1 /\ keep - 1 = c /\ (keep <= size <=> c < size)
      BY <1>1, <1>7
    <2>2. blk'[b] = IF c < size THEN TailOf(b, tail, readOk) ELSE blk[b]
      BY <1>1, <1>2, <1>7, <2>1
    <2>3. (b < size /\ blk'[b] = TailOf(b, tail, readOk)) \/ (blk[b] = Fresh /\ blk'[b] = Fresh)
      BY <1>1, <1>3, <1>7, <2>2
    <2> QED
      BY <1>7, <2>3 DEF c, tail
  <1> QED
    BY <1>1, <1>4, <1>5, <1>6, <1>7

LEMMA TruncateSafe ==
  ASSUME StoreInv, NEW readOk \in BOOLEAN, Truncate(readOk)
  PROVE  StoreInv'
  <1> DEFINE pos == op.pos
             c == pos \div BT
             tail == pos % BT
             keep == (pos + BT - 1) \div BT
  <1>1. /\ op.kind = "truncate" /\ q = <<>> /\ batch = <<>>
        /\ size' = Least(size, keep)
        /\ truth' = [p \in Part |-> [i \in Positions |-> IF i < pos THEN truth[p][i] ELSE 0]]
        /\ meanTruth' = [i \in Positions |-> IF i < pos THEN meanTruth[i] ELSE 0]
        /\ saved' = IF saved.pos > pos THEN NoMean ELSE saved
        /\ op' = IF family = "packed" /\ tail # 0 THEN [op EXCEPT !.kind = "restore"] ELSE Idle
        /\ blk' = [b \in Blocks |-> blk'[b]]
        /\ UNCHANGED <<family, placed, q, batch, slab, ioError, io, stop, mu, written>>
    BY DEF Truncate, Drained, queue, control
  <1>2. /\ \/ readOk /\ UNCHANGED <<faults, lost>>
           \/ /\ ~readOk /\ family = "f16" /\ tail # 0 /\ keep = size
              /\ faults' = faults + 1 /\ lost' = lost \cup {<<keep - 1, "K">>}
    BY DEF Truncate
  <1>3. /\ pos \in Nat /\ pos < NB * BT /\ pos = c * BT + tail /\ c \in Blocks /\ c \in Nat
        /\ tail \in Offsets /\ tail \in Nat /\ tail < BT /\ BT \in Nat \ {0} /\ NB \in Nat \ {0}
        /\ size \in 0 .. NB /\ size \in Nat
        /\ keep = (IF tail = 0 THEN c ELSE c + 1)
    <2>1. pos \in Nat /\ pos < NB * BT /\ size \in 0 .. NB
      BY DEF StoreInv, StoreTypes, OpSafe
    <2>2. NB \in Nat \ {0} /\ BT \in Nat \ {0}
      BY StoreAssumption
    <2>3. size \in Nat /\ tail \in Nat /\ tail < BT
      BY <2>1, <2>2
    <2> QED
      BY <2>1, <2>2, <2>3, Split, PositionIs, KeepIs
  <1>4. \A b \in Blocks : b \in Nat /\ blk[b] \in LayerBlk
    <2>1. \A b \in Blocks : b \in Nat
      BY StoreAssumption DEF Blocks
    <2>2. \A b \in Blocks : blk[b] \in LayerBlk
      BY DEF StoreInv, StoreTypes
    <2> QED
      BY <2>1, <2>2
  <1>5. \A b \in Blocks :
            \/ blk'[b] = Fresh /\ (b >= c + 1 \/ (b = c /\ tail = 0))
            \/ b < c /\ blk'[b] = blk[b]
            \/ b = c /\ tail # 0 /\ blk[b] = Fresh /\ blk'[b] = Fresh
            \/ b = c /\ tail # 0 /\ b < size /\ blk'[b] = TailOf(b, tail, readOk)
    BY TruncateBlocks
  <1> HIDE DEF c, tail, keep, pos
  <1>6. lost \subseteq lost' /\ lost' \subseteq lost \cup {<<c, "K">>} /\ (family # "f16" => lost' = lost)
    BY <1>2, <1>3
  <1>7. size' \in 0 .. NB /\ size' \in Nat /\ size' <= keep /\ size' <= size
    BY <1>1, <1>3 DEF Least, Blocks
  <1>8. ASSUME NEW b \in Blocks, NEW o \in Offsets, b < c \/ (b = c /\ o < tail)
        PROVE  /\ \A p \in Part : truth'[p][b * BT + o] = truth[p][b * BT + o]
               /\ meanTruth'[b * BT + o] = meanTruth[b * BT + o]
    <2>1. b * BT + o < pos
      BY <1>3, <1>4, <1>8, Order
    <2>2. b * BT + o \in Positions
      BY <1>4, Inside
    <2> QED
      BY <1>1, <2>1, <2>2
  <1>9. \A b \in Blocks : blk'[b] \in LayerBlk
    BY <1>3, <1>4, <1>5, TailIs, FreshTyped DEF StoreInv
  <1>10. op' \in [kind : OpKinds, pos : Nat, end : Nat] /\ op'.pos < NB * BT
         /\ op'.kind \in {"idle", "restore"}
    <2>1. op \in [kind : OpKinds, pos : Nat, end : Nat] /\ op.pos < NB * BT
      BY DEF StoreInv, StoreTypes, OpSafe
    <2>2. "restore" \in OpKinds /\ "idle" \in OpKinds
      BY DEF OpKinds
    <2>3. Idle \in [kind : OpKinds, pos : Nat, end : Nat] /\ Idle.pos < NB * BT /\ Idle.kind = "idle"
      BY <2>2, Size DEF Idle
    <2> QED
      BY <1>1, <2>1, <2>2, <2>3
  <1>11. StoreTypes'
    <2>1. blk' \in [Blocks -> LayerBlk]
      BY <1>1, <1>9
    <2>2. truth' \in [Part -> [Positions -> Nat]] /\ meanTruth' \in [Positions -> Nat]
      <3>1. truth \in [Part -> [Positions -> Nat]] /\ meanTruth \in [Positions -> Nat]
        BY DEF StoreInv, StoreTypes
      <3> QED
        BY <1>1, <3>1
    <2>3. lost' \subseteq Jobs /\ faults' \in Nat
      <3>1. lost \subseteq Jobs /\ faults \in Nat /\ <<c, "K">> \in Jobs
        BY <1>3 DEF StoreInv, StoreTypes, Jobs, Part
      <3> QED
        BY <1>2, <1>6, <3>1
    <2> QED
      BY <1>1, <1>7, <1>10, <2>1, <2>2, <2>3 DEF StoreInv, StoreTypes
  <1>12. Marked = {} /\ \A b \in Blocks, p \in Part : ~blk[b].part[p].flushing
    BY <1>1, Unmarked DEF StoreInv
  <1>13. ASSUME NEW b \in Blocks, NEW p \in Part
         PROVE  ~blk'[b].part[p].flushing
    <2>1. ~Fresh.part[p].flushing
      BY DEF Fresh, FreshPart
    <2>2. tail # 0 => ~TailOf(b, tail, readOk).part[p].flushing
      BY <1>3, <1>12, TailIs DEF StoreInv
    <2> QED
      BY <1>5, <1>12, <2>1, <2>2
  <1>14. QueueSafe'
    <2>1. Marked' = {}
      BY <1>13 DEF Marked, Jobs
    <2>2. Waits(q', batch, Marked')
      BY <1>1, <1>12, <2>1 DEF StoreInv, QueueSafe
    <2>3. io' = io /\ (io' = "ended" => q' = <<>> /\ stop')
      BY <1>1 DEF StoreInv, QueueSafe
    <2>4. stop' <=> op'.kind \in {"notify", "join", "gone"}
      BY <1>1, <1>10 DEF StoreInv, QueueSafe
    <2> QED
      BY <1>1, <1>10, <1>12, <2>1, <2>2, <2>3, <2>4, QueueKept DEF StoreInv
  <1>15. OpSafe'
    <2>1. CASE op'.kind = "idle"
      BY <1>10, <2>1, OpRests DEF WriteKinds
    <2>2. CASE op'.kind = "restore"
      <3>1. family = "packed" /\ tail # 0 /\ op'.pos = pos
        BY <1>1, <2>2 DEF Idle, StoreInv, StoreTypes, pos
      <3>2. saved.pos = pos
        BY <1>1, <3>1 DEF StoreInv, OpSafe, Restorable, tail, pos
      <3>3. saved' = saved
        BY <1>1, <1>3, <3>2
      <3>4. family' = "packed" /\ op'.pos = saved'.pos /\ saved'.pos % BT # 0
        BY <1>1, <3>1, <3>2, <3>3 DEF tail
      <3> QED
        BY <1>10, <2>2, <3>4 DEF OpSafe, WriteKinds
    <2> QED
      BY <1>10, <2>1, <2>2
  <1>16. \A b \in Blocks : b >= size' => blk'[b] = Fresh
    <2> TAKE b \in Blocks
    <2>1. size' = size \/ size' = keep
      BY <1>1 DEF Least
    <2>2. b >= size => blk[b] = Fresh
      BY DEF StoreInv, RowsSafe
    <2>3. b >= keep => blk'[b] = Fresh
      BY <1>3, <1>4, <1>5
    <2>4. b >= size => blk'[b] = Fresh
      BY <1>3, <1>4, <1>5, <2>2
    <2> QED
      BY <2>1, <2>3, <2>4
  <1>17. family' = family
    BY <1>1
  <1>18. ASSUME NEW b \in Blocks, NEW p \in Part
         PROVE  /\ Content(b, p)' = None \/ Content(b, p)' = Content(b, p)
                /\ Claimed(b, p)' \in 0 .. BT /\ Claimed(b, p) \in 0 .. BT
                /\ Claimed(b, p)' <= Claimed(b, p)
                /\ b >= c + 1 => Claimed(b, p)' = 0
                /\ b = c => Claimed(b, p)' <= tail
                /\ Content(b, p)' = None /\ Claimed(b, p)' > 0 /\ Used(p) => <<b, p>> \in lost'
    <2> DEFINE x == blk'[b]
               y == blk[b]
    <2>1. Claimed(b, p)' = (IF family = "packed" THEN x.part[p].tokens ELSE x.n)
      BY <1>17 DEF Claimed
    <2>2. Claimed(b, p) = (IF family = "packed" THEN y.part[p].tokens ELSE y.n)
      BY DEF Claimed
    <2>3. Content(b, p)' = (IF x.part[p].ram # None THEN x.part[p].ram ELSE x.part[p].nvme)
      BY DEF Content
    <2>4. Content(b, p) = (IF y.part[p].ram # None THEN y.part[p].ram ELSE y.part[p].nvme)
      BY DEF Content
    <2>5. Claimed(b, p)' \in 0 .. BT /\ Claimed(b, p) \in 0 .. BT
      BY <1>9, <1>4, <2>1, <2>2 DEF LayerBlk, LayerPart
    <2>6. Used(p) /\ Claimed(b, p) > 0 /\ Content(b, p) = None => <<b, p>> \in lost
      BY DEF StoreInv, RowsSafe
    <2>7. CASE x = Fresh
      <3>1. Claimed(b, p)' = 0 /\ Content(b, p)' = None
        BY <2>1, <2>3, <2>7 DEF Fresh, FreshPart
      <3> HIDE DEF x, y
      <3> QED
        BY <1>3, <2>5, <3>1
    <2>8. CASE b < c /\ x = y
      <3>1. Claimed(b, p)' = Claimed(b, p) /\ Content(b, p)' = Content(b, p)
        BY <2>1, <2>2, <2>3, <2>4, <2>8
      <3>2. ~(b >= c + 1) /\ b # c
        BY <1>3, <1>4, <2>8
      <3> HIDE DEF x, y
      <3> QED
        BY <1>3, <1>6, <2>5, <2>6, <3>1, <3>2
    <2>9. CASE b = c /\ tail # 0 /\ b < size /\ x = TailOf(b, tail, readOk)
      <3>1. /\ x.n = Least(y.n, tail) /\ x.part[p].tokens = Least(y.part[p].tokens, tail)
            /\ \/ x.part[p].ram = y.part[p].ram /\ x.part[p].nvme = y.part[p].nvme
               \/ /\ p = "K" /\ family = "f16" /\ y.part[p].ram = None /\ x.part[p].nvme = None
                  /\ x.part[p].ram = (IF readOk THEN y.part[p].nvme ELSE None)
        BY <1>3, <2>9, TailIs DEF StoreInv
      <3> HIDE DEF x, y
      <3>2. Claimed(b, p)' = Least(Claimed(b, p), tail)
        BY <2>1, <2>2, <3>1
      <3>3. Claimed(b, p)' <= tail /\ Claimed(b, p)' <= Claimed(b, p) /\ ~(b >= c + 1)
        BY <1>3, <2>5, <2>9, <3>2 DEF Least
      <3>4. \/ Content(b, p)' = Content(b, p)
            \/ ~readOk /\ p = "K" /\ Content(b, p)' = None
        BY <2>3, <2>4, <3>1
      <3>5. ~readOk => <<c, "K">> \in lost'
        BY <1>2, <1>3
      <3> QED
        BY <1>3, <1>6, <2>5, <2>6, <2>9, <3>3, <3>4, <3>5
    <2> HIDE DEF x, y
    <2> QED
      BY <1>5, <2>7, <2>8, <2>9 DEF x, y
  <1>19. RowsSafe'
    <2>1. ASSUME NEW b \in Blocks, NEW p \in Part, Content(b, p)' # None
          PROVE  RowsTrue(b, p)'
      <3>1. RowsTrue(b, p) /\ Content(b, p)' = Content(b, p)
        BY <1>18, <2>1 DEF StoreInv, RowsSafe
      <3>2. ASSUME NEW o \in 0 .. Claimed(b, p)' - 1
            PROVE  \/ Content(b, p)'[o] = truth'[p][b * BT + o]
                   \/ Content(b, p)'[o] = 0 /\ <<b, p>> \in lost'
        <4>1. /\ Claimed(b, p)' \in 0 .. BT /\ Claimed(b, p) \in 0 .. BT
              /\ Claimed(b, p)' <= Claimed(b, p)
              /\ b >= c + 1 => Claimed(b, p)' = 0
              /\ b = c => Claimed(b, p)' <= tail
          BY <1>18
        <4>2. o \in Offsets /\ o \in 0 .. Claimed(b, p) - 1
          BY <1>3, <3>2, <4>1 DEF Offsets
        <4>3. b < c \/ (b = c /\ o < tail)
          BY <1>3, <1>4, <3>2, <4>1
        <4>4. truth'[p][b * BT + o] = truth[p][b * BT + o]
          BY <1>8, <4>2, <4>3
        <4>5. Content(b, p)[o] = truth[p][b * BT + o] \/ (Content(b, p)[o] = 0 /\ <<b, p>> \in lost)
          BY <3>1, <4>2 DEF RowsTrue
        <4> QED
          BY <1>6, <3>1, <4>4, <4>5
      <3> QED
        BY <3>2 DEF RowsTrue
    <2>2. \A b \in Blocks, p \in Part :
            (Used(p) /\ Claimed(b, p) > 0 /\ Content(b, p) = None => <<b, p>> \in lost)'
      BY <1>17, <1>18 DEF Used
    <2>3. \A b \in Blocks, p \in Part : ~Used(p)' => Content(b, p)' = None
      <3>1. \A b \in Blocks, p \in Part : ~Used(p) => Content(b, p) = None
        BY DEF StoreInv, RowsSafe
      <3>2. \A p : Used(p)' <=> Used(p)
        BY <1>17 DEF Used
      <3>3. \A b \in Blocks, p \in Part : Content(b, p)' = None \/ Content(b, p)' = Content(b, p)
        BY <1>18
      <3> QED
        BY <3>1, <3>2, <3>3
    <2> QED
      BY <1>16, <2>1, <2>2, <2>3 DEF RowsSafe
  <1>20. \A b \in Blocks : blk[b].meanTokens \in 0 .. BT /\ blk[b].n \in 0 .. BT
    BY <1>4 DEF LayerBlk
  <1>21. ASSUME NEW b \in Blocks, b < c, blk'[b] = blk[b], <<b, "K">> \notin lost'
         PROVE  blk'[b].sum = {<<o, meanTruth'[b * BT + o]>> : o \in 0 .. blk'[b].meanTokens - 1}
    <2>1. blk[b].sum = {<<o, meanTruth[b * BT + o]>> : o \in 0 .. blk[b].meanTokens - 1}
      BY <1>6, <1>21 DEF StoreInv, MeansSafe, MeansOf
    <2>2. \A o \in 0 .. blk[b].meanTokens - 1 : meanTruth'[b * BT + o] = meanTruth[b * BT + o]
      <3> TAKE o \in 0 .. blk[b].meanTokens - 1
      <3>1. o \in Offsets
        BY <1>3, <1>20 DEF Offsets
      <3> QED
        BY <1>8, <1>21, <3>1
    <2> QED
      BY <1>21, <2>1, <2>2
  <1>22. ASSUME NEW b \in Blocks, b = c, tail # 0, blk'[b] = TailOf(b, tail, readOk),
                <<b, "K">> \notin lost'
         PROVE  /\ blk'[b].sum = {<<o, meanTruth'[b * BT + o]>> : o \in 0 .. blk'[b].meanTokens - 1}
                /\ family = "f16" => blk'[b].meanTokens = blk'[b].n
    <2> DEFINE x == blk'[b]
               y == blk[b]
               hasMean == /\ family = "f16" /\ x.part["K"].ram # None /\ x.meanTokens = x.n
                          /\ x.sum = {<<o, x.part["K"].ram[o]>> : o \in 0 .. x.n - 1}
    <2>1. /\ x.n = Least(y.n, tail)
          /\ y.meanTokens <= tail => x.sum = y.sum /\ x.meanTokens = y.meanTokens
          /\ y.meanTokens > tail =>
               \/ /\ x.sum = {} /\ x.meanTokens = 0
                  /\ family # "f16" \/ x.part["K"].ram = None \/ x.n = 0
               \/ hasMean
          /\ family = "f16" /\ y.meanTokens > tail =>
               x.part["K"].ram # None \/ y.part["K"].nvme = None \/ ~readOk
      BY <1>3, <1>22, TailIs DEF StoreInv
    <2>2. /\ y.sum = {<<o, meanTruth[b * BT + o]>> : o \in 0 .. y.meanTokens - 1}
          /\ family = "f16" => y.meanTokens = y.n
      BY <1>6, <1>22 DEF StoreInv, MeansSafe, MeansOf
    <2>3. readOk
      BY <1>2, <1>3, <1>22
    <2>4. y.meanTokens \in 0 .. BT /\ y.n \in 0 .. BT
      BY <1>20
    <2> HIDE DEF x, y
    <2>5. CASE y.meanTokens <= tail
      <3>1. \A o \in 0 .. y.meanTokens - 1 : meanTruth'[b * BT + o] = meanTruth[b * BT + o]
        <4> TAKE o \in 0 .. y.meanTokens - 1
        <4>1. o \in Offsets /\ o < tail
          BY <1>3, <2>4, <2>5 DEF Offsets
        <4> QED
          BY <1>8, <1>22, <4>1
      <3>2. x.sum = {<<o, meanTruth'[b * BT + o]>> : o \in 0 .. x.meanTokens - 1}
        BY <2>1, <2>2, <2>5, <3>1
      <3>3. family = "f16" => x.meanTokens = x.n
        BY <1>3, <2>1, <2>2, <2>4, <2>5 DEF Least
      <3> QED
        BY <3>2, <3>3 DEF x
    <2>6. CASE y.meanTokens > tail /\ hasMean
      <3>1. \A o \in 0 .. x.n - 1 : x.part["K"].ram[o] = meanTruth'[b * BT + o]
        <4> TAKE o \in 0 .. x.n - 1
        <4>1. o \in Offsets /\ o < tail /\ o \in 0 .. y.n - 1
          BY <1>3, <2>1, <2>4 DEF Offsets, Least
        <4>2. Content(b, "K")' = x.part["K"].ram /\ Content(b, "K")' # None
          BY <2>6 DEF Content, x
        <4>3. "K" \in Part /\ Claimed(b, "K") = y.n
          BY <2>6 DEF Claimed, Part, y
        <4>4. Content(b, "K") = x.part["K"].ram /\ Content(b, "K") # None
          BY <1>18, <4>2, <4>3
        <4>5. RowsTrue(b, "K") /\ <<b, "K">> \notin lost
          BY <1>6, <1>22, <4>3, <4>4 DEF StoreInv, RowsSafe
        <4>6. Content(b, "K")[o] = truth["K"][b * BT + o]
          BY <4>1, <4>3, <4>5 DEF RowsTrue
        <4>7. meanTruth = truth["K"]
          BY <2>6 DEF StoreInv, MeansSafe
        <4>8. meanTruth'[b * BT + o] = meanTruth[b * BT + o]
          BY <1>8, <1>22, <4>1
        <4> QED
          BY <4>4, <4>6, <4>7, <4>8
      <3> QED
        BY <2>6, <3>1 DEF x
    <2>7. CASE y.meanTokens > tail /\ ~hasMean
      <3>1. /\ x.sum = {} /\ x.meanTokens = 0
            /\ family # "f16" \/ x.part["K"].ram = None \/ x.n = 0
        BY <2>1, <2>7
      <3>2. family # "f16"
        <4> SUFFICES ASSUME family = "f16" PROVE FALSE
          OBVIOUS
        <4>1. x.n = tail /\ x.n > 0 /\ y.n > 0
          BY <1>3, <1>22, <2>1, <2>2, <2>4, <2>7 DEF Least
        <4>2. x.part["K"].ram = None /\ y.part["K"].nvme = None
          BY <2>1, <2>3, <2>7, <3>1, <4>1
        <4>3. "K" \in Part /\ Used("K")
          BY DEF Part, Used
        <4>4. x.part["K"].ram = y.part["K"].ram \/ y.part["K"].ram = None
          BY <1>3, <1>22, <4>3, TailIs DEF StoreInv, x, y
        <4>5. Content(b, "K") = None /\ Claimed(b, "K") > 0
          BY <4>1, <4>2, <4>4 DEF Content, Claimed, y
        <4>6. <<b, "K">> \in lost
          BY <4>3, <4>5 DEF StoreInv, RowsSafe
        <4> QED
          BY <1>6, <1>22, <4>6
      <3>3. x.sum = {<<o, meanTruth'[b * BT + o]>> : o \in 0 .. x.meanTokens - 1}
        BY <3>1
      <3> QED
        BY <3>2, <3>3 DEF x
    <2> QED
      BY <2>4, <1>3, <2>5, <2>6, <2>7
  <1>23. ASSUME NEW b \in Blocks, <<b, "K">> \notin lost'
         PROVE  /\ blk'[b].sum = {<<o, meanTruth'[b * BT + o]>> : o \in 0 .. blk'[b].meanTokens - 1}
                /\ family = "f16" => blk'[b].meanTokens = blk'[b].n
    <2>1. CASE blk'[b] = Fresh
      BY <2>1 DEF Fresh
    <2>2. CASE b < c /\ blk'[b] = blk[b]
      <3>1. family = "f16" => blk[b].meanTokens = blk[b].n
        BY <1>6, <1>23 DEF StoreInv, MeansSafe
      <3> QED
        BY <1>21, <1>23, <2>2, <3>1
    <2>3. CASE b = c /\ tail # 0 /\ blk'[b] = TailOf(b, tail, readOk)
      BY <1>22, <1>23, <2>3
    <2> QED
      BY <1>5, <2>1, <2>2, <2>3
  <1>24. MeansSafe'
    <2>1. \A b \in Blocks : (<<b, "K">> \in lost \/ blk[b].sum = MeansOf(b, blk[b].meanTokens))'
      BY <1>23 DEF MeansOf
    <2>2. family' = "packed" => \A b \in Blocks : <<b, "K">> \notin lost'
      BY <1>6, <1>17 DEF StoreInv, MeansSafe
    <2>3. ASSUME family' = "f16"
          PROVE  /\ meanTruth' = truth'["K"]
                 /\ \A b \in Blocks : <<b, "K">> \in lost' \/ blk'[b].meanTokens = blk'[b].n
                 /\ \A b \in Blocks : b + 1 < size' => blk'[b].n = BT
      <3>1. meanTruth = truth["K"] /\ \A b \in Blocks : b + 1 < size => blk[b].n = BT
        BY <1>17, <2>3 DEF StoreInv, MeansSafe
      <3>2. meanTruth' = truth'["K"]
        BY <1>1, <3>1 DEF Part
      <3>3. ASSUME NEW b \in Blocks, b + 1 < size'
            PROVE  blk'[b].n = BT
        <4>1. b + 1 < keep /\ b + 1 < size /\ b < c
          BY <1>3, <1>4, <1>7, <3>3
        <4>2. blk'[b] = blk[b]
          BY <1>3, <1>4, <1>5, <4>1
        <4> QED
          BY <3>1, <4>1, <4>2
      <3> QED
        BY <1>17, <1>23, <2>3, <3>2, <3>3
    <2> QED
      BY <2>1, <2>2, <2>3 DEF MeansSafe
  <1>25. SavedSafe'
    <2>1. CASE saved' = NoMean
      BY <2>1 DEF SavedSafe
    <2>2. CASE saved' = saved /\ saved # NoMean /\ ~(saved.pos > pos)
      <3> DEFINE d == saved.pos \div BT
                 t == saved.tokens
      <3>1. /\ family = "packed" /\ saved.pos \in Nat /\ 0 < saved.pos /\ saved.pos < NB * BT
            /\ saved.pos % BT # 0 /\ t = saved.pos % BT
            /\ saved.sum = {<<o, meanTruth[d * BT + o]>> : o \in 0 .. t - 1}
            /\ d < size /\ blk[d].meanTokens >= t
        BY <1>1, <2>2 DEF StoreInv, SavedSafe, MeansOf
      <3>2. d \in Blocks /\ t \in Offsets /\ d \in Nat /\ t # 0 /\ saved.pos = d * BT + t
        BY <3>1, PositionIs, Split
      <3>3. saved.pos = op.pos \/ saved.pos < op.pos
        BY <1>3, <2>2, <3>1 DEF pos
      <3> HIDE DEF d, t
      <3>4. ~(c * BT + tail < d * BT + t)
        BY <1>3, <2>2, <3>1, <3>2
      <3>5. d < c \/ (d = c /\ t <= tail)
        BY <1>3, <3>2, <3>4, Order DEF Offsets
      <3>6. \A o \in 0 .. t - 1 : meanTruth'[d * BT + o] = meanTruth[d * BT + o]
        <4> TAKE o \in 0 .. t - 1
        <4>1. o \in Offsets /\ o < t /\ o \in Nat /\ t \in Nat
          BY <1>3, <3>2 DEF Offsets
        <4>2. d < c \/ (d = c /\ o < tail)
          BY <1>3, <3>5, <4>1
        <4> QED
          BY <1>8, <3>2, <4>1, <4>2
      <3>7. saved.sum = {<<o, meanTruth'[d * BT + o]>> : o \in 0 .. t - 1}
        BY <3>1, <3>6
      <3>8. (saved.sum = MeansOf(saved.pos \div BT, saved.tokens))'
        BY <2>2, <3>7 DEF MeansOf, d, t
      <3>9. op'.kind # "restore" => d < size' /\ blk'[d].meanTokens >= t
        <4> SUFFICES ASSUME op'.kind # "restore" PROVE d < size' /\ blk'[d].meanTokens >= t
          OBVIOUS
        <4>1. tail = 0
          <5> SUFFICES ASSUME tail # 0 PROVE FALSE
            OBVIOUS
          <5>1. op' = [op EXCEPT !.kind = "restore"] /\ op \in [kind : OpKinds, pos : Nat, end : Nat]
            BY <1>1, <3>1 DEF StoreInv, StoreTypes
          <5> QED
            BY <5>1
        <4>2. d < c /\ keep = c
          BY <1>3, <3>2, <3>5, <4>1 DEF Offsets
        <4>3. blk'[d] = blk[d]
          BY <1>3, <1>5, <3>2, <4>2
        <4> QED
          BY <1>1, <1>3, <3>1, <3>2, <4>2, <4>3 DEF Least
      <3> QED
        BY <1>17, <2>2, <3>1, <3>8, <3>9 DEF SavedSafe, d, t
    <2> QED
      BY <1>1, <2>1, <2>2
  <1> QED
    BY <1>11, <1>14, <1>15, <1>19, <1>24, <1>25 DEF StoreInv

-----------------------------------------------------------------------------
(* One block of a write                                                     *)

At == op.pos \div BT
Off == op.pos % BT
Take == Least(op.end - op.pos, BT - Off)

\* The block with the rows of the call, then with their mean.
Filled(kind, readOk) ==
    [blk[At] EXCEPT
        !.part = [p \in Part |-> IF p \in Parts(kind) THEN Put(At, p, Off, Take, readOk) ELSE @[p]],
        !.n = Most(@, Off + Take)]
Counted(kind, readOk) == WriteMean(kind, Filled(kind, readOk), Off, Take)

Start(kind, readOk) ==
    [x |-> Counted(kind, readOk), q |-> q, placed |-> placed, thrown |-> FALSE]
AfterK(kind, readOk) == IF "K" \in Parts(kind) THEN Flush(Start(kind, readOk), At, "K")
                        ELSE Start(kind, readOk)
Outcome(kind, readOk) == IF "V" \in Parts(kind) THEN Flush(AfterK(kind, readOk), At, "V")
                         ELSE AfterK(kind, readOk)

States == [x : LayerBlk, q : Seq(Jobs), placed : SUBSET Jobs, thrown : BOOLEAN]

MarkedWith(x, b) == {y \in Marked : y[1] # b} \cup {<<b, p>> : p \in {s \in Part : x.part[s].flushing}}

Queued(st, b) == /\ Waits(st.q, batch, MarkedWith(st.x, b))
                 /\ MarkedWith(st.x, b) \subseteq st.placed
                 /\ \A p \in Part : st.x.part[p].flushing => st.x.part[p].ram # None

SameRows(x, y) == /\ x.n = y.n /\ x.sum = y.sum /\ x.meanTokens = y.meanTokens
                  /\ \A p \in Part : /\ x.part[p].ram = y.part[p].ram
                                     /\ x.part[p].nvme = y.part[p].nvme
                                     /\ x.part[p].tokens = y.part[p].tokens

LEMMA SameRowsTwice ==
  ASSUME NEW x, NEW y, NEW z, SameRows(x, y), SameRows(y, z)
  PROVE  SameRows(x, z)
  BY DEF SameRows

\* A flush marks what it queues.
LEMMA FlushIs ==
  ASSUME StoreTypes, NEW b \in Blocks, NEW p \in Part, NEW st \in States, Queued(st, b)
  PROVE  LET r == Flush(st, b, p)
         IN r \in States /\ Queued(r, b) /\ SameRows(r.x, st.x)
  <1> DEFINE r == Flush(st, b, p)
  <1>1. st.x \in LayerBlk /\ st.q \in Seq(Jobs) /\ st.placed \subseteq Jobs /\ <<b, p>> \in Jobs
    BY DEF States, Jobs
  <1>2. /\ st.x.part \in [Part -> LayerPart] /\ \A s \in Part : st.x.part[s] \in LayerPart
    BY <1>1 DEF LayerBlk
  <1>3. CASE r = st
    BY <1>3 DEF SameRows
  <1>4. CASE r = [st EXCEPT !.thrown = TRUE]
    BY <1>4 DEF SameRows, States, Queued
  <1>5. CASE ~st.x.part[p].flushing /\ st.x.part[p].ram # None
             /\ r = [st EXCEPT !.x.part[p].flushing = TRUE,
                               !.q = Append(@, <<b, p>>), !.placed = @ \cup {<<b, p>>}]
    <2> DEFINE part == [st.x.part[p] EXCEPT !.flushing = TRUE]
               parts == [st.x.part EXCEPT ![p] = part]
               x == [st.x EXCEPT !.part = parts]
    <2>1. part \in LayerPart
      BY <1>2 DEF LayerPart
    <2>2. /\ part.flushing /\ part.ram = st.x.part[p].ram /\ part.nvme = st.x.part[p].nvme
          /\ part.tokens = st.x.part[p].tokens
      BY <1>2 DEF LayerPart
    <2> HIDE DEF part
    <2>3. parts \in [Part -> LayerPart] /\ parts[p] = part /\ \A s \in Part : s # p => parts[s] = st.x.part[s]
      BY <1>2, <2>1
    <2> HIDE DEF parts
    <2>4. x \in LayerBlk /\ x.part = parts /\ x.n = st.x.n /\ x.sum = st.x.sum /\ x.meanTokens = st.x.meanTokens
      BY <1>1, <2>3 DEF LayerBlk
    <2>5. /\ r.x = x /\ r.q = Append(st.q, <<b, p>>) /\ r.placed = st.placed \cup {<<b, p>>}
          /\ r.thrown = st.thrown /\ r = [x |-> r.x, q |-> r.q, placed |-> r.placed, thrown |-> r.thrown]
      BY <1>5 DEF States, x, parts, part
    <2> HIDE DEF x, r
    <2>6. r.q \in Seq(Jobs) /\ r.placed \in SUBSET Jobs /\ r.thrown \in BOOLEAN
      BY <1>1, <2>5 DEF States
    <2>7. r \in States
      BY <2>4, <2>5, <2>6 DEF States
    <2>8. SameRows(r.x, st.x)
      BY <2>2, <2>3, <2>4, <2>5 DEF SameRows
    <2>9. \A s \in Part : r.x.part[s].flushing <=> s = p \/ st.x.part[s].flushing
      BY <2>2, <2>3, <2>4, <2>5
    <2>10. MarkedWith(r.x, b) = MarkedWith(st.x, b) \cup {<<b, p>>}
      BY <2>9 DEF MarkedWith
    <2>11. <<b, p>> \notin MarkedWith(st.x, b)
      BY <1>5 DEF MarkedWith
    <2>12. MarkedWith(st.x, b) \in SUBSET Jobs
      BY DEF MarkedWith, Marked, Jobs
    <2>13. Waits(Append(st.q, <<b, p>>), batch, MarkedWith(st.x, b) \cup {<<b, p>>})
      <3>1. batch \in Seq(Jobs) /\ <<b, p>> \in Jobs \ MarkedWith(st.x, b)
        BY <1>1, <2>11 DEF StoreTypes
      <3>2. Waits(st.q, batch, MarkedWith(st.x, b))
        BY DEF Queued
      <3> QED
        BY <1>1, <2>12, <3>1, <3>2, JoinQueue
    <2>14. Queued(r, b)
      <3>1. \A s \in Part : r.x.part[s].flushing => r.x.part[s].ram # None
        BY <1>5, <2>8, <2>9 DEF Queued, SameRows
      <3>2. MarkedWith(st.x, b) \subseteq st.placed
        BY DEF Queued
      <3> QED
        BY <2>5, <2>10, <2>13, <3>1, <3>2 DEF Queued
    <2> QED
      BY <2>7, <2>8, <2>14 DEF r
  <1>6. \/ r = st
        \/ r = [st EXCEPT !.thrown = TRUE]
        \/ ~st.x.part[p].flushing /\ st.x.part[p].ram # None
             /\ r = [st EXCEPT !.x.part[p].flushing = TRUE,
                               !.q = Append(@, <<b, p>>), !.placed = @ \cup {<<b, p>>}]
    BY DEF Flush, Full
  <1> QED
    BY <1>3, <1>4, <1>5, <1>6

\* Where one step of a write goes.
LEMMA ChunkAt ==
  ASSUME StoreInv, op.kind \in WriteKinds
  PROVE  /\ op.pos \in Nat /\ op.end \in Nat /\ op.pos = At * BT + Off
         /\ At \in Blocks /\ At \in Nat /\ Off \in Offsets /\ Off \in Nat /\ Off < BT
         /\ BT \in Nat \ {0} /\ NB \in Nat \ {0}
         /\ Take \in Nat /\ 1 <= Take /\ Off + Take <= BT /\ op.pos + Take <= op.end
         /\ op.pos + Take # op.end => Off + Take = BT
  <1>1. /\ op.pos \in Nat /\ op.end \in Nat /\ op.pos < op.end /\ op.pos < NB * BT
        /\ BT \in Nat \ {0} /\ NB \in Nat \ {0}
    BY StoreAssumption DEF StoreInv, StoreTypes, OpSafe
  <1>2. op.pos = At * BT + Off /\ At \in Blocks /\ At \in Nat /\ Off \in Offsets
    BY <1>1, Split, PositionIs DEF At, Off
  <1>3. Off \in Nat /\ Off < BT
    BY <1>1, <1>2 DEF Offsets
  <1> DEFINE pos == op.pos
             end == op.end
  <1>4. /\ Take \in Nat /\ 1 <= Take /\ Off + Take <= BT /\ pos + Take <= end
        /\ pos + Take # end => Off + Take = BT
    <2>1. Take = Least(end - pos, BT - Off) /\ pos \in Nat /\ end \in Nat /\ pos < end
      BY <1>1 DEF Take
    <2> HIDE DEF pos, end
    <2>2. CASE Take = end - pos /\ end - pos <= BT - Off
      BY <1>1, <1>3, <2>1, <2>2
    <2>3. CASE Take = BT - Off /\ BT - Off <= end - pos
      BY <1>1, <1>3, <2>1, <2>3
    <2> QED
      BY <1>1, <1>3, <2>1, <2>2, <2>3 DEF Least
  <1> QED
    BY <1>1, <1>2, <1>3, <1>4

\* The rows of a part after a write: new where written, as before elsewhere.
LEMMA PutIs ==
  ASSUME StoreInv, op.kind \in WriteKinds, NEW p \in Part, NEW readOk \in BOOLEAN
  PROVE  LET x == Put(At, p, Off, Take, readOk)
             y == blk[At].part[p]
         IN /\ x \in LayerPart /\ x.nvme = None /\ x.flushing = y.flushing
            /\ x.tokens = Most(y.tokens, Off + Take) /\ x.ram # None
            /\ x.ram = [o \in Offsets |-> IF o \in Off .. Off + Take - 1 THEN NextWrite
                                          ELSE Base(At, p, readOk)[o]]
  <1> DEFINE y == blk[At].part[p]
             ram == [o \in Offsets |-> IF o \in Off .. Off + Take - 1 THEN NextWrite
                                       ELSE Base(At, p, readOk)[o]]
             tokens == Most(y.tokens, Off + Take)
  <1>1. y \in LayerPart /\ NextWrite \in Nat
    BY ChunkAt, ClaimedIs, SMTT(60) DEF StoreInv, NextWrite, StoreTypes
  <1>2. Base(At, p, readOk) \in Rows
    <2>1. Blank \in Rows
      BY DEF Blank, Rows
    <2> HIDE DEF y
    <2>2. y.ram \in Rows \cup {None} /\ y.nvme \in Rows \cup {None}
      BY <1>1 DEF LayerPart
    <2>3. Base(At, p, readOk) = IF y.ram # None THEN y.ram
                                ELSE IF y.nvme # None /\ readOk THEN y.nvme ELSE Blank
      BY DEF Base, y
    <2> QED
      BY <2>1, <2>2, <2>3
  <1>3. ram \in Rows
    BY <1>1, <1>2 DEF Rows
  <1>4. ram # None
    BY <1>3, StoreAssumption DEF Rows
  <1>5. tokens \in 0 .. BT
    <2>1. Off + Take \in 0 .. BT /\ y.tokens \in 0 .. BT
      BY <1>1, ChunkAt DEF LayerPart
    <2> HIDE DEF y
    <2> QED
      BY <2>1 DEF Most
  <1>6. Put(At, p, Off, Take, readOk) = [y EXCEPT !.ram = ram, !.nvme = None, !.tokens = tokens]
    BY DEF Put
  <1> HIDE DEF y, ram, tokens
  <1>7. LET x == Put(At, p, Off, Take, readOk)
        IN /\ x \in LayerPart /\ x.nvme = None /\ x.flushing = y.flushing
           /\ x.tokens = tokens /\ x.ram = ram
    BY <1>1, <1>3, <1>5, <1>6 DEF LayerPart
  <1> QED
    BY <1>4, <1>7 DEF y, ram, tokens

\* The block with its rows, and the mean each writer keeps.
LEMMA CountedIs ==
  ASSUME StoreInv, op.kind \in WriteKinds, NEW readOk \in BOOLEAN
  PROVE  LET x == Counted(op.kind, readOk)
             y == blk[At]
         IN /\ x \in LayerBlk /\ x.n = Most(y.n, Off + Take)
            /\ \A p \in Part : x.part[p] = IF p \in Parts(op.kind) THEN Put(At, p, Off, Take, readOk)
                                           ELSE y.part[p]
            /\ op.kind = "tokens" =>
                 /\ x.sum = (LET rows == {<<o, NextWrite>> : o \in Off .. Off + Take - 1}
                             IN IF Off = 0 THEN rows ELSE y.sum \cup rows)
                 /\ x.meanTokens = IF Off = 0 THEN Take ELSE Most(y.meanTokens, Off + Take)
            /\ op.kind = "tokens_f16" =>
                 /\ x.sum = {<<o, x.part["K"].ram[o]>> : o \in 0 .. x.n - 1}
                 /\ x.meanTokens = x.n
            /\ op.kind \notin {"tokens", "tokens_f16"} =>
                 x.sum = y.sum /\ x.meanTokens = y.meanTokens
  <1> DEFINE kind == op.kind
             y == blk[At]
             f == Filled(kind, readOk)
             x == Counted(kind, readOk)
             parts == [p \in Part |-> IF p \in Parts(kind) THEN Put(At, p, Off, Take, readOk)
                                      ELSE y.part[p]]
             n == Most(y.n, Off + Take)
  <1>1. /\ y \in LayerBlk /\ NextWrite \in Nat /\ \A p \in Part : y.part[p] \in LayerPart
        /\ BT \in Nat \ {0} /\ Off \in Nat /\ Take \in Nat /\ 1 <= Take /\ Off + Take <= BT
    BY ChunkAt, ClaimedIs DEF StoreInv, NextWrite, StoreTypes
  <1>2. parts \in [Part -> LayerPart]
    BY <1>1, PutIs
  <1>3. f = [y EXCEPT !.part = parts, !.n = n]
    BY DEF Filled
  <1>4. x = WriteMean(kind, f, Off, Take)
    BY DEF Counted
  <1>5. kind \in Kinds /\ kind \in WriteKinds
    BY DEF StoreInv, OpSafe
  <1> HIDE DEF y, f, x, parts
  <1>6. n \in 0 .. BT /\ n > 0
    BY <1>1 DEF Most, LayerBlk
  <1> HIDE DEF n
  <1>7. f \in LayerBlk /\ f.part = parts /\ f.n = n /\ f.sum = y.sum /\ f.meanTokens = y.meanTokens
    BY <1>1, <1>2, <1>3, <1>6 DEF LayerBlk
  <1>8. CASE kind = "tokens"
    <2> DEFINE rows == {<<o, NextWrite>> : o \in Off .. Off + Take - 1}
               sum == IF Off = 0 THEN rows ELSE f.sum \cup rows
               m == IF Off = 0 THEN Take ELSE Most(f.meanTokens, Off + Take)
    <2>1. x = [f EXCEPT !.sum = sum, !.meanTokens = m]
      BY <1>4, <1>8 DEF WriteMean, AddMean
    <2>2. rows \subseteq Offsets \X Nat
      BY <1>1 DEF Offsets
    <2>3. sum \in SUBSET (Offsets \X Nat)
      BY <1>7, <2>2 DEF LayerBlk
    <2>4. m \in 0 .. BT
      BY <1>1, <1>7 DEF LayerBlk, Most
    <2> HIDE DEF sum, m
    <2>5. x \in LayerBlk /\ x.part = parts /\ x.n = n /\ x.sum = sum /\ x.meanTokens = m
      BY <1>7, <2>1, <2>3, <2>4 DEF LayerBlk
    <2> QED
      BY <1>7, <1>8, <2>5 DEF kind, y, x, n, parts, sum, m
  <1>9. CASE kind = "tokens_f16"
    <2> DEFINE sum == {<<o, f.part["K"].ram[o]>> : o \in 0 .. f.n - 1}
    <2>1. family = "f16" /\ "K" \in Part /\ "K" \in Parts(kind)
      BY <1>5, <1>9 DEF Kinds, Part, Parts
    <2>2. f.part["K"] \in LayerPart /\ f.part["K"].ram # None /\ f.n # 0
      <3>1. f.part["K"] = Put(At, "K", Off, Take, readOk)
        BY <1>7, <2>1 DEF parts
      <3>2. f.part["K"] \in LayerPart /\ f.part["K"].ram # None
        BY <2>1, <3>1, PutIs
      <3>3. f.n # 0
        BY <1>6, <1>7
      <3> QED
        BY <3>2, <3>3
    <2>3. x = [f EXCEPT !.sum = sum, !.meanTokens = f.n]
      BY <1>4, <1>9, <2>1, <2>2 DEF WriteMean, CaptureMean
    <2>4. sum \in SUBSET (Offsets \X Nat)
      <3> SUFFICES ASSUME NEW o \in 0 .. f.n - 1
                   PROVE  o \in Offsets /\ f.part["K"].ram[o] \in Nat
        OBVIOUS
      <3>1. f.part["K"].ram \in Rows /\ o \in Offsets
        BY <1>1, <1>6, <1>7, <2>2 DEF LayerPart, Offsets
      <3> QED
        BY <3>1 DEF Rows
    <2> HIDE DEF sum
    <2>5. x \in LayerBlk /\ x.part = f.part /\ x.n = f.n /\ x.sum = sum /\ x.meanTokens = x.n
      BY <1>6, <1>7, <2>3, <2>4 DEF LayerBlk
    <2>6. x.sum = {<<o, x.part["K"].ram[o]>> : o \in 0 .. x.n - 1}
      BY <2>5 DEF sum
    <2>7. x.part = parts /\ x.n = n
      BY <1>7, <2>5
    <2> QED
      BY <1>9, <2>5, <2>6, <2>7 DEF kind, y, x, n, parts
  <1>10. CASE kind \notin {"tokens", "tokens_f16"}
    <2>1. x = f
      BY <1>4, <1>10 DEF WriteMean
    <2> QED
      BY <1>7, <1>10, <2>1 DEF kind, y, x, n, parts
  <1> QED
    BY <1>8, <1>9, <1>10

\* The block and the queue after the flushes.
LEMMA OutcomeIs ==
  ASSUME StoreInv, op.kind \in WriteKinds, NEW readOk \in BOOLEAN,
         \A p \in Parts(op.kind) : ~blk[At].part[p].flushing
  PROVE  LET st == Outcome(op.kind, readOk)
         IN st \in States /\ Queued(st, At) /\ SameRows(st.x, Counted(op.kind, readOk))
  <1> DEFINE x == Counted(op.kind, readOk)
             st0 == Start(op.kind, readOk)
             st1 == AfterK(op.kind, readOk)
             st2 == Outcome(op.kind, readOk)
  <1>1. /\ x \in LayerBlk /\ At \in Blocks
        /\ \A p \in Part : x.part[p] = IF p \in Parts(op.kind) THEN Put(At, p, Off, Take, readOk)
                                       ELSE blk[At].part[p]
    BY CountedIs, ChunkAt
  <1>2. \A p \in Part : x.part[p].flushing = blk[At].part[p].flushing
    BY <1>1, PutIs, ZenonT(60)
  <1>3. st0.x = x /\ st0.q = q /\ st0.placed = placed /\ st0 \in States
    <2>1. q \in Seq(Jobs) /\ placed \subseteq Jobs
      BY DEF StoreInv, StoreTypes
    <2> HIDE DEF x
    <2> QED
      BY <1>1, <2>1 DEF Start, States, x
  <1> HIDE DEF x, st0, st1, st2
  <1>4. Queued(st0, At) /\ SameRows(st0.x, x)
    <2>1. MarkedWith(x, At) = Marked
      <3>1. \A y \in Marked : y[1] \in Blocks /\ y[2] \in Part /\ y = <<y[1], y[2]>>
        BY DEF Marked, Jobs
      <3>2. \A p \in Part : <<At, p>> \in Marked <=> x.part[p].flushing
        BY <1>1, <1>2, MarkedIs
      <3> QED
        BY <3>1, <3>2 DEF MarkedWith
    <2>2. \A p \in Part : x.part[p].flushing => x.part[p].ram # None
      <3> TAKE p \in Part
      <3>1. CASE p \in Parts(op.kind)
        BY <1>2, <3>1
      <3>2. CASE p \notin Parts(op.kind)
        <4>1. x.part[p] = blk[At].part[p]
          BY <1>1, <3>2
        <4>2. blk[At].part[p].flushing => blk[At].part[p].ram # None
          <5>1. <<At, p>> \in Marked => blk[At].part[p].ram # None
            BY DEF StoreInv, QueueSafe
          <5> QED
            BY <1>1, <5>1, MarkedIs
        <4> QED
          BY <4>1, <4>2
      <3> QED
        BY <3>1, <3>2
    <2>3. Waits(q, batch, Marked) /\ Marked \subseteq placed
      BY DEF StoreInv, QueueSafe
    <2> QED
      BY <1>3, <2>1, <2>2, <2>3 DEF Queued, SameRows
  <1>5. st1 \in States /\ Queued(st1, At) /\ SameRows(st1.x, st0.x)
    <2>1. CASE "K" \in Parts(op.kind)
      <3>1. st1 = Flush(st0, At, "K") /\ "K" \in Part
        BY <2>1 DEF AfterK, st0, st1, Part
      <3> QED
        BY <1>1, <1>3, <1>4, <3>1, FlushIs DEF StoreInv
    <2>2. CASE "K" \notin Parts(op.kind)
      <3>1. st1 = st0
        BY <2>2 DEF AfterK, st0, st1
      <3> QED
        BY <1>3, <1>4, <3>1 DEF SameRows
    <2> QED
      BY <2>1, <2>2
  <1>6. st2 \in States /\ Queued(st2, At) /\ SameRows(st2.x, st1.x)
    <2>1. CASE "V" \in Parts(op.kind)
      <3>1. st2 = Flush(st1, At, "V") /\ "V" \in Part
        BY <2>1 DEF Outcome, st1, st2, Part
      <3> QED
        BY <1>1, <1>5, <3>1, FlushIs DEF StoreInv
    <2>2. CASE "V" \notin Parts(op.kind)
      <3>1. st2 = st1
        BY <2>2 DEF Outcome, st1, st2
      <3> QED
        BY <1>5, <3>1 DEF SameRows
    <2> QED
      BY <2>1, <2>2
  <1>7. SameRows(st2.x, x)
    BY <1>4, <1>5, <1>6, SameRowsTwice
  <1> QED
    BY <1>6, <1>7 DEF st2, x

\* What one step of a write does, with the blocks the writer thread may be
\* reading left alone.
LEMMA ChunkIs ==
  ASSUME StoreInv, NEW kind \in WriteKinds, NEW readOk \in BOOLEAN, WriteChunk(kind, readOk)
  PROVE  LET st == Outcome(kind, readOk)
             read == {p \in Parts(kind) : blk[At].part[p].ram = None /\ blk[At].part[p].nvme # None}
         IN /\ op.kind = kind /\ ~stop
            /\ \A p \in Parts(kind) : ~blk[At].part[p].flushing
            /\ written' = NextWrite
            /\ blk' = [blk EXCEPT ![At] = st.x] /\ size' = Most(size, At + 1)
            /\ q' = st.q /\ placed' = st.placed
            /\ io' = io \/ (io = "asleep" /\ io' = "wait")
            /\ truth' = [p \in Part |-> [i \in Positions |->
                   IF p \in Parts(kind) /\ i \in op.pos .. op.pos + Take - 1 THEN NextWrite
                   ELSE truth[p][i]]]
            /\ meanTruth' = [i \in Positions |->
                   IF kind \in {"tokens", "tokens_f16"} /\ i \in op.pos .. op.pos + Take - 1
                   THEN NextWrite ELSE meanTruth[i]]
            /\ lost' = (IF readOk THEN lost ELSE lost \cup {<<At, p>> : p \in read})
            /\ faults' \in Nat
            /\ \/ op' = Idle
               \/ op.pos + Take # op.end /\ op' = [op EXCEPT !.pos = @ + Take]
            /\ UNCHANGED <<family, batch, slab, ioError, stop, saved>>
  <1>1. op.kind = kind
    BY DEF WriteChunk
  <1>2. ~stop /\ faults \in Nat
    BY <1>1 DEF StoreInv, QueueSafe, WriteKinds, StoreTypes
  <1> DEFINE st == Outcome(kind, readOk)
             read == {p \in Parts(kind) : blk[At].part[p].ram = None /\ blk[At].part[p].nvme # None}
  <1>3. /\ \A p \in Parts(kind) : ~blk[At].part[p].flushing
        /\ written' = NextWrite
        /\ blk' = [blk EXCEPT ![At] = st.x] /\ size' = Most(size, At + 1)
        /\ q' = st.q /\ placed' = st.placed
        /\ io' = IF st.q # q /\ io = "asleep" THEN "wait" ELSE io
        /\ truth' = [p \in Part |-> [i \in Positions |->
               IF p \in Parts(kind) /\ i \in op.pos .. op.pos + Take - 1 THEN NextWrite
               ELSE truth[p][i]]]
        /\ meanTruth' = [i \in Positions |->
               IF kind \in {"tokens", "tokens_f16"} /\ i \in op.pos .. op.pos + Take - 1
               THEN NextWrite ELSE meanTruth[i]]
        /\ IF readOk THEN UNCHANGED <<faults, lost>>
           ELSE faults' = faults + 1 /\ lost' = lost \cup {<<At, p>> : p \in read}
        /\ IF st.thrown \/ op.pos + Take = op.end THEN Finish
           ELSE op' = [op EXCEPT !.pos = @ + Take] /\ mu' = "owner"
        /\ UNCHANGED <<family, batch, slab, ioError, stop, saved>>
    BY Zenon DEF WriteChunk, Outcome, AfterK, Start, Counted, Filled, At, Off, Take
  <1> HIDE DEF st, read
  <1>4. \/ op' = Idle
        \/ op.pos + Take # op.end /\ op' = [op EXCEPT !.pos = @ + Take]
    BY <1>3 DEF Finish
  <1>5. /\ lost' = (IF readOk THEN lost ELSE lost \cup {<<At, p>> : p \in read})
        /\ faults' \in Nat
    BY <1>2, <1>3
  <1>6. io' = io \/ (io = "asleep" /\ io' = "wait")
    BY <1>3
  <1> QED
    BY <1>1, <1>2, <1>3, <1>4, <1>5, <1>6 DEF st, read

LEMMA ChunkBlocks ==
  ASSUME StoreInv, NEW kind \in WriteKinds, NEW readOk \in BOOLEAN, WriteChunk(kind, readOk)
  PROVE  LET new == blk'[At]
             y == blk[At]
         IN /\ op.kind = kind /\ \A c \in Blocks : c # At => blk'[c] = blk[c]
            /\ new \in LayerBlk /\ new.n = Most(y.n, Off + Take)
            /\ blk' \in [Blocks -> LayerBlk]
            /\ \A p \in Parts(kind) :
                 /\ new.part[p].tokens = Most(y.part[p].tokens, Off + Take)
                 /\ new.part[p].nvme = None /\ new.part[p].ram # None
                 /\ new.part[p].ram = [o \in Offsets |-> IF o \in Off .. Off + Take - 1 THEN NextWrite
                                                         ELSE Base(At, p, readOk)[o]]
            /\ \A p \in Part \ Parts(kind) :
                 /\ new.part[p].tokens = y.part[p].tokens
                 /\ new.part[p].nvme = y.part[p].nvme /\ new.part[p].ram = y.part[p].ram
            /\ kind = "tokens" =>
                 /\ new.sum = (LET rows == {<<o, NextWrite>> : o \in Off .. Off + Take - 1}
                               IN IF Off = 0 THEN rows ELSE y.sum \cup rows)
                 /\ new.meanTokens = IF Off = 0 THEN Take ELSE Most(y.meanTokens, Off + Take)
            /\ kind = "tokens_f16" =>
                 /\ new.sum = {<<o, new.part["K"].ram[o]>> : o \in 0 .. new.n - 1}
                 /\ new.meanTokens = new.n
            /\ kind \notin {"tokens", "tokens_f16"} =>
                 new.sum = y.sum /\ new.meanTokens = y.meanTokens
  <1> DEFINE st == Outcome(kind, readOk)
             x == Counted(kind, readOk)
             y == blk[At]
             new == blk'[At]
  <1>1. /\ op.kind = kind /\ blk' = [blk EXCEPT ![At] = st.x]
        /\ \A p \in Parts(kind) : ~blk[At].part[p].flushing
    BY ChunkIs
  <1>2. st \in States /\ SameRows(st.x, x)
    BY <1>1, OutcomeIs
  <1>3. blk \in [Blocks -> LayerBlk] /\ At \in Blocks
    BY <1>1, ChunkAt DEF StoreInv, StoreTypes
  <1> HIDE DEF st
  <1>4. /\ new = st.x /\ new \in LayerBlk /\ blk' \in [Blocks -> LayerBlk]
        /\ \A c \in Blocks : c # At => blk'[c] = blk[c]
    BY <1>1, <1>2, <1>3 DEF States
  <1>5. /\ x.n = Most(y.n, Off + Take)
        /\ \A p \in Part : x.part[p] = IF p \in Parts(kind) THEN Put(At, p, Off, Take, readOk)
                                       ELSE y.part[p]
        /\ kind = "tokens" =>
             /\ x.sum = (LET rows == {<<o, NextWrite>> : o \in Off .. Off + Take - 1}
                         IN IF Off = 0 THEN rows ELSE y.sum \cup rows)
             /\ x.meanTokens = IF Off = 0 THEN Take ELSE Most(y.meanTokens, Off + Take)
        /\ kind = "tokens_f16" =>
             /\ x.sum = {<<o, x.part["K"].ram[o]>> : o \in 0 .. x.n - 1}
             /\ x.meanTokens = x.n
        /\ kind \notin {"tokens", "tokens_f16"} => x.sum = y.sum /\ x.meanTokens = y.meanTokens
    BY <1>1, CountedIs, ZenonT(60)
  <1>6. Parts(kind) \subseteq Part /\ "K" \in Part
    BY <1>1, KindsAre DEF StoreInv, OpSafe, Part
  <1> HIDE DEF x, y, new
  <1>7. /\ new.n = x.n /\ new.sum = x.sum /\ new.meanTokens = x.meanTokens
        /\ \A p \in Part : /\ new.part[p].ram = x.part[p].ram
                           /\ new.part[p].nvme = x.part[p].nvme
                           /\ new.part[p].tokens = x.part[p].tokens
    BY <1>2, <1>4 DEF SameRows
  <1>8. \A p \in Parts(kind) :
          /\ new.part[p].tokens = Most(y.part[p].tokens, Off + Take)
          /\ new.part[p].nvme = None /\ new.part[p].ram # None
          /\ new.part[p].ram = [o \in Offsets |-> IF o \in Off .. Off + Take - 1 THEN NextWrite
                                                  ELSE Base(At, p, readOk)[o]]
    <2> TAKE p \in Parts(kind)
    <2>1. x.part[p] = Put(At, p, Off, Take, readOk)
      BY <1>5, <1>6
    <2> QED
      BY <1>1, <1>6, <1>7, <2>1, PutIs DEF y
  <1>9. \A p \in Part \ Parts(kind) :
          /\ new.part[p].tokens = y.part[p].tokens
          /\ new.part[p].nvme = y.part[p].nvme /\ new.part[p].ram = y.part[p].ram
    BY <1>5, <1>7
  <1>10. kind = "tokens_f16" =>
           /\ new.sum = {<<o, new.part["K"].ram[o]>> : o \in 0 .. new.n - 1}
           /\ new.meanTokens = new.n
    BY <1>5, <1>6, <1>7
  <1>11. new.n = Most(y.n, Off + Take)
    BY <1>5, <1>7
  <1>12. /\ kind = "tokens" =>
             /\ new.sum = (LET rows == {<<o, NextWrite>> : o \in Off .. Off + Take - 1}
                           IN IF Off = 0 THEN rows ELSE y.sum \cup rows)
             /\ new.meanTokens = IF Off = 0 THEN Take ELSE Most(y.meanTokens, Off + Take)
         /\ kind \notin {"tokens", "tokens_f16"} => new.sum = y.sum /\ new.meanTokens = y.meanTokens
    BY <1>5, <1>7
  <1> QED
    BY <1>1, <1>4, <1>8, <1>9, <1>10, <1>11, <1>12 DEF new, y

\* The positions a step writes are those of its run of rows.
LEMMA ChunkTruth ==
  ASSUME StoreInv, NEW kind \in WriteKinds, NEW readOk \in BOOLEAN, WriteChunk(kind, readOk),
         NEW c \in Blocks, NEW o \in Offsets
  PROVE  /\ \A p \in Part : truth'[p][c * BT + o] =
              IF p \in Parts(kind) /\ c = At /\ o \in Off .. Off + Take - 1 THEN NextWrite
              ELSE truth[p][c * BT + o]
         /\ meanTruth'[c * BT + o] =
              IF kind \in {"tokens", "tokens_f16"} /\ c = At /\ o \in Off .. Off + Take - 1
              THEN NextWrite ELSE meanTruth[c * BT + o]
  <1>1. /\ truth' = [p \in Part |-> [i \in Positions |->
              IF p \in Parts(kind) /\ i \in op.pos .. op.pos + Take - 1 THEN NextWrite
              ELSE truth[p][i]]]
        /\ meanTruth' = [i \in Positions |->
              IF kind \in {"tokens", "tokens_f16"} /\ i \in op.pos .. op.pos + Take - 1
              THEN NextWrite ELSE meanTruth[i]]
        /\ op.kind = kind
    BY ChunkIs
  <1>2. /\ op.pos = At * BT + Off /\ At \in Nat /\ Off \in Offsets
        /\ Take \in Nat /\ 1 <= Take /\ Off + Take <= BT
    BY <1>1, ChunkAt
  <1>3. c \in Nat /\ c * BT + o \in Positions
    <2>1. c \in Nat
      BY StoreAssumption DEF Blocks
    <2> QED
      BY <2>1, Inside
  <1>4. c * BT + o \in At * BT + Off .. At * BT + Off + Take - 1
          <=> c = At /\ o \in Off .. Off + Take - 1
    <2>1. /\ At \in Nat /\ Off \in Offsets /\ Take \in Nat /\ 1 <= Take /\ Off + Take <= BT
          /\ c \in Nat /\ o \in Offsets
      BY <1>2, <1>3
    <2> QED
      BY <2>1, Run, ZenonT(60)
  <1> DEFINE i == c * BT + o
             pos == op.pos
  <1>5. i \in pos .. pos + Take - 1 <=> c = At /\ o \in Off .. Off + Take - 1
    BY <1>2, <1>4
  <1> HIDE DEF i
  <1>6. i \in Positions
    BY <1>3 DEF i
  <1>7. /\ \A p \in Part : truth'[p][i] =
              IF p \in Parts(kind) /\ c = At /\ o \in Off .. Off + Take - 1 THEN NextWrite
              ELSE truth[p][i]
        /\ meanTruth'[i] =
              IF kind \in {"tokens", "tokens_f16"} /\ c = At /\ o \in Off .. Off + Take - 1
              THEN NextWrite ELSE meanTruth[i]
    BY <1>1, <1>5, <1>6
  <1> QED
    BY <1>7 DEF i

LEMMA ChunkTypes ==
  ASSUME StoreInv, NEW kind \in WriteKinds, NEW readOk \in BOOLEAN, WriteChunk(kind, readOk)
  PROVE  StoreTypes' /\ size <= size' /\ At < size' /\ (size' = size \/ size' = At + 1)
  <1> DEFINE st == Outcome(kind, readOk)
  <1>1. /\ op.kind = kind /\ size' = Most(size, At + 1) /\ q' = st.q /\ placed' = st.placed
        /\ io' = io \/ (io = "asleep" /\ io' = "wait")
        /\ \/ op' = Idle
           \/ op.pos + Take # op.end /\ op' = [op EXCEPT !.pos = @ + Take]
        /\ UNCHANGED <<family, batch, slab, ioError, stop, saved>>
    BY ChunkIs
  <1>2. st \in States
    BY <1>1, OutcomeIs, ChunkIs
  <1> HIDE DEF st
  <1>3. blk' \in [Blocks -> LayerBlk]
    BY ChunkBlocks
  <1>4. size' \in 0 .. NB /\ size <= size' /\ At < size' /\ (size' = size \/ size' = At + 1)
    <2>1. size \in 0 .. NB /\ At \in 0 .. NB - 1 /\ NB \in Nat
      BY <1>1, ChunkAt DEF StoreInv, StoreTypes, Blocks
    <2> QED
      BY <1>1, <2>1 DEF Most
  <1>5. op' \in [kind : OpKinds, pos : Nat, end : Nat]
    <2>1. op \in [kind : OpKinds, pos : Nat, end : Nat]
      BY DEF StoreInv, StoreTypes
    <2>3. op.pos + Take \in Nat
      BY <1>1, ChunkAt
    <2>2. Idle \in [kind : OpKinds, pos : Nat, end : Nat]
      BY DEF Idle, OpKinds
    <2> QED
      BY <1>1, <2>1, <2>2, <2>3
  <1>6. NextWrite \in Nat /\ written' = NextWrite
    BY ChunkIs DEF NextWrite, StoreInv, StoreTypes
  <1>7. truth' \in [Part -> [Positions -> Nat]] /\ meanTruth' \in [Positions -> Nat]
    <2>1. truth \in [Part -> [Positions -> Nat]] /\ meanTruth \in [Positions -> Nat]
      BY DEF StoreInv, StoreTypes
    <2>2. /\ truth' = [p \in Part |-> [i \in Positions |->
               IF p \in Parts(kind) /\ i \in op.pos .. op.pos + Take - 1 THEN NextWrite
               ELSE truth[p][i]]]
          /\ meanTruth' = [i \in Positions |->
               IF kind \in {"tokens", "tokens_f16"} /\ i \in op.pos .. op.pos + Take - 1
               THEN NextWrite ELSE meanTruth[i]]
      BY ChunkIs
    <2> QED
      BY <1>6, <2>1, <2>2
  <1>8. lost' \subseteq Jobs /\ faults' \in Nat
    <2>1. lost \subseteq Jobs /\ At \in Blocks /\ Parts(kind) \subseteq Part
      BY <1>1, ChunkAt, KindsAre DEF StoreInv, StoreTypes, OpSafe
    <2> QED
      BY <2>1, ChunkIs DEF Jobs
  <1>9. q' \in Seq(Jobs) /\ placed' \subseteq Jobs
    BY <1>1, <1>2 DEF States
  <1>10. io' \in {"wait", "tested", "asleep", "copy", "write", "ended"}
    BY <1>1 DEF StoreInv, StoreTypes
  <1>11. StoreTypes'
    BY <1>1, <1>3, <1>4, <1>5, <1>6, <1>7, <1>8, <1>9, <1>10 DEF StoreInv, StoreTypes
  <1> QED
    BY <1>4, <1>11

LEMMA ChunkQueue ==
  ASSUME StoreInv, NEW kind \in WriteKinds, NEW readOk \in BOOLEAN, WriteChunk(kind, readOk)
  PROVE  QueueSafe'
  <1> DEFINE st == Outcome(kind, readOk)
  <1>1. /\ op.kind = kind /\ ~stop /\ \A p \in Parts(kind) : ~blk[At].part[p].flushing
        /\ blk' = [blk EXCEPT ![At] = st.x] /\ q' = st.q /\ placed' = st.placed
        /\ io' = io \/ (io = "asleep" /\ io' = "wait")
        /\ op' = Idle \/ op' = [op EXCEPT !.pos = @ + Take]
        /\ UNCHANGED <<family, batch, slab, ioError, stop, saved>>
    BY ChunkIs
  <1>2. st \in States /\ Queued(st, At)
    BY <1>1, OutcomeIs
  <1> HIDE DEF st
  <1>3. blk'[At] = st.x /\ At \in Blocks /\ \A c \in Blocks : c # At => blk'[c] = blk[c]
    BY <1>1, ChunkAt DEF StoreInv, StoreTypes
  <1>4. Marked' = MarkedWith(st.x, At)
    <2>1. \A c \in Blocks, p \in Part : <<c, p>> \in Marked' <=> blk'[c].part[p].flushing
      BY DEF Marked, Jobs
    <2>2. \A c \in Blocks, p \in Part : <<c, p>> \in Marked <=> blk[c].part[p].flushing
      BY MarkedIs
    <2>3. \A c \in Blocks, p \in Part :
            <<c, p>> \in MarkedWith(st.x, At) <=>
              (IF c = At THEN st.x.part[p].flushing ELSE <<c, p>> \in Marked)
      BY DEF MarkedWith
    <2>4. \A c \in Blocks, p \in Part : <<c, p>> \in Marked' <=> <<c, p>> \in MarkedWith(st.x, At)
      BY <1>3, <2>1, <2>2, <2>3
    <2>5. Marked' \subseteq Jobs /\ MarkedWith(st.x, At) \subseteq Jobs
      BY <1>3 DEF Marked, MarkedWith, Jobs
    <2>6. \A y \in Jobs : y[1] \in Blocks /\ y[2] \in Part /\ y = <<y[1], y[2]>>
      BY DEF Jobs
    <2>7. \A y \in Jobs : y \in Marked' <=> y \in MarkedWith(st.x, At)
      BY <2>4, <2>6
    <2> QED
      BY <2>5, <2>7
  <1>5. Waits(q', batch, Marked') /\ Marked' \subseteq placed'
    BY <1>1, <1>2, <1>4 DEF Queued
  <1>6. \A x \in Marked' : blk'[x[1]].part[x[2]].ram # None
    <2>1. \A x \in Marked : blk[x[1]].part[x[2]].ram # None
      BY DEF StoreInv, QueueSafe
    <2>2. \A p \in Part : st.x.part[p].flushing => st.x.part[p].ram # None
      BY <1>2 DEF Queued
    <2>3. \A x \in Marked : x[1] \in Blocks
      BY DEF Marked, Jobs
    <2>4. \A x \in Marked' : (x \in Marked /\ x[1] # At) \/ \E p \in Part : x = <<At, p>> /\ st.x.part[p].flushing
      BY <1>4 DEF MarkedWith
    <2> QED
      BY <1>3, <2>1, <2>2, <2>3, <2>4
  <1>7. \A x \in Marked : blk'[x[1]].part[x[2]].ram = blk[x[1]].part[x[2]].ram
    <2> TAKE x \in Marked
    <2>1. x[1] \in Blocks /\ x[2] \in Part /\ blk[x[1]].part[x[2]].flushing
      BY DEF Marked, Jobs
    <2>2. CASE x[1] # At
      BY <1>3, <2>1, <2>2
    <2>3. CASE x[1] = At
      <3>1. x[2] \in Part \ Parts(kind)
        BY <1>1, <2>1, <2>3
      <3>2. \A p \in Part \ Parts(kind) : blk'[At].part[p].ram = blk[At].part[p].ram
        BY ChunkBlocks, ZenonT(60)
      <3> QED
        BY <2>3, <3>1, <3>2
    <2> QED
      BY <2>2, <2>3
  <1>8. ~stop' /\ op'.kind \notin {"notify", "join", "gone"}
    <2>1. op \in [kind : OpKinds, pos : Nat, end : Nat]
      BY DEF StoreInv, StoreTypes
    <2> QED
      BY <1>1, <2>1 DEF Idle, WriteKinds
  <1>9. io' # "ended"
    BY <1>1 DEF StoreInv, QueueSafe
  <1>10. UNCHANGED <<batch, slab>>
    BY <1>1
  <1> QED
    BY <1>1, <1>5, <1>6, <1>7, <1>8, <1>9, <1>10, QueueKept DEF StoreInv

LEMMA ChunkRows ==
  ASSUME StoreInv, NEW kind \in WriteKinds, NEW readOk \in BOOLEAN, WriteChunk(kind, readOk)
  PROVE  RowsSafe'
  <1>1. /\ op.kind = kind /\ family' = family /\ kind \in Kinds
        /\ family \in {"packed", "f16", "rows"}
    BY ChunkIs DEF StoreInv, StoreTypes, OpSafe
  <1>0. PICK b : b = At
    OBVIOUS
  <1>2. /\ b \in Blocks /\ b \in Nat /\ Off \in Nat /\ Off < BT /\ BT \in Nat \ {0}
        /\ Take \in Nat /\ 1 <= Take /\ Off + Take <= BT
    BY <1>0, <1>1, ChunkAt
  <1>3. /\ \A c \in Blocks : c # b => blk'[c] = blk[c]
        /\ \A p \in Parts(kind) :
             /\ blk'[b].part[p].ram # None
             /\ blk'[b].part[p].tokens = Most(blk[b].part[p].tokens, Off + Take)
             /\ blk'[b].part[p].ram = [o \in Offsets |-> IF o \in Off .. Off + Take - 1 THEN NextWrite
                                                         ELSE Base(b, p, readOk)[o]]
        /\ blk'[b].n = Most(blk[b].n, Off + Take)
        /\ \A p \in Part \ Parts(kind) :
             /\ blk'[b].part[p].tokens = blk[b].part[p].tokens
             /\ blk'[b].part[p].nvme = blk[b].part[p].nvme /\ blk'[b].part[p].ram = blk[b].part[p].ram
    <2>1. /\ \A c \in Blocks : c # At => blk'[c] = blk[c]
          /\ blk'[At].n = Most(blk[At].n, Off + Take)
      BY ChunkBlocks, ZenonT(60)
    <2>2. \A p \in Parts(kind) :
             /\ blk'[At].part[p].tokens = Most(blk[At].part[p].tokens, Off + Take)
             /\ blk'[At].part[p].nvme = None /\ blk'[At].part[p].ram # None
             /\ blk'[At].part[p].ram = [o \in Offsets |-> IF o \in Off .. Off + Take - 1 THEN NextWrite
                                                          ELSE Base(At, p, readOk)[o]]
      BY ChunkBlocks, ZenonT(60)
    <2>3. \A p \in Part \ Parts(kind) :
             /\ blk'[At].part[p].tokens = blk[At].part[p].tokens
             /\ blk'[At].part[p].nvme = blk[At].part[p].nvme /\ blk'[At].part[p].ram = blk[At].part[p].ram
      BY ChunkBlocks, ZenonT(60)
    <2> QED
      BY <1>0, <2>1, <2>2, <2>3
  <1>4. size <= size' /\ b < size' /\ size \in Nat /\ size' \in Nat
    BY <1>0, ChunkTypes, StoreAssumption DEF StoreInv, StoreTypes
  <1>5. lost \subseteq lost'
    BY ChunkIs
  <1>6. \A p \in Parts(kind) : /\ p \in Part /\ Used(p)
                               /\ Off <= Claimed(b, p)
    <2>1. kind \in WriteKinds /\ Parts(kind) \subseteq Part
      BY <1>1, KindsAre DEF StoreInv
    <2>2. \A p \in Parts(kind) : Off <= Claimed(b, p)
      BY <1>0, <1>1, <2>1 DEF StoreInv, OpSafe, At, Off
    <2>3. \A p \in Parts(kind) : Used(p)
      BY <1>1 DEF Used, Kinds, Parts
    <2> QED
      BY <2>1, <2>2, <2>3
  <1>7. \A c \in Blocks : c \in Nat
    BY StoreAssumption DEF Blocks
  <1>8. \A c \in Blocks, p \in Part : Claimed(c, p) \in 0 .. BT
    BY ClaimedIs DEF StoreInv
  <1>9. ASSUME NEW c \in Blocks, NEW p \in Part, c # b \/ p \notin Parts(kind)
        PROVE  /\ Content(c, p)' = Content(c, p)
               /\ Claimed(c, p)' = Claimed(c, p) \/ ~Used(p)
               /\ \A o \in Offsets : truth'[p][c * BT + o] = truth[p][c * BT + o]
    <2>1. Content(c, p)' = Content(c, p)
      BY <1>3, <1>9 DEF Content
    <2>2. \A o \in Offsets : truth'[p][c * BT + o] = truth[p][c * BT + o]
      BY <1>0, <1>9, ChunkTruth
    <2>3. CASE c # b
      BY <1>1, <1>3, <2>1, <2>2, <2>3 DEF Claimed
    <2>4. CASE c = b /\ p \notin Parts(kind) /\ family = "packed"
      BY <1>1, <1>3, <2>1, <2>2, <2>4 DEF Claimed
    <2>5. CASE c = b /\ p \notin Parts(kind) /\ family # "packed"
      <3>1. CASE family = "f16"
        <4>1. Parts(kind) = {"K", "V"}
          BY <1>1, <3>1 DEF Kinds, Parts
        <4> QED
          BY <2>5, <4>1 DEF Part
      <3>2. CASE family = "rows"
        <4>1. Parts(kind) = {"K"}
          BY <1>1, <3>2 DEF Kinds, Parts
        <4> QED
          BY <2>1, <2>2, <2>5, <3>2, <4>1 DEF Used
      <3> QED
        BY <1>1, <2>5, <3>1, <3>2
    <2> QED
      BY <1>9, <2>3, <2>4, <2>5
  <1>10. ASSUME NEW p \in Parts(kind)
         PROVE  /\ Claimed(b, p)' = Most(Claimed(b, p), Off + Take)
                /\ Content(b, p)' # None
                /\ Content(b, p)' = [o \in Offsets |-> IF o \in Off .. Off + Take - 1 THEN NextWrite
                                                        ELSE Base(b, p, readOk)[o]]
    BY <1>1, <1>3, <1>10 DEF Claimed, Content
  <1>11. ASSUME NEW p \in Parts(kind), NEW o \in Offsets, o < Claimed(b, p), ~(o \in Off .. Off + Take - 1)
         PROVE  \/ Base(b, p, readOk)[o] = truth[p][b * BT + o]
                \/ Base(b, p, readOk)[o] = 0 /\ <<b, p>> \in lost'
    <2> DEFINE y == blk[b].part[p]
    <2>1. p \in Part /\ Used(p) /\ o \in 0 .. Claimed(b, p) - 1 /\ Claimed(b, p) > 0
      BY <1>2, <1>6, <1>8, <1>11 DEF Offsets
    <2>2. Blank[o] = 0
      BY DEF Blank
    <2>3. Base(b, p, readOk) = IF y.ram # None THEN y.ram
                                ELSE IF y.nvme # None /\ readOk THEN y.nvme ELSE Blank
      BY DEF Base
    <2>4. Content(b, p) = IF y.ram # None THEN y.ram ELSE y.nvme
      BY DEF Content
    <2>5. y.ram = None /\ y.nvme # None /\ ~readOk => <<b, p>> \in lost'
      BY <1>0, ChunkIs
    <2> HIDE DEF y
    <2>6. CASE Content(b, p) = None
      <3>1. <<b, p>> \in lost'
        BY <1>2, <1>5, <2>1, <2>6 DEF StoreInv, RowsSafe
      <3> QED
        BY <2>2, <2>3, <2>4, <2>6, <3>1
    <2>7. CASE Content(b, p) # None
      <3>1. Content(b, p)[o] = truth[p][b * BT + o] \/ (Content(b, p)[o] = 0 /\ <<b, p>> \in lost)
        BY <1>2, <2>1, <2>7 DEF StoreInv, RowsSafe, RowsTrue
      <3> QED
        BY <1>5, <2>2, <2>3, <2>4, <2>5, <2>7, <3>1
    <2> QED
      BY <2>6, <2>7
  <1>12. ASSUME NEW p \in Parts(kind), NEW o \in 0 .. Claimed(b, p)' - 1
         PROVE  \/ Content(b, p)'[o] = truth'[p][b * BT + o]
                \/ Content(b, p)'[o] = 0 /\ <<b, p>> \in lost'
    <2>1. p \in Part /\ Off <= Claimed(b, p) /\ Claimed(b, p) \in 0 .. BT
      BY <1>2, <1>6, <1>8
    <2>2. o \in Offsets /\ (o \in Off .. Off + Take - 1 \/ o < Claimed(b, p))
      <3> DEFINE n == Claimed(b, p)
      <3>1. o \in 0 .. Most(n, Off + Take) - 1 /\ n \in 0 .. BT /\ Off <= n
        BY <1>10, <1>12, <2>1
      <3> HIDE DEF n
      <3>2. o \in Offsets /\ (o \in Off .. Off + Take - 1 \/ o < n)
        BY <1>2, <3>1 DEF Most, Offsets
      <3> QED
        BY <3>2 DEF n
    <2>3. CASE o \in Off .. Off + Take - 1
      <3>1. truth'[p][b * BT + o] = NextWrite
        BY <1>0, <1>2, <2>1, <2>2, <2>3, ChunkTruth
      <3> QED
        BY <1>10, <2>2, <2>3, <3>1
    <2>4. CASE ~(o \in Off .. Off + Take - 1)
      <3>1. truth'[p][b * BT + o] = truth[p][b * BT + o]
        BY <1>0, <1>2, <2>1, <2>2, <2>4, ChunkTruth
      <3>2. Content(b, p)'[o] = Base(b, p, readOk)[o]
        BY <1>10, <2>2, <2>4
      <3> QED
        BY <1>11, <2>2, <2>4, <3>1, <3>2
    <2> QED
      BY <2>3, <2>4
  <1>13. ASSUME NEW c \in Blocks, NEW p \in Part, Content(c, p)' # None
         PROVE  RowsTrue(c, p)'
    <2>1. CASE c = b /\ p \in Parts(kind)
      BY <1>12, <2>1 DEF RowsTrue
    <2>2. CASE c # b \/ p \notin Parts(kind)
      <3>1. Content(c, p)' = Content(c, p) /\ Content(c, p) # None /\ Used(p)
        BY <1>9, <1>13, <2>2 DEF StoreInv, RowsSafe
      <3>2. Claimed(c, p)' = Claimed(c, p) /\ RowsTrue(c, p)
        BY <1>9, <2>2, <3>1 DEF StoreInv, RowsSafe
      <3>3. \A o \in 0 .. Claimed(c, p) - 1 : truth'[p][c * BT + o] = truth[p][c * BT + o]
        <4> TAKE o \in 0 .. Claimed(c, p) - 1
        <4>1. o \in Offsets
          BY <1>2, <1>8 DEF Offsets
        <4> QED
          BY <1>9, <2>2, <4>1
      <3> QED
        BY <1>5, <3>1, <3>2, <3>3 DEF RowsTrue
    <2> QED
      BY <2>1, <2>2
  <1>14. ASSUME NEW c \in Blocks, NEW p \in Part, Used(p), Claimed(c, p)' > 0, Content(c, p)' = None
         PROVE  <<c, p>> \in lost'
    <2>1. c # b \/ p \notin Parts(kind)
      BY <1>10, <1>14
    <2>2. Claimed(c, p) > 0 /\ Content(c, p) = None
      BY <1>9, <1>14, <2>1
    <2> QED
      BY <1>5, <1>14, <2>2 DEF StoreInv, RowsSafe
  <1>15. ASSUME NEW c \in Blocks, NEW p \in Part, ~Used(p)
         PROVE  Content(c, p)' = None
    <2>1. p \notin Parts(kind)
      BY <1>6, <1>15
    <2> QED
      BY <1>9, <1>15, <2>1 DEF StoreInv, RowsSafe
  <1>16. \A c \in Blocks : c >= size' => blk'[c] = Fresh
    BY <1>2, <1>3, <1>4, <1>7 DEF StoreInv, RowsSafe
  <1>17. \A p : Used(p)' <=> Used(p)
    BY <1>1 DEF Used
  <1> QED
    BY <1>13, <1>14, <1>15, <1>16, <1>17 DEF RowsSafe

\* K rows of a packed store are never read back.
LEMMA ChunkMeans ==
  ASSUME StoreInv, NEW kind \in WriteKinds, NEW readOk \in BOOLEAN, WriteChunk(kind, readOk),
         kind = "k_gpu" => readOk
  PROVE  MeansSafe'
  <1>1. /\ op.kind = kind /\ family' = family /\ kind \in Kinds
        /\ family \in {"packed", "f16", "rows"}
    BY ChunkIs DEF StoreInv, StoreTypes, OpSafe
  <1>0. PICK b : b = At
    OBVIOUS
  <1>2. /\ b \in Blocks /\ b \in Nat /\ Off \in Nat /\ Off < BT /\ BT \in Nat \ {0}
        /\ Take \in Nat /\ 1 <= Take /\ Off + Take <= BT
    BY <1>0, <1>1, ChunkAt
  <1>3. /\ \A c \in Blocks : c # b => blk'[c] = blk[c]
        /\ blk'[b].n = Most(blk[b].n, Off + Take)
        /\ kind = "tokens_f16" =>
             /\ blk'[b].sum = {<<o, blk'[b].part["K"].ram[o]>> : o \in 0 .. blk'[b].n - 1}
             /\ blk'[b].meanTokens = blk'[b].n
        /\ kind \notin {"tokens", "tokens_f16"} =>
             blk'[b].sum = blk[b].sum /\ blk'[b].meanTokens = blk[b].meanTokens
    <2>1. /\ \A c \in Blocks : c # At => blk'[c] = blk[c]
          /\ blk'[At].n = Most(blk[At].n, Off + Take)
      BY ChunkBlocks, ZenonT(60)
    <2>2. kind = "tokens_f16" =>
             /\ blk'[At].sum = {<<o, blk'[At].part["K"].ram[o]>> : o \in 0 .. blk'[At].n - 1}
             /\ blk'[At].meanTokens = blk'[At].n
      BY ChunkBlocks, ZenonT(60)
    <2>3. kind \notin {"tokens", "tokens_f16"} =>
             blk'[At].sum = blk[At].sum /\ blk'[At].meanTokens = blk[At].meanTokens
      BY ChunkBlocks, ZenonT(60)
    <2> QED
      BY <1>0, <2>1, <2>2, <2>3, ZenonT(60)
  <1>4. kind = "tokens" =>
          /\ blk'[b].sum = Added(blk[b].sum, Off, Take, NextWrite)
          /\ blk'[b].meanTokens = IF Off = 0 THEN Take ELSE Most(blk[b].meanTokens, Off + Take)
    <2>1. kind = "tokens" =>
             /\ blk'[At].sum = (LET rows == {<<o, NextWrite>> : o \in Off .. Off + Take - 1}
                                IN IF Off = 0 THEN rows ELSE blk[At].sum \cup rows)
             /\ blk'[At].meanTokens = IF Off = 0 THEN Take ELSE Most(blk[At].meanTokens, Off + Take)
      BY ChunkBlocks, ZenonT(60)
    <2> QED
      BY <1>0, <2>1, ZenonT(60) DEF Added
  <1>5. /\ size <= size' /\ (size' = size \/ size' = b + 1) /\ size \in Nat /\ size' \in Nat
        /\ lost \subseteq lost'
    <2>1. size <= size' /\ (size' = size \/ size' = b + 1) /\ StoreTypes'
      BY <1>0, ChunkTypes
    <2>2. size \in Nat /\ size' \in Nat
      BY <2>1, StoreAssumption DEF StoreInv, StoreTypes
    <2>3. lost \subseteq lost'
      BY ChunkIs
    <2> QED
      BY <2>1, <2>2, <2>3
  <1>6. \A c \in Blocks : /\ c \in Nat /\ blk[c].n \in 0 .. BT /\ blk[c].meanTokens \in 0 .. BT
    <2>1. \A c \in Blocks : c \in Nat
      BY StoreAssumption DEF Blocks
    <2>2. \A c \in Blocks : blk[c] \in LayerBlk
      BY DEF StoreInv, StoreTypes
    <2> QED
      BY <2>1, <2>2 DEF LayerBlk
  <1>7. ASSUME NEW c \in Blocks, NEW o \in Offsets
        PROVE  meanTruth'[c * BT + o] =
                 IF kind \in {"tokens", "tokens_f16"} /\ c = b /\ o \in Off .. Off + Take - 1
                 THEN NextWrite ELSE meanTruth[c * BT + o]
    BY <1>0, ChunkTruth
  <1>8. ASSUME NEW c \in Blocks, c # b \/ kind \notin {"tokens", "tokens_f16"}, <<c, "K">> \notin lost
        PROVE  blk'[c].sum = MeansNow(c, blk'[c].meanTokens)
    <2>1. blk[c].sum = {<<o, meanTruth[c * BT + o]>> : o \in 0 .. blk[c].meanTokens - 1}
      BY <1>8 DEF StoreInv, MeansSafe, MeansOf
    <2>2. blk'[c].sum = blk[c].sum /\ blk'[c].meanTokens = blk[c].meanTokens
      BY <1>3, <1>8
    <2>3. \A o \in 0 .. blk[c].meanTokens - 1 : meanTruth'[c * BT + o] = meanTruth[c * BT + o]
      <3> TAKE o \in 0 .. blk[c].meanTokens - 1
      <3>1. o \in Offsets
        BY <1>2, <1>6 DEF Offsets
      <3> QED
        BY <1>7, <1>8, <3>1
    <2>4. blk[c].sum = MeansNow(c, blk[c].meanTokens)
      BY <2>1, <2>3 DEF MeansNow
    <2> QED
      BY <2>2, <2>4
  <1>9. ASSUME kind = "tokens", <<b, "K">> \notin lost
        PROVE  /\ blk'[b].sum = MeansNow(b, blk'[b].meanTokens)
               /\ blk'[b].meanTokens = blk'[b].n
    <2>1. family = "f16" /\ blk[b].n = Off
      BY <1>0, <1>1, <1>9 DEF Kinds, StoreInv, OpSafe, At, Off
    <2>2. blk[b].meanTokens = Off /\ blk[b].sum = MeansOf(b, Off)
      BY <1>2, <1>9, <2>1 DEF StoreInv, MeansSafe
    <2>3. blk'[b].n = Off + Take /\ blk'[b].meanTokens = Off + Take
      <3>1. blk'[b].n = Most(Off, Off + Take)
        BY <1>3, <2>1
      <3>2. blk'[b].meanTokens = IF Off = 0 THEN Take ELSE Most(Off, Off + Take)
        BY <1>4, <1>9, <2>2
      <3> QED
        BY <1>2, <3>1, <3>2 DEF Most
    <2>4. \A o \in Offsets : meanTruth'[b * BT + o] = IF o \in Off .. Off + Take - 1 THEN NextWrite
                                                      ELSE meanTruth[b * BT + o]
      BY <1>2, <1>7, <1>9
    <2>5. Added(blk[b].sum, Off, Take, NextWrite) = MeansNow(b, Off + Take)
      <3>1. Off \in Nat /\ Take \in Nat /\ 1 <= Take /\ Off + Take <= BT
        BY <1>2
      <3>2. Off # 0 => blk[b].sum = MeansOf(b, Off)
        BY <2>2
      <3> QED
        BY <2>4, <3>1, <3>2, MeanGrows, ZenonT(60)
    <2> QED
      BY <1>4, <1>9, <2>3, <2>5
  <1>10. ASSUME kind = "tokens_f16", <<b, "K">> \notin lost'
         PROVE  /\ blk'[b].sum = MeansNow(b, blk'[b].meanTokens)
                /\ blk'[b].meanTokens = blk'[b].n
    <2>1. family = "f16" /\ "K" \in Part /\ "K" \in Parts(kind)
      BY <1>1, <1>10 DEF Kinds, Part, Parts
    <2>2. Content(b, "K")' = blk'[b].part["K"].ram /\ Content(b, "K")' # None
      <3>1. \A p \in Parts(kind) : blk'[b].part[p].ram # None
        BY <1>0, ChunkBlocks, ZenonT(60)
      <3> QED
        BY <2>1, <3>1 DEF Content
    <2>3. RowsTrue(b, "K")' /\ Claimed(b, "K")' = blk'[b].n
      BY <1>1, <1>2, <2>1, <2>2, ChunkRows DEF RowsSafe, Claimed
    <2>4. blk'[b].n \in 0 .. BT
      BY <1>2, <1>3, <1>6 DEF Most
    <2>5. \A o \in 0 .. blk'[b].n - 1 : blk'[b].part["K"].ram[o] = meanTruth'[b * BT + o]
      <3> TAKE o \in 0 .. blk'[b].n - 1
      <3>1. o \in Offsets
        BY <1>2, <2>4 DEF Offsets
      <3>2. blk'[b].part["K"].ram[o] = truth'["K"][b * BT + o]
        BY <1>10, <2>2, <2>3 DEF RowsTrue
      <3>3. truth'["K"][b * BT + o] = meanTruth'[b * BT + o]
        <4>1. truth'["K"][b * BT + o] = IF o \in Off .. Off + Take - 1 THEN NextWrite
                                        ELSE truth["K"][b * BT + o]
          BY <1>0, <1>2, <2>1, <3>1, ChunkTruth
        <4>2. meanTruth'[b * BT + o] = IF o \in Off .. Off + Take - 1 THEN NextWrite
                                       ELSE meanTruth[b * BT + o]
          BY <1>2, <1>7, <1>10, <3>1
        <4>3. meanTruth = truth["K"]
          BY <2>1 DEF StoreInv, MeansSafe
        <4> QED
          BY <4>1, <4>2, <4>3
      <3> QED
        BY <3>2, <3>3
    <2> QED
      BY <1>3, <1>10, <2>5 DEF MeansNow
  <1>11. ASSUME NEW c \in Blocks, <<c, "K">> \notin lost'
         PROVE  /\ blk'[c].sum = MeansNow(c, blk'[c].meanTokens)
                /\ family = "f16" => blk'[c].meanTokens = blk'[c].n
    <2>1. <<c, "K">> \notin lost
      BY <1>5, <1>11
    <2>2. CASE c # b
      <3>1. family = "f16" => blk[c].meanTokens = blk[c].n
        BY <2>1 DEF StoreInv, MeansSafe
      <3> QED
        BY <1>3, <1>8, <2>1, <2>2, <3>1
    <2>3. CASE c = b /\ kind = "tokens"
      BY <1>9, <2>1, <2>3
    <2>4. CASE c = b /\ kind = "tokens_f16"
      BY <1>10, <1>11, <2>4
    <2>5. CASE c = b /\ kind \notin {"tokens", "tokens_f16"}
      <3>1. family # "f16"
        BY <1>1, <2>5 DEF Kinds
      <3> QED
        BY <1>8, <2>1, <2>5, <3>1
    <2> QED
      BY <2>2, <2>3, <2>4, <2>5
  <1>12. family = "packed" => \A c \in Blocks : <<c, "K">> \notin lost'
    <2> SUFFICES ASSUME family = "packed", NEW c \in Blocks PROVE <<c, "K">> \notin lost'
      OBVIOUS
    <2>1. <<c, "K">> \notin lost
      BY DEF StoreInv, MeansSafe
    <2>2. readOk \/ Parts(kind) = {"V"}
      BY <1>1 DEF Kinds, Parts
    <2>3. lost' \subseteq lost \cup {<<At, "V">>}
      BY <2>2, ChunkIs
    <2> QED
      BY <2>1, <2>3
  <1>13. ASSUME family = "f16"
         PROVE  /\ meanTruth' = truth'["K"]
                /\ \A c \in Blocks : c + 1 < size' => blk'[c].n = BT
    <2>1. /\ kind \in {"tokens", "tokens_f16"} /\ "K" \in Parts(kind) /\ "K" \in Part
          /\ meanTruth = truth["K"]
      BY <1>1, <1>13 DEF Kinds, Parts, Part, StoreInv, MeansSafe
    <2>2. meanTruth' = truth'["K"]
      BY <2>1, ChunkIs
    <2>3. \A c \in Blocks : c + 1 < size => blk[c].n = BT
      BY <1>13 DEF StoreInv, MeansSafe
    <2>4. \A c \in Blocks : c < b => blk[c].n = BT
      <3>1. op.kind \in WriteKinds /\ "K" \in Parts(op.kind)
        BY <1>1, <2>1
      <3>2. \A c \in Blocks : c < op.pos \div BT => Claimed(c, "K") = BT
        BY <3>1 DEF StoreInv, OpSafe
      <3> QED
        BY <1>0, <1>13, <3>2 DEF Claimed, At
    <2>5. ASSUME NEW c \in Blocks, c + 1 < size'
          PROVE  blk'[c].n = BT
      <3>1. CASE c # b
        <4>1. c + 1 < size \/ c < b
          <5>1. c \in Nat
            BY <1>6
          <5> QED
            BY <1>2, <1>5, <2>5, <5>1
        <4> QED
          BY <1>3, <2>3, <2>4, <3>1, <4>1
      <3>2. CASE c = b
        <4>1. c + 1 < size
          BY <1>2, <1>5, <2>5, <3>2
        <4>2. blk[b].n = BT /\ blk'[b].n = Most(BT, Off + Take)
          BY <1>3, <2>3, <3>2, <4>1
        <4> QED
          BY <1>2, <3>2, <4>2 DEF Most
      <3> QED
        BY <3>1, <3>2
    <2> QED
      BY <2>2, <2>5
  <1>14. \A c \in Blocks : (<<c, "K">> \in lost \/ blk[c].sum = MeansOf(c, blk[c].meanTokens))'
    BY <1>11 DEF MeansNow, MeansOf
  <1> QED
    BY <1>1, <1>11, <1>12, <1>13, <1>14 DEF MeansSafe

LEMMA ChunkOp ==
  ASSUME StoreInv, NEW kind \in WriteKinds, NEW readOk \in BOOLEAN, WriteChunk(kind, readOk)
  PROVE  OpSafe'
  <1>1. /\ op.kind = kind /\ family' = family /\ kind \in Kinds
        /\ \/ op' = Idle
           \/ op.pos + Take # op.end /\ op' = [op EXCEPT !.pos = @ + Take]
        /\ op.end <= NB * BT
    BY ChunkIs DEF StoreInv, OpSafe
  <1>0. PICK b : b = At
    OBVIOUS
  <1>2. CASE op' = Idle
    BY <1>2, Size, OpRests DEF Idle, WriteKinds
  <1>3. CASE op.pos + Take # op.end /\ op' = [op EXCEPT !.pos = @ + Take]
    <2>1. /\ b \in Blocks /\ b \in Nat /\ Off \in Nat /\ Off < BT /\ BT \in Nat \ {0} /\ NB \in Nat
          /\ Take \in Nat /\ 1 <= Take /\ Off + Take = BT /\ op.pos + Take <= op.end
          /\ op.pos = b * BT + Off /\ op.pos \in Nat /\ op.end \in Nat /\ NB * BT \in Nat
      BY <1>0, <1>1, <1>3, ChunkAt, Size
    <2>2. /\ op'.kind = kind /\ op'.end = op.end /\ op'.pos = op.pos + Take
      BY <1>1, <1>3 DEF StoreInv, StoreTypes
    <2>3. op'.pos < op'.end /\ op'.end <= NB * BT /\ op'.pos < NB * BT /\ op'.pos \in Nat
      <3> DEFINE all == NB * BT
                 pos == op.pos
                 end == op.end
      <3>1. end <= all /\ all \in Nat /\ end \in Nat /\ pos + Take <= end /\ pos + Take # end
            /\ pos \in Nat /\ Take \in Nat /\ op'.pos = pos + Take /\ op'.end = end
        BY <1>1, <1>3, <2>1, <2>2
      <3> HIDE DEF all, pos, end
      <3>2. op'.pos < op'.end /\ op'.end <= all /\ op'.pos < all /\ op'.pos \in Nat
        BY <3>1
      <3> QED
        BY <3>2 DEF all
    <2>4. op'.pos = (b + 1) * BT + 0
      <3>1. (b + 1) * BT = b * BT + BT /\ b * BT \in Nat
        BY <2>1, BlockBase
      <3> QED
        BY <2>1, <2>2, <3>1
    <2>5. op'.pos \div BT = b + 1 /\ op'.pos % BT = 0 /\ b + 1 \in Blocks
      <3>1. b + 1 \in Nat /\ 0 \in Offsets
        BY <2>1 DEF Offsets
      <3>2. op'.pos \div BT = b + 1 /\ op'.pos % BT = 0
        BY <2>4, <3>1, SplitOf
      <3> QED
        BY <2>3, <3>2, PositionIs
    <2>6. /\ \A c \in Blocks : c # b => blk'[c] = blk[c]
          /\ blk'[b].n = Most(blk[b].n, Off + Take)
      BY <1>0, ChunkBlocks, ZenonT(60)
    <2>7. \A p \in Parts(kind) : blk'[b].part[p].tokens = Most(blk[b].part[p].tokens, Off + Take)
      <3>1. \A p \in Parts(kind) :
             /\ blk'[At].part[p].tokens = Most(blk[At].part[p].tokens, Off + Take)
             /\ blk'[At].part[p].nvme = None /\ blk'[At].part[p].ram # None
             /\ blk'[At].part[p].ram = [o \in Offsets |-> IF o \in Off .. Off + Take - 1 THEN NextWrite
                                                          ELSE Base(At, p, readOk)[o]]
        BY ChunkBlocks, ZenonT(60)
      <3> QED
        BY <1>0, <3>1
    <2>8. ASSUME NEW p \in Parts(kind)
          PROVE  /\ 0 <= Claimed(b + 1, p)'
                 /\ \A c \in Blocks : c < b + 1 => Claimed(c, p)' = BT
      <3>1. p \in Part
        BY <1>1, KindsAre DEF StoreInv
      <3>2. \A c \in Blocks : Claimed(c, p) \in 0 .. BT /\ (c # b => Claimed(c, p)' = Claimed(c, p))
        BY <1>1, <2>6, <3>1, ClaimedIs DEF StoreInv, Claimed
      <3>3. Claimed(b, p)' = Most(Claimed(b, p), BT)
        BY <1>1, <2>1, <2>6, <2>7 DEF Claimed
      <3>4. Claimed(b, p)' = BT
        BY <2>1, <3>2, <3>3 DEF Most
      <3>5. \A c \in Blocks : c < b => Claimed(c, p) = BT
        BY <1>0, <1>1 DEF StoreInv, OpSafe, At
      <3>6. \A c \in Blocks : c < b + 1 => c = b \/ c < b
        BY <2>1, StoreAssumption DEF Blocks
      <3>7. b + 1 # b
        BY <2>1
      <3> QED
        BY <2>1, <2>5, <3>2, <3>4, <3>5, <3>6, <3>7
    <2>9. kind = "tokens" => blk'[b + 1].n = 0
      <3> SUFFICES ASSUME kind = "tokens" PROVE blk'[b + 1].n = 0
        OBVIOUS
      <3>1. family = "f16" /\ blk[b].n = Off
        BY <1>0, <1>1 DEF Kinds, StoreInv, OpSafe, At, Off
      <3>2. b + 1 < size => blk[b].n = BT
        BY <2>1, <3>1 DEF StoreInv, MeansSafe
      <3>3. b + 1 >= size
        BY <2>1, <3>1, <3>2 DEF StoreInv, StoreTypes
      <3>4. blk[b + 1] = Fresh
        BY <2>5, <3>3 DEF StoreInv, RowsSafe
      <3> QED
        BY <2>1, <2>5, <2>6, <3>4 DEF Fresh
    <2>10. Kinds' = Kinds
      BY <1>1 DEF Kinds
    <2>11. (\A p \in Parts(op.kind) :
              /\ op.pos % BT <= Claimed(op.pos \div BT, p)
              /\ \A c \in Blocks : c < op.pos \div BT => Claimed(c, p) = BT)'
      <3>1. \A p \in Parts(kind) : /\ op'.pos % BT <= Claimed(op.pos \div BT, p)'
                                   /\ \A c \in Blocks : c < op'.pos \div BT => Claimed(c, p)' = BT
        <4>1. \A p \in Parts(kind) : Claimed(op.pos \div BT, p)' = Claimed(b + 1, p)'
          BY <2>5 DEF Claimed
        <4> QED
          BY <2>5, <2>8, <4>1
      <3> QED
        BY <2>2, <3>1
    <2>12. (op.kind = "tokens" => blk[op.pos \div BT].n = op.pos % BT)'
      BY <2>2, <2>5, <2>9
    <2> QED
      BY <1>1, <2>2, <2>3, <2>10, <2>11, <2>12 DEF OpSafe, WriteKinds
  <1> QED
    BY <1>1, <1>2, <1>3

LEMMA ChunkSaved ==
  ASSUME StoreInv, NEW kind \in WriteKinds, NEW readOk \in BOOLEAN, WriteChunk(kind, readOk)
  PROVE  SavedSafe'
  <1>1. op.kind = kind /\ saved' = saved /\ family' = family /\ kind \in Kinds
    BY ChunkIs DEF StoreInv, OpSafe
  <1> SUFFICES ASSUME saved # NoMean PROVE SavedSafe'
    BY <1>1 DEF SavedSafe
  <1>2. /\ family = "packed" /\ op.kind # "restore" /\ kind \notin {"tokens", "tokens_f16"}
    BY <1>1 DEF StoreInv, SavedSafe, WriteKinds, Kinds
  <1>3. meanTruth' = meanTruth
    <2>1. meanTruth' = [i \in Positions |->
            IF kind \in {"tokens", "tokens_f16"} /\ i \in op.pos .. op.pos + Take - 1
            THEN NextWrite ELSE meanTruth[i]]
      BY ChunkIs
    <2> QED
      BY <1>2, <2>1 DEF StoreInv, StoreTypes
  <1>4. \A c \in Blocks : blk'[c].meanTokens = blk[c].meanTokens
    <2>1. \A c \in Blocks : c # At => blk'[c] = blk[c]
      BY ChunkBlocks, ZenonT(60)
    <2>2. kind \notin {"tokens", "tokens_f16"} =>
             blk'[At].sum = blk[At].sum /\ blk'[At].meanTokens = blk[At].meanTokens
      BY ChunkBlocks, ZenonT(60)
    <2> QED
      BY <1>2, <2>1, <2>2
  <1>5. size <= size' /\ size \in Nat /\ size' \in Nat
    BY ChunkTypes, StoreAssumption DEF StoreInv, StoreTypes
  <1> DEFINE c == saved.pos \div BT
  <1>6. /\ saved.pos \in Nat /\ 0 < saved.pos /\ saved.pos < NB * BT /\ saved.pos % BT # 0
        /\ saved.tokens = saved.pos % BT
        /\ saved.sum = MeansOf(c, saved.tokens)
        /\ c < size /\ blk[c].meanTokens >= saved.tokens
    BY <1>2 DEF StoreInv, SavedSafe
  <1>7. c \in Blocks /\ c \in Nat
    BY <1>6, PositionIs, StoreAssumption DEF Blocks
  <1>8. (saved.sum = MeansOf(saved.pos \div BT, saved.tokens))'
    BY <1>1, <1>3, <1>6 DEF MeansOf
  <1>9. c < size' /\ blk'[c].meanTokens >= saved.tokens
    BY <1>4, <1>5, <1>6, <1>7
  <1> QED
    BY <1>1, <1>2, <1>6, <1>8, <1>9 DEF SavedSafe

LEMMA ChunkSafe ==
  ASSUME StoreInv, NEW kind \in WriteKinds, NEW readOk \in BOOLEAN, WriteChunk(kind, readOk),
         kind = "k_gpu" => readOk
  PROVE  StoreInv'
  BY ChunkTypes, ChunkQueue, ChunkRows, ChunkMeans, ChunkOp, ChunkSaved DEF StoreInv

-----------------------------------------------------------------------------
(* The theorems                                                             *)

LEMMA StoreStarts == Init => StoreInv
  <1> SUFFICES ASSUME Init PROVE StoreInv
    OBVIOUS
  <1>1. /\ blk = [b \in Blocks |-> Fresh] /\ size = 0 /\ placed = {} /\ q = <<>> /\ batch = <<>>
        /\ ioError = FALSE /\ io = "wait" /\ stop = FALSE /\ op = Idle /\ saved = NoMean
        /\ truth = [p \in Part |-> [i \in Positions |-> 0]] /\ meanTruth = [i \in Positions |-> 0]
        /\ written = 0 /\ faults = 0 /\ lost = {} /\ family \in {"packed", "f16", "rows"}
    BY DEF Init
  <1>2. \A b \in Blocks : blk[b] = Fresh /\ Fresh \in LayerBlk
    BY <1>1, FreshTyped
  <1>3. \A b \in Blocks, p \in Part : blk[b].part[p] = FreshPart
    BY <1>2 DEF Fresh
  <1>4. \A b \in Blocks, p \in Part : Content(b, p) = None /\ Claimed(b, p) = 0
    BY <1>2, <1>3 DEF Content, Claimed, Fresh, FreshPart
  <1>5. StoreTypes
    <2>1. blk \in [Blocks -> LayerBlk] /\ size \in 0 .. NB
      BY <1>1, FreshTyped, StoreAssumption
    <2>2. op \in [kind : OpKinds, pos : Nat, end : Nat]
      BY <1>1 DEF Idle, OpKinds
    <2>3. truth \in [Part -> [Positions -> Nat]] /\ meanTruth \in [Positions -> Nat]
      BY <1>1
    <2>4. placed \subseteq Jobs /\ lost \subseteq Jobs /\ q \in Seq(Jobs) /\ batch \in Seq(Jobs)
      BY <1>1
    <2>5. /\ ioError \in BOOLEAN /\ stop \in BOOLEAN /\ written \in Nat /\ faults \in Nat
          /\ io \in {"wait", "tested", "asleep", "copy", "write", "ended"}
      BY <1>1
    <2> QED
      BY <1>1, <2>1, <2>2, <2>3, <2>4, <2>5 DEF StoreTypes
  <1>6. QueueSafe
    <2>1. Marked = {}
      BY <1>3 DEF Marked, Jobs, FreshPart
    <2>2. DOMAIN q = {} /\ DOMAIN batch = {}
      BY <1>1
    <2>3. Waits(q, batch, Marked)
      BY <2>1, <2>2 DEF Waits
    <2> QED
      BY <1>1, <2>1, <2>3 DEF QueueSafe, Idle
  <1>7. RowsSafe
    <2>1. \A b \in Blocks, p \in Part : ~(Claimed(b, p) > 0)
      BY <1>4
    <2> QED
      BY <1>2, <1>4, <2>1 DEF RowsSafe
  <1>8. OpSafe
    <2>1. op.kind = "idle" /\ op.pos = 0
      BY <1>1 DEF Idle
    <2>2. 0 < NB * BT
      BY Size
    <2> QED
      BY <2>1, <2>2 DEF OpSafe, WriteKinds
  <1>9. MeansSafe
    <2>1. \A b \in Blocks : blk[b].sum = {} /\ blk[b].meanTokens = 0 /\ blk[b].n = 0
      BY <1>2 DEF Fresh
    <2>2. \A b \in Blocks : MeansOf(b, 0) = {}
      <3>1. 0 .. 0 - 1 = {}
        OBVIOUS
      <3> QED
        BY <3>1 DEF MeansOf
    <2>3. \A b \in Blocks : ~(b + 1 < size)
      BY <1>1 DEF Blocks
    <2>4. meanTruth = truth["K"]
      BY <1>1 DEF Part
    <2> QED
      BY <1>1, <2>1, <2>2, <2>3, <2>4 DEF MeansSafe
  <1> QED
    BY <1>1, <1>5, <1>6, <1>7, <1>8, <1>9 DEF StoreInv, SavedSafe

LEMMA StoreRests ==
  ASSUME StoreInv, UNCHANGED vars
  PROVE  StoreInv'
  <1>1. /\ UNCHANGED <<family, blk, size, placed, q, batch, slab, ioError, io, stop>>
        /\ UNCHANGED <<mu, op, saved, truth, meanTruth, written, faults, lost>>
    BY DEF vars
  <1>2. StoreTypes'
    BY <1>1 DEF StoreInv, StoreTypes
  <1>3. QueueSafe'
    BY <1>1 DEF StoreInv, QueueSafe, Marked
  <1>4. OpSafe'
    BY <1>1 DEF StoreInv, OpSafe, Claimed, Kinds, Parts, Restorable
  <1>5. SavedSafe'
    BY <1>1 DEF StoreInv, SavedSafe, MeansOf
  <1> QED
    BY <1>1, <1>2, <1>3, <1>4, <1>5, QuietStep

\* A step of the store, by what it does to the writer thread's buffers.
LEMMA StepIs ==
  ASSUME Next
  PROVE  \/ \E kind \in WriteKinds, readOk \in BOOLEAN :
              WriteChunk(kind, readOk) /\ (kind = "k_gpu" => readOk)
         \/ \E readOk \in BOOLEAN : Truncate(readOk)
         \/ InvalidatePacked \/ Clear
         \/ \E take \in 1 .. BT : WriteMeanK(take)
         \/ RestoreMean
         \/ \E ok \in BOOLEAN : IoPublish(ok)
         \/ \E pos \in Positions, end \in 1 .. NB * BT : \E kind \in Kinds :
              BeginWrite(kind, pos, end)
         \/ \E pos \in Positions : \E kind \in {"truncate", "invalidate", "clear", "copy", "wait"} :
              BeginCall(kind, pos)
         \/ WriteWaits \/ WriteRefused \/ WaitWrites \/ CopyRows \/ MeanCheckpoint
         \/ Destroy \/ DestroyNotify \/ Destroyed \/ IoTest \/ IoSleep \/ IoCopy
  <1>1. CASE OwnerStep
    <2>1. ASSUME NEW ok \in BOOLEAN,
                 \/ WriteLayerTokens(ok) \/ WriteLayerTokensF16(ok)
                 \/ WriteLayerKRows(ok) \/ WriteLayerVGpu(ok)
          PROVE  \E kind \in WriteKinds, readOk \in BOOLEAN :
                   WriteChunk(kind, readOk) /\ (kind = "k_gpu" => readOk)
      BY <2>1 DEF WriteLayerTokens, WriteLayerTokensF16, WriteLayerKRows, WriteLayerVGpu, WriteKinds
    <2>2. ASSUME WriteLayerKGpu
          PROVE  \E kind \in WriteKinds, readOk \in BOOLEAN :
                   WriteChunk(kind, readOk) /\ (kind = "k_gpu" => readOk)
      BY <2>2 DEF WriteLayerKGpu, WriteKinds
    <2> QED
      BY <1>1, <2>1, <2>2 DEF OwnerStep
  <1>2. CASE IoStep
    BY <1>2 DEF IoStep
  <1> QED
    BY <1>1, <1>2 DEF Next

LEMMA StoreSteps == StoreInv /\ [Next]_vars => StoreInv'
  <1> SUFFICES ASSUME StoreInv, [Next]_vars PROVE StoreInv'
    OBVIOUS
  <1>1. CASE UNCHANGED vars
    BY <1>1, StoreRests
  <1>2. CASE Next
    <2>1. ASSUME NEW kind \in WriteKinds, NEW readOk \in BOOLEAN,
                 WriteChunk(kind, readOk), kind = "k_gpu" => readOk
          PROVE  StoreInv'
      BY <2>1, ChunkSafe
    <2>2. ASSUME NEW readOk \in BOOLEAN, Truncate(readOk) PROVE StoreInv'
      BY <2>2, TruncateSafe
    <2>3. ASSUME NEW take \in 1 .. BT, WriteMeanK(take) PROVE StoreInv'
      BY <2>3, WriteMeanKSafe
    <2>4. ASSUME NEW ok \in BOOLEAN, IoPublish(ok) PROVE StoreInv'
      BY <2>4, IoPublishSafe
    <2>5. ASSUME NEW pos \in Positions, NEW end \in 1 .. NB * BT, NEW kind \in Kinds,
                 BeginWrite(kind, pos, end)
          PROVE  StoreInv'
      BY <2>5, BeginWriteSafe
    <2>6. ASSUME NEW pos \in Positions,
                 NEW kind \in {"truncate", "invalidate", "clear", "copy", "wait"},
                 BeginCall(kind, pos)
          PROVE  StoreInv'
      BY <2>6, BeginCallSafe
    <2> QED
      BY <1>2, <2>1, <2>2, <2>3, <2>4, <2>5, <2>6, StepIs, InvalidateSafe, ClearSafe, RestoreSafe,
         WaitsSafe, ReturnsSafe, CheckpointSafe, DestroySafe, IoTestSafe, IoSleepSafe, IoCopySafe
  <1> QED
    BY <1>1, <1>2

\* However the owner's calls, the harvest worker and the writer thread take
\* turns, and whatever fails, the store is in a consistent state.
THEOREM StoreInvariant == Spec => []StoreInv
  BY StoreStarts, StoreSteps, PTL DEF Spec

\* A marked part is in the queue or in the batch, once.
LEMMA MarkedOnce ==
  ASSUME NEW queued \in Seq(Jobs), NEW taken \in Seq(Jobs), NEW marked, NEW x \in Jobs,
         Waits(queued, taken, marked)
  PROVE  Cardinality({i \in DOMAIN queued : queued[i] = x})
           + Cardinality({i \in DOMAIN taken : taken[i] = x})
           = (IF x \in marked THEN 1 ELSE 0)
  <1> DEFINE Q == {i \in DOMAIN queued : queued[i] = x}
             B == {i \in DOMAIN taken : taken[i] = x}
  <1>1. Cardinality({}) = 0
    BY FS_EmptySet
  <1>2. \A i : Cardinality({i}) = 1
    BY FS_Singleton
  <1>3. CASE \E i \in DOMAIN queued : queued[i] = x
    <2>1. PICK i \in DOMAIN queued : queued[i] = x
      BY <1>3
    <2>2. Q = {i} /\ B = {} /\ x \in marked
      BY <2>1 DEF Waits
    <2> HIDE DEF Q, B
    <2>3. Cardinality(Q) = 1 /\ Cardinality(B) = 0
      BY <1>1, <1>2, <2>2
    <2> QED
      BY <2>2, <2>3 DEF Q, B
  <1>4. CASE \E i \in DOMAIN taken : taken[i] = x
    <2>1. PICK i \in DOMAIN taken : taken[i] = x
      BY <1>4
    <2>2. B = {i} /\ Q = {} /\ x \in marked
      BY <2>1 DEF Waits
    <2> HIDE DEF Q, B
    <2>3. Cardinality(Q) = 0 /\ Cardinality(B) = 1
      BY <1>1, <1>2, <2>2
    <2> QED
      BY <2>2, <2>3 DEF Q, B
  <1>5. CASE ~(\E i \in DOMAIN queued : queued[i] = x) /\ ~(\E i \in DOMAIN taken : taken[i] = x)
    <2>1. Q = {} /\ B = {} /\ x \notin marked
      BY <1>5 DEF Waits
    <2> HIDE DEF Q, B
    <2>2. Cardinality(Q) = 0 /\ Cardinality(B) = 0
      BY <1>1, <2>1
    <2> QED
      BY <2>1, <2>2 DEF Q, B
  <1> QED
    BY <1>3, <1>4, <1>5

LEMMA MarksAreExact == StoreInv => FlushMarked
  <1> SUFFICES ASSUME StoreInv PROVE FlushMarked
    OBVIOUS
  <1>1. q \in Seq(Jobs) /\ batch \in Seq(Jobs) /\ Waits(q, batch, Marked)
    BY DEF StoreInv, StoreTypes, QueueSafe
  <1>2. ASSUME NEW b \in Blocks, NEW p \in Part
        PROVE  /\ Cardinality({i \in DOMAIN q : q[i] = <<b, p>>})
                    + Cardinality({i \in DOMAIN batch : batch[i] = <<b, p>>})
                    = (IF blk[b].part[p].flushing THEN 1 ELSE 0)
               /\ blk[b].part[p].flushing => blk[b].part[p].ram # None /\ <<b, p>> \in placed
    <2>1. <<b, p>> \in Jobs /\ (<<b, p>> \in Marked <=> blk[b].part[p].flushing)
      BY MarkedIs DEF Jobs
    <2>2. Cardinality({i \in DOMAIN q : q[i] = <<b, p>>})
            + Cardinality({i \in DOMAIN batch : batch[i] = <<b, p>>})
            = (IF <<b, p>> \in Marked THEN 1 ELSE 0)
      BY <1>1, <2>1, MarkedOnce, SMTT(60)
    <2>3. blk[b].part[p].flushing => blk[b].part[p].ram # None /\ <<b, p>> \in placed
      <3>1. \A x \in Marked : blk[x[1]].part[x[2]].ram # None /\ x \in placed
        BY DEF StoreInv, QueueSafe
      <3>2. <<b, p>>[1] = b /\ <<b, p>>[2] = p
        OBVIOUS
      <3> QED
        BY <2>1, <3>1, <3>2
    <2> QED
      BY <2>1, <2>2, <2>3
  <1>3. op.kind = "gone" => q = <<>> /\ batch = <<>>
    BY DEF StoreInv, QueueSafe
  <1> QED
    BY <1>2, <1>3 DEF FlushMarked

\* Every row the store claims is the last one written at its position, and the
\* marks that keep the writer thread's buffers alive are exact.
THEOREM RowsAreCurrent == Spec => []RowsCurrent
  <1>1. StoreInv => RowsCurrent
    <2> SUFFICES ASSUME StoreInv PROVE RowsCurrent
      OBVIOUS
    <2>1. \A b \in 0 .. size - 1 : b \in Blocks
      BY StoreAssumption DEF StoreInv, StoreTypes, Blocks
    <2>2. \A b \in Blocks, p \in Part : Content(b, p) # None => RowsTrue(b, p)
      BY DEF StoreInv, RowsSafe
    <2> QED
      BY <2>1, <2>2, MarksAreExact DEF RowsCurrent, RowsTrue
  <1> QED
    BY <1>1, StoreInvariant, PTL

\* The mean of a block is the mean of the tokens it counts, each with its last
\* value, after appends, truncations and restored checkpoints.
THEOREM MeansAreExact == Spec => []MeanExact
  <1>1. StoreInv => MeanExact
    <2> SUFFICES ASSUME StoreInv PROVE MeanExact
      OBVIOUS
    <2>1. \A b \in 0 .. size - 1 : b \in Blocks
      BY StoreAssumption DEF StoreInv, StoreTypes, Blocks
    <2>2. \A b \in Blocks : <<b, "K">> \in lost \/ blk[b].sum = MeansOf(b, blk[b].meanTokens)
      BY DEF StoreInv, MeansSafe
    <2> QED
      BY <2>1, <2>2 DEF MeanExact, MeansOf
  <1> QED
    BY <1>1, StoreInvariant, PTL

\* The rows of a part keep their buffer over a step.
SameBuffers == \A b \in Blocks, p \in Part :
    InBatch(b, p) /\ <<b, p>> \in Range(batch') => blk'[b].part[p].ram = blk[b].part[p].ram

LEMMA TakenAreMarked ==
  ASSUME StoreInv, NEW b \in Blocks, NEW p \in Part, InBatch(b, p)
  PROVE  blk[b].part[p].flushing /\ batch # <<>>
  <1>1. PICK i \in DOMAIN batch : batch[i] = <<b, p>>
    BY DEF InBatch, Range
  <1>2. <<b, p>> \in Marked
    BY <1>1 DEF StoreInv, QueueSafe, Waits, Jobs
  <1> QED
    BY <1>1, <1>2, MarkedIs

LEMMA BuffersKept ==
  ASSUME StoreInv, Next
  PROVE  SameBuffers
  <1>1. ASSUME NEW kind \in WriteKinds, NEW readOk \in BOOLEAN, WriteChunk(kind, readOk)
        PROVE  SameBuffers
    <2> SUFFICES ASSUME NEW b \in Blocks, NEW p \in Part, InBatch(b, p)
                 PROVE  blk'[b].part[p].ram = blk[b].part[p].ram
      BY DEF SameBuffers
    <2>1. blk[b].part[p].flushing
      BY TakenAreMarked
    <2>2. \A s \in Parts(kind) : ~blk[At].part[s].flushing
      BY <1>1, ChunkIs, ZenonT(60)
    <2>3. /\ \A c \in Blocks : c # At => blk'[c] = blk[c]
          /\ \A s \in Part \ Parts(kind) : blk'[At].part[s].ram = blk[At].part[s].ram
      BY <1>1, ChunkBlocks, ZenonT(60)
    <2> QED
      BY <2>1, <2>2, <2>3
  <1>2. ASSUME batch = <<>> PROVE SameBuffers
    BY <1>2, TakenAreMarked DEF SameBuffers
  <1>3. ASSUME \A b \in Blocks : blk'[b].part = blk[b].part PROVE SameBuffers
    BY <1>3 DEF SameBuffers
  <1>4. ASSUME NEW take \in 1 .. BT, WriteMeanK(take) PROVE SameBuffers
    <2> DEFINE b == MeanLength \div BT
               off == MeanLength % BT
               x == AddMean(Covering(blk[b], off + take), off, take, NextWrite)
    <2>1. blk' = [blk EXCEPT ![b] = x] /\ b \in Blocks /\ blk \in [Blocks -> LayerBlk]
      BY <1>4 DEF WriteMeanK, StoreInv, StoreTypes
    <2>2. x.part = blk[b].part
      BY <2>1 DEF AddMean, Covering, LayerBlk
    <2> HIDE DEF b, x
    <2> QED
      BY <1>3, <2>1, <2>2
  <1>5. ASSUME RestoreMean PROVE SameBuffers
    <2>1. \A b \in Blocks : blk'[b].part = blk[b].part
      BY <1>5 DEF RestoreMean, StoreInv, StoreTypes, LayerBlk
    <2> QED
      BY <1>3, <2>1
  <1>6. ASSUME NEW ok \in BOOLEAN, IoPublish(ok) PROVE SameBuffers
    <2>1. batch' = <<>>
      BY <1>6 DEF IoPublish
    <2>2. Range(batch') = {}
      BY <2>1 DEF Range
    <2> QED
      BY <2>2 DEF SameBuffers
  <1>7. ASSUME NEW readOk \in BOOLEAN, Truncate(readOk) PROVE SameBuffers
    BY <1>2, <1>7 DEF Truncate, Drained
  <1>8. ASSUME InvalidatePacked \/ Clear PROVE SameBuffers
    BY <1>2, <1>8 DEF InvalidatePacked, Clear, Drained
  <1>9. ASSUME UNCHANGED blk PROVE SameBuffers
    BY <1>9 DEF SameBuffers
  <1>10. ASSUME NEW pos \in Positions, NEW end \in 1 .. NB * BT, NEW kind \in Kinds,
                BeginWrite(kind, pos, end)
         PROVE  UNCHANGED blk
    BY <1>10 DEF BeginWrite, mem
  <1>11. ASSUME NEW pos \in Positions,
                NEW kind \in {"truncate", "invalidate", "clear", "copy", "wait"},
                BeginCall(kind, pos)
         PROVE  UNCHANGED blk
    BY <1>11 DEF BeginCall, mem
  <1>12. ASSUME \/ WriteWaits \/ WriteRefused \/ WaitWrites \/ CopyRows \/ MeanCheckpoint
                \/ Destroy \/ DestroyNotify \/ Destroyed \/ IoTest \/ IoSleep \/ IoCopy
         PROVE  UNCHANGED blk
    BY <1>12 DEF WriteWaits, WriteRefused, WaitWrites, CopyRows, MeanCheckpoint,
                 Destroy, DestroyNotify, Destroyed, IoTest, IoSleep, IoCopy, mem
  <1> QED
    BY <1>1, <1>4, <1>5, <1>6, <1>7, <1>8, <1>9, <1>10, <1>11, <1>12, StepIs

\* While the writer thread may read a block's buffer without the mutex, no call
\* changes or frees it.
THEOREM FlushExcludes == Spec => FlushExcludesMutation
  <1>1. StoreInv /\ [Next]_vars => [SameBuffers]_vars
    <2>1. ASSUME StoreInv, Next PROVE SameBuffers
      BY <2>1, BuffersKept
    <2> QED
      BY <2>1
  <1>2. FlushExcludesMutation <=> [][SameBuffers]_vars
    BY DEF FlushExcludesMutation, SameBuffers
  <1> QED
    BY <1>1, <1>2, StoreInvariant, PTL DEF Spec

================================================================================
