--------------------------- MODULE KvContentProofs ---------------------------
(***************************************************************************)
(* The ledger of KvContent certifies only what the engine has computed,    *)
(* for every block size, history length and number of lease holders.       *)
(* And a version names bytes and a stamp names a history, for every order  *)
(* of calls: NamesHistory of KvContentHistory, on which the host copies    *)
(* (plan_working_set) and the plans (MemorySession::require_current) of    *)
(* memory_contract.cpp rest.                                               *)
(***************************************************************************)
EXTENDS KvContentHistory, TLAPS

\* Certified with the types it needs.  It is inductive: each call tests its
\* arguments against the three marks before it moves them.
ContentInv == TypeOK /\ Certified

-----------------------------------------------------------------------------
(* Blocks and rows                                                          *)

LEMMA DivNat == ASSUME NEW n \in Nat, NEW b \in Nat \ {0} PROVE n \div b \in Nat
  BY SMT

LEMMA DivMonotone ==
  ASSUME NEW m \in Nat, NEW n \in Nat, m <= n, NEW b \in Nat \ {0}
  PROVE  m \div b <= n \div b
  BY SMT

LEMMA BlocksNat == ASSUME NEW n \in Nat PROVE BlocksOf(n) \in Nat
  <1>1. n + BlockTokens - 1 \in Nat
    BY ContentAssumption
  <1> QED
    BY <1>1, DivNat, ContentAssumption DEF BlocksOf

LEMMA BlocksMonotone ==
  ASSUME NEW m \in Nat, NEW n \in Nat, m <= n
  PROVE  BlocksOf(m) <= BlocksOf(n)
  <1>1. /\ m + BlockTokens - 1 \in Nat /\ n + BlockTokens - 1 \in Nat
        /\ m + BlockTokens - 1 <= n + BlockTokens - 1
    BY ContentAssumption
  <1> QED
    BY <1>1, DivMonotone, ContentAssumption DEF BlocksOf

\* The blocks wholly before row n are blocks of the first n rows.
LEMMA WholeBlocks == ASSUME NEW n \in Nat PROVE n \div BlockTokens <= BlocksOf(n)
  <1>1. n + BlockTokens - 1 \in Nat /\ n <= n + BlockTokens - 1
    BY ContentAssumption
  <1> QED
    BY <1>1, DivMonotone, ContentAssumption DEF BlocksOf

LEMMA NoBlocks == BlocksOf(0) = 0
  <1>1. (0 + BlockTokens - 1) \div BlockTokens = 0
    BY ContentAssumption, SMT
  <1> QED
    BY <1>1 DEF BlocksOf

LEMMA ResizedIs ==
  ASSUME NEW n \in Nat, versions \in Seq(Nat)
  PROVE  /\ Resized(n) \in Seq(Nat) /\ Len(Resized(n)) = BlocksOf(n)
         /\ \A i \in 1 .. BlocksOf(n) :
                i \in 1 .. Len(versions) => Resized(n)[i] = versions[i]
  <1>1. BlocksOf(n) \in Nat
    BY BlocksNat
  <1>2. Resized(n) \in [1 .. BlocksOf(n) -> Nat]
    BY DEF Resized
  <1>3. Resized(n) \in Seq(Nat) /\ Len(Resized(n)) = BlocksOf(n)
    BY <1>1, <1>2
  <1>4. \A i \in 1 .. BlocksOf(n) : i \in 1 .. Len(versions) => Resized(n)[i] = versions[i]
    BY DEF Resized
  <1> QED
    BY <1>3, <1>4

\* The fields of the stamp, and the numbers the calls advance them to.
LEMMA StampFields ==
  ASSUME TypeOK
  PROVE  /\ stamp.valid \in BOOLEAN
         /\ stamp.incarnation \in Nat /\ stamp.incarnation + 1 \in Nat
         /\ stamp.history \in Nat /\ stamp.history + 1 \in Nat
         /\ stamp.history <= stamp.history + 1
         /\ stamp.view \in Nat /\ stamp.view + 1 \in Nat
         /\ stamp.execution \in Nat /\ stamp.execution + 1 \in Nat
         /\ stamp.frontier \in Nat
  BY DEF TypeOK, Stamps

LEMMA RevokeTyped ==
  ASSUME TypeOK, NEW keep \in Nat
  PROVE  /\ Revoke(keep) \in [Leases -> Grants]
         /\ RevokeAll \in [Leases -> Grants]
  BY DEF Revoke, RevokeAll, TypeOK, Grants

-----------------------------------------------------------------------------
(* Every call keeps the ledger                                              *)

LEMMA ResetKeeps == ASSUME ContentInv, Reset PROVE ContentInv'
  <1>1. stamp' \in Stamps /\ stamp'.frontier = 0
    BY StampFields DEF ContentInv, TypeOK, Reset, Stamps
  <1>2. versions' = <<>> /\ rows' = <<>> /\ reserved' = 0 /\ evaluated' = 0 /\ leases' = RevokeAll
    BY DEF Reset
  <1>3. leases' \in [Leases -> Grants]
    BY <1>2, RevokeTyped DEF ContentInv
  <1>4. TypeOK'
    BY <1>1, <1>2, <1>3 DEF TypeOK
  <1>5. BlocksOf(0)' = 0
    BY NoBlocks DEF BlocksOf
  <1>6. Certified'
    BY <1>1, <1>2, <1>5 DEF Certified
  <1> QED
    BY <1>4, <1>6 DEF ContentInv

LEMMA InvalidateKeeps == ASSUME ContentInv, Invalidate PROVE ContentInv'
  <1>1. TypeOK'
    BY RevokeTyped DEF ContentInv, TypeOK, Invalidate, Stamps
  <1>2. Certified'
    BY DEF ContentInv, Certified, TypeOK, Invalidate, Stamps, BlocksOf
  <1> QED
    BY <1>1, <1>2 DEF ContentInv

LEMMA GrantKeeps ==
  ASSUME ContentInv, NEW h \in Leases, NEW end \in Nat, Grant(h, end)
  PROVE  ContentInv'
  <1>1. end <= Len(rows) /\ Len(rows) \in Nat
    BY DEF ContentInv, Certified, TypeOK, Stamps, Grant
  <1>2. \A k \in 1 .. end : rows[k].token \in Nat
    <2> TAKE k \in 1 .. end
    <2>1. rows[k] \in Rows
      BY <1>1 DEF ContentInv, TypeOK
    <2> QED
      BY <2>1 DEF Rows
  <1>3. Prefix(end) \in Seq(Nat)
    BY <1>2 DEF Prefix
  <1>4. stamp.frontier \in Nat /\ stamp.incarnation \in Nat
    BY DEF ContentInv, TypeOK, Stamps
  <1>5. Revoke(stamp.frontier) \in [Leases -> Grants]
    BY <1>4, RevokeTyped DEF ContentInv
  <1>6. leases' \in [Leases -> Grants]
    <2>1. [valid |-> TRUE, incarnation |-> stamp.incarnation, tokens |-> Prefix(end)] \in Grants
      BY <1>3, <1>4 DEF Grants
    <2> QED
      BY <1>5, <2>1 DEF Grant
  <1>7. TypeOK'
    BY <1>6 DEF ContentInv, TypeOK, Grant, Stamps
  <1>8. Certified'
    BY DEF ContentInv, Certified, TypeOK, Grant, Stamps, BlocksOf
  <1> QED
    BY <1>7, <1>8 DEF ContentInv

LEMMA ReserveKeeps ==
  ASSUME ContentInv, NEW end \in Nat, Reserve(end)
  PROVE  ContentInv'
  <1>1. /\ versions' \in Seq(Nat) /\ Len(versions') = BlocksOf(end)
        /\ \A i \in 1 .. BlocksOf(end) : i \in 1 .. Len(versions) => versions'[i] = versions[i]
    BY ResizedIs DEF ContentInv, TypeOK, Reserve
  <1>2. stamp' \in Stamps /\ stamp.history <= stamp'.history /\ stamp'.frontier = stamp.frontier
    <2>1. CASE reserved = end
      BY <2>1, StampFields DEF ContentInv, TypeOK, Reserve
    <2>2. CASE reserved # end
      <3>1. stamp' = [stamp EXCEPT !.history = @ + 1]
        BY <2>2 DEF Reserve
      <3> QED
        BY <3>1, StampFields DEF ContentInv, TypeOK, Stamps
    <2> QED
      BY <2>1, <2>2
  <1>3. TypeOK'
    BY <1>1, <1>2 DEF ContentInv, TypeOK, Reserve
  <1>4. evaluated \in Nat /\ reserved \in Nat /\ evaluated <= reserved /\ reserved <= end
    BY DEF ContentInv, TypeOK, Certified, Reserve
  <1>5. BlocksOf(evaluated) <= BlocksOf(reserved) /\ BlocksOf(reserved) <= BlocksOf(end)
    BY <1>4, BlocksMonotone
  <1>6. BlocksOf(evaluated) \in Nat /\ BlocksOf(reserved) \in Nat /\ BlocksOf(end) \in Nat
    BY <1>4, BlocksNat
  <1>7. \A i \in 1 .. BlocksOf(evaluated) : versions'[i] = versions[i]
    BY <1>1, <1>5, <1>6 DEF ContentInv, Certified
  <1>8. \A i \in 1 .. BlocksOf(evaluated) : versions'[i] \in 1 .. stamp'.history
    <2> TAKE i \in 1 .. BlocksOf(evaluated)
    <2>1. versions'[i] \in 1 .. stamp.history
      BY <1>7 DEF ContentInv, Certified
    <2>2. stamp.history \in Nat /\ stamp'.history \in Nat /\ stamp.history <= stamp'.history
      BY <1>2, StampFields DEF ContentInv, TypeOK, Stamps
    <2> QED
      BY <2>1, <2>2
  <1>9. evaluated' = evaluated /\ rows' = rows /\ reserved' = end
    BY DEF Reserve
  <1>10. Certified'
    BY <1>1, <1>2, <1>4, <1>8, <1>9 DEF ContentInv, Certified, BlocksOf
  <1> QED
    BY <1>3, <1>10 DEF ContentInv

LEMMA AcceptKeeps ==
  ASSUME ContentInv, NEW end \in Nat, Accept(end)
  PROVE  ContentInv'
  <1>1. stamp' \in Stamps /\ stamp.history <= stamp'.history /\ stamp'.frontier = end
    <2>1. CASE end = stamp.frontier
      <3>1. stamp' = [stamp EXCEPT !.frontier = end, !.history = stamp.history]
        BY <2>1 DEF Accept
      <3>2. stamp.history \in Nat /\ stamp.history <= stamp.history
        BY StampFields DEF ContentInv
      <3> QED
        BY <3>1, <3>2 DEF ContentInv, TypeOK, Stamps
    <2>2. CASE end # stamp.frontier
      <3>1. stamp' = [stamp EXCEPT !.frontier = end, !.history = stamp.history + 1]
        BY <2>2 DEF Accept
      <3> QED
        BY <3>1, StampFields DEF ContentInv, TypeOK, Stamps
    <2> QED
      BY <2>1, <2>2
  <1>2. TypeOK'
    BY <1>1 DEF ContentInv, TypeOK, Accept
  <1>3. \A i \in 1 .. BlocksOf(evaluated) : versions[i] \in 1 .. stamp'.history
    BY <1>1 DEF ContentInv, Certified, TypeOK, Stamps
  <1>4. Certified'
    BY <1>1, <1>3 DEF ContentInv, Certified, TypeOK, Accept, BlocksOf
  <1> QED
    BY <1>2, <1>4 DEF ContentInv

LEMMA ComputedIs ==
  ASSUME ContentInv, NEW begin \in Nat, NEW end \in Nat, NEW rev \in Nat,
         begin <= stamp.frontier
  PROVE  /\ Computed(begin, end, rev) \in Seq(Rows)
         /\ Len(Computed(begin, end, rev)) = IF end < Len(rows) THEN Len(rows) ELSE end
  <1> DEFINE n == IF end < Len(rows) THEN Len(rows) ELSE end
             row(k) == IF begin < k /\ k <= end
                       THEN [token |-> IF k <= stamp.frontier THEN rows[k].token ELSE rev, by |-> rev]
                       ELSE rows[k]
  <1>1. Len(rows) \in Nat /\ stamp.frontier \in Nat /\ stamp.frontier <= Len(rows)
    BY StampFields DEF ContentInv, Certified, TypeOK
  <1>2. n \in Nat
    BY <1>1
  <1>3. ASSUME NEW k \in 1 .. n PROVE row(k) \in Rows
    <2>1. CASE begin < k /\ k <= end
      <3>1. CASE k <= stamp.frontier
        <4>1. rows[k] \in Rows
          BY <3>1, <1>1, <1>2 DEF ContentInv, TypeOK
        <4> QED
          BY <4>1, <2>1, <3>1 DEF Rows
      <3>2. CASE ~(k <= stamp.frontier)
        BY <2>1, <3>2 DEF Rows
      <3> QED
        BY <3>1, <3>2
    <2>2. CASE ~(begin < k /\ k <= end)
      <3>1. k \in 1 .. Len(rows)
        BY <2>2, <1>1, <1>2
      <3>2. rows[k] \in Rows
        BY <3>1 DEF ContentInv, TypeOK
      <3> QED
        BY <3>2, <2>2
    <2> QED
      BY <2>1, <2>2
  <1>4. Computed(begin, end, rev) = [k \in 1 .. n |-> row(k)]
    BY DEF Computed
  <1> HIDE DEF n, row
  <1>5. Computed(begin, end, rev) \in [1 .. n -> Rows]
    BY <1>3, <1>4
  <1>6. Computed(begin, end, rev) \in Seq(Rows) /\ Len(Computed(begin, end, rev)) = n
    BY <1>2, <1>5
  <1> QED
    BY <1>6 DEF n

LEMMA CompleteKeeps ==
  ASSUME ContentInv, NEW begin \in Nat, NEW end \in Nat, NEW accepted \in BOOLEAN,
         Complete(begin, end, accepted)
  PROVE  ContentInv'
  <1> DEFINE rev == stamp.history + 1
  <1>1. rev \in Nat /\ 1 <= rev /\ stamp.history <= rev
    BY StampFields DEF ContentInv
  <1>2. /\ rows' = Computed(begin, end, rev)
        /\ evaluated' = IF end < evaluated THEN evaluated ELSE end
        /\ stamp' = [stamp EXCEPT !.history = rev,
                        !.frontier = IF accepted /\ end > @ THEN end ELSE @]
        /\ versions' = [i \in DOMAIN versions |->
                          IF begin \div BlockTokens < i /\ i <= BlocksOf(end) THEN rev ELSE versions[i]]
        /\ reserved' = reserved /\ leases' = leases
        /\ begin <= stamp.frontier /\ begin < end /\ end <= reserved
    BY DEF Complete
  <1> HIDE DEF rev
  <1>3. /\ stamp.frontier \in Nat /\ evaluated \in Nat /\ reserved \in Nat
        /\ stamp.frontier <= evaluated /\ evaluated <= reserved /\ evaluated = Len(rows)
        /\ Len(versions) = BlocksOf(reserved) /\ versions \in Seq(Nat)
    BY StampFields DEF ContentInv, TypeOK, Certified
  <1>4. /\ evaluated' \in Nat /\ evaluated <= evaluated' /\ end <= evaluated' /\ evaluated' <= reserved
        /\ evaluated' = end \/ evaluated' = evaluated
    BY <1>2, <1>3
  <1>5. rows' \in Seq(Rows) /\ Len(rows') = evaluated'
    <2>1. begin <= stamp.frontier
      BY <1>2
    <2>2. /\ Computed(begin, end, rev) \in Seq(Rows)
          /\ Len(Computed(begin, end, rev)) = IF end < Len(rows) THEN Len(rows) ELSE end
      BY <1>1, <2>1, ComputedIs
    <2> QED
      BY <1>2, <1>3, <2>2
  <1>6. (IF accepted /\ end > stamp.frontier THEN end ELSE stamp.frontier) \in Nat
    BY <1>3
  <1>7. stamp' \in Stamps /\ stamp'.history = rev
    BY <1>1, <1>2, <1>6 DEF ContentInv, TypeOK, Stamps
  <1>8. stamp'.frontier <= evaluated'
    <2>1. stamp'.frontier = IF accepted /\ end > stamp.frontier THEN end ELSE stamp.frontier
      BY <1>2 DEF ContentInv, TypeOK, Stamps
    <2> QED
      BY <2>1, <1>3, <1>4
  <1>9. versions' \in Seq(Nat) /\ Len(versions') = Len(versions)
    <2>1. DOMAIN versions = 1 .. Len(versions) /\ Len(versions) \in Nat
      BY <1>3
    <2>2. \A i \in 1 .. Len(versions) : versions[i] \in Nat
      BY <1>3
    <2>3. versions' \in [1 .. Len(versions) -> Nat]
      BY <1>1, <1>2, <2>1, <2>2
    <2> QED
      BY <2>1, <2>3
  <1>10. /\ BlocksOf(evaluated) \in Nat /\ BlocksOf(evaluated') \in Nat /\ BlocksOf(reserved) \in Nat
         /\ BlocksOf(end) \in Nat /\ BlocksOf(evaluated') <= BlocksOf(reserved)
         /\ BlocksOf(evaluated') = BlocksOf(end) \/ BlocksOf(evaluated') = BlocksOf(evaluated)
    BY <1>3, <1>4, BlocksNat, BlocksMonotone
  <1>11. /\ begin \div BlockTokens \in Nat
         /\ begin \div BlockTokens <= BlocksOf(evaluated)
    <2>1. begin \div BlockTokens <= BlocksOf(begin) /\ BlocksOf(begin) <= BlocksOf(evaluated)
      BY <1>2, <1>3, WholeBlocks, BlocksMonotone
    <2> QED
      BY <2>1, <1>10, BlocksNat, DivNat, ContentAssumption
  <1>12. ASSUME NEW i \in 1 .. BlocksOf(evaluated') PROVE versions'[i] \in 1 .. rev
    <2>1. i \in DOMAIN versions
      BY <1>3, <1>10
    <2>2. CASE begin \div BlockTokens < i /\ i <= BlocksOf(end)
      BY <2>1, <2>2, <1>1, <1>2
    <2>3. CASE ~(begin \div BlockTokens < i /\ i <= BlocksOf(end))
      <3>1. i \in 1 .. BlocksOf(evaluated)
        BY <2>3, <1>10, <1>11
      <3>2. versions[i] \in 1 .. stamp.history
        BY <3>1 DEF ContentInv, Certified
      <3> QED
        BY <3>2, <2>1, <2>3, <1>1, <1>2, StampFields DEF ContentInv
    <2> QED
      BY <2>2, <2>3
  <1>13. TypeOK'
    BY <1>2, <1>3, <1>4, <1>5, <1>7, <1>9 DEF ContentInv, TypeOK
  <1>14. Certified'
    BY <1>2, <1>3, <1>4, <1>5, <1>7, <1>8, <1>9, <1>12 DEF Certified, BlocksOf
  <1> QED
    BY <1>13, <1>14 DEF ContentInv

LEMMA TruncateKeeps ==
  ASSUME ContentInv, NEW end \in Nat, Truncate(end)
  PROVE  ContentInv'
  <1> DEFINE rev == stamp.history + 1
             atMost(n) == IF n < end THEN n ELSE end
             partial == end % BlockTokens # 0 /\ end <= stamp.frontier
  <1>1. rev \in Nat /\ 1 <= rev /\ stamp.history <= rev
    BY StampFields DEF ContentInv
  <1>2. /\ stamp' = [stamp EXCEPT !.history = rev, !.execution = @ + 1, !.frontier = atMost(@)]
        /\ reserved' = end /\ evaluated' = atMost(evaluated)
        /\ versions' = [i \in DOMAIN Resized(end) |->
                          IF partial /\ i = BlocksOf(end) THEN rev ELSE Resized(end)[i]]
        /\ rows' = SubSeq(rows, 1, atMost(Len(rows)))
        /\ leases' = Revoke(end) /\ end < reserved
    BY DEF Truncate
  <1> HIDE DEF rev, partial
  <1>3. /\ stamp.frontier \in Nat /\ evaluated \in Nat /\ reserved \in Nat
        /\ stamp.frontier <= evaluated /\ evaluated <= reserved /\ evaluated = Len(rows)
        /\ Len(versions) = BlocksOf(reserved) /\ versions \in Seq(Nat)
    BY StampFields DEF ContentInv, TypeOK, Certified
  <1>4. /\ evaluated' \in Nat /\ evaluated' <= end /\ evaluated' <= evaluated
        /\ atMost(stamp.frontier) \in Nat /\ atMost(stamp.frontier) <= evaluated'
        /\ atMost(Len(rows)) = evaluated'
    BY <1>2, <1>3
  <1> HIDE DEF atMost
  <1>5. stamp' \in Stamps /\ stamp'.history = rev /\ stamp'.frontier = atMost(stamp.frontier)
    BY <1>1, <1>2, <1>4, StampFields DEF ContentInv, TypeOK, Stamps
  <1>6. rows' \in Seq(Rows) /\ Len(rows') = evaluated'
    <2>1. \A k \in 1 .. evaluated' : rows[k] \in Rows
      BY <1>3, <1>4 DEF ContentInv, TypeOK
    <2>2. rows' = [k \in 1 .. evaluated' |-> rows[k]]
      BY <1>2, <1>3, <1>4 DEF ContentInv, TypeOK
    <2>3. rows' \in [1 .. evaluated' -> Rows]
      BY <2>1, <2>2
    <2> QED
      BY <2>3, <1>4
  <1>7. leases' \in [Leases -> Grants]
    BY <1>2, RevokeTyped DEF ContentInv
  <1>8. /\ Resized(end) \in Seq(Nat) /\ Len(Resized(end)) = BlocksOf(end)
        /\ \A i \in 1 .. BlocksOf(end) : i \in 1 .. Len(versions) => Resized(end)[i] = versions[i]
    BY <1>3, ResizedIs
  <1>9. versions' \in Seq(Nat) /\ Len(versions') = BlocksOf(end)
    <2>1. DOMAIN Resized(end) = 1 .. BlocksOf(end) /\ BlocksOf(end) \in Nat
      BY <1>8, BlocksNat
    <2>2. versions' \in [1 .. BlocksOf(end) -> Nat]
      BY <1>1, <1>2, <1>8, <2>1
    <2> QED
      BY <2>1, <2>2
  <1>10. /\ BlocksOf(evaluated') \in Nat /\ BlocksOf(evaluated) \in Nat /\ BlocksOf(end) \in Nat
         /\ BlocksOf(reserved) \in Nat
         /\ BlocksOf(evaluated') <= BlocksOf(end) /\ BlocksOf(evaluated') <= BlocksOf(evaluated)
         /\ BlocksOf(evaluated) <= BlocksOf(reserved)
    BY <1>3, <1>4, BlocksNat, BlocksMonotone
  <1>11. ASSUME NEW i \in 1 .. BlocksOf(evaluated') PROVE versions'[i] \in 1 .. rev
    <2>1. i \in 1 .. BlocksOf(end) /\ i \in 1 .. BlocksOf(evaluated) /\ i \in 1 .. Len(versions)
      BY <1>3, <1>10
    <2>2. versions[i] \in 1 .. stamp.history
      BY <2>1 DEF ContentInv, Certified
    <2>3. versions'[i] = rev \/ versions'[i] = versions[i]
      BY <1>2, <1>8, <2>1
    <2> QED
      BY <2>2, <2>3, <1>1, StampFields DEF ContentInv
  <1>12. TypeOK'
    BY <1>2, <1>4, <1>5, <1>6, <1>7, <1>9 DEF TypeOK
  <1>13. Certified'
    BY <1>2, <1>4, <1>5, <1>6, <1>9, <1>11 DEF Certified, BlocksOf
  <1> QED
    BY <1>12, <1>13 DEF ContentInv

\* change_execution and publish move the stamp but neither the frontier nor a
\* version.
LEMMA StampMoveKeeps ==
  ASSUME ContentInv, ChangeExecution \/ Publish(stamp)
  PROVE  ContentInv'
  <1>1. /\ stamp' \in Stamps /\ stamp'.frontier = stamp.frontier
        /\ stamp'.history = stamp.history \/ stamp'.history = stamp.history + 1
    <2>1. CASE ChangeExecution
      BY <2>1, StampFields DEF ChangeExecution, ContentInv, TypeOK, Stamps
    <2>2. CASE Publish(stamp)
      BY <2>2, StampFields DEF Publish, ContentInv, TypeOK, Stamps
    <2> QED
      BY <2>1, <2>2
  <1>2. UNCHANGED <<reserved, evaluated, versions, leases, rows>>
    BY DEF ChangeExecution, Publish
  <1>3. \A i \in 1 .. BlocksOf(evaluated) : versions[i] \in 1 .. stamp'.history
    <2>1. stamp.history \in Nat /\ stamp'.history \in Nat /\ stamp.history <= stamp'.history
      BY <1>1, StampFields DEF ContentInv
    <2>2. \A i \in 1 .. BlocksOf(evaluated) : versions[i] \in 1 .. stamp.history
      BY DEF ContentInv, Certified
    <2> QED
      BY <2>1, <2>2
  <1>4. TypeOK'
    BY <1>1, <1>2 DEF ContentInv, TypeOK
  <1>5. Certified'
    BY <1>1, <1>2, <1>3 DEF ContentInv, Certified, BlocksOf
  <1> QED
    BY <1>4, <1>5 DEF ContentInv

-----------------------------------------------------------------------------

\* One step of the ledger, whatever the engine calls.
LEMMA NextKeeps == ASSUME ContentInv, [Next]_contentVars PROVE ContentInv'
  <1>0. 0 .. MaxTokens \subseteq Nat
    BY ContentAssumption
  <1>1. CASE Reset
    BY <1>1, ResetKeeps
  <1>2. CASE ChangeExecution \/ Publish(stamp)
    BY <1>2, StampMoveKeeps
  <1>3. ASSUME NEW end \in 0 .. MaxTokens, Reserve(end) PROVE ContentInv'
    BY <1>0, <1>3, ReserveKeeps
  <1>4. ASSUME NEW end \in 0 .. MaxTokens, Accept(end) PROVE ContentInv'
    BY <1>0, <1>4, AcceptKeeps
  <1>5. ASSUME NEW end \in 0 .. MaxTokens, Truncate(end) PROVE ContentInv'
    BY <1>0, <1>5, TruncateKeeps
  <1>6. ASSUME NEW begin \in 0 .. MaxTokens, NEW end \in 0 .. MaxTokens,
               NEW accepted \in BOOLEAN, Complete(begin, end, accepted)
        PROVE  ContentInv'
    BY <1>0, <1>6, CompleteKeeps
  <1>7. CASE Invalidate
    BY <1>7, InvalidateKeeps
  <1>8. ASSUME NEW h \in Leases, NEW end \in 0 .. MaxTokens, Grant(h, end) PROVE ContentInv'
    BY <1>0, <1>8, GrantKeeps
  <1>9. CASE UNCHANGED contentVars
    BY <1>9 DEF contentVars, ContentInv, TypeOK, Certified, BlocksOf
  <1> QED
    BY <1>1, <1>2, <1>3, <1>4, <1>5, <1>6, <1>7, <1>8, <1>9 DEF Next, Edit

LEMMA ContentInitially == ASSUME Init PROVE ContentInv
  BY NoBlocks DEF Init, ContentInv, TypeOK, Certified, Stamps, Grants, NoLease, Rows

\* The ledger keeps its types and certifies only completed rows, whatever the
\* engine calls and in whatever order.
THEOREM LedgerInvariant == Spec => []ContentInv
  <1>1. Init => ContentInv
    BY ContentInitially
  <1>2. ContentInv /\ [Next]_contentVars => ContentInv'
    BY NextKeeps
  <1> QED
    BY <1>1, <1>2, PTL DEF Spec

\* Accepted rows are evaluated, evaluated rows are reserved, and every block
\* that holds one has a version: block() never refuses a block of a valid
\* history, and a snapshot of it is complete.
THEOREM OnlyCompletedRows == Spec => []Certified
  <1>1. ContentInv => Certified
    BY DEF ContentInv
  <1> QED
    BY <1>1, LedgerInvariant, PTL

-----------------------------------------------------------------------------
(* Prefix leases                                                            *)

\* What makes PrefixKept inductive: a lease that is still valid lies within the
\* accepted rows, for every call that takes rows away from under it revokes it.
LeaseInv ==
    \A h \in Leases : leases[h].valid =>
        /\ Len(leases[h].tokens) <= stamp.frontier
        /\ \A k \in 1 .. Len(leases[h].tokens) : leases[h].tokens[k] = rows[k].token

\* A call that revokes everything leaves nothing to keep.
LEMMA AllRevoked == ASSUME ContentInv, leases' = RevokeAll PROVE LeaseInv'
  <1>1. \A h \in Leases : ~leases'[h].valid
    BY DEF RevokeAll, ContentInv, TypeOK, Grants
  <1> QED
    BY <1>1 DEF LeaseInv

\* A call that leaves the leases alone, takes no accepted row away and gives none
\* another token.
LEMMA LeasesKept ==
  ASSUME ContentInv, LeaseInv, leases' = leases, stamp.frontier <= stamp'.frontier,
         stamp'.frontier \in Nat,
         \A k \in 1 .. stamp.frontier : rows'[k].token = rows[k].token
  PROVE  LeaseInv'
  <1> SUFFICES ASSUME NEW h \in Leases, leases[h].valid
               PROVE  /\ Len(leases[h].tokens) <= stamp'.frontier
                      /\ \A k \in 1 .. Len(leases[h].tokens) : leases[h].tokens[k] = rows'[k].token
    BY DEF LeaseInv
  <1>1. /\ Len(leases[h].tokens) <= stamp.frontier
        /\ \A k \in 1 .. Len(leases[h].tokens) : leases[h].tokens[k] = rows[k].token
    BY DEF LeaseInv
  <1>2. Len(leases[h].tokens) \in Nat /\ stamp.frontier \in Nat
    BY StampFields DEF ContentInv, TypeOK, Grants
  <1> QED
    BY <1>1, <1>2

LEMMA GrantLeases ==
  ASSUME ContentInv, LeaseInv, NEW h \in Leases, NEW end \in Nat, Grant(h, end)
  PROVE  LeaseInv'
  <1>1. stamp' = stamp /\ rows' = rows /\ end <= stamp.frontier
    BY DEF Grant
  <1>2. leases'[h].tokens = Prefix(end) /\ Len(Prefix(end)) = end
    BY DEF Grant, Revoke, Prefix
  <1>3. \A k \in 1 .. end : Prefix(end)[k] = rows[k].token
    BY DEF Prefix
  <1>4. \A g \in Leases \ {h} : leases'[g].valid =>
            leases[g].valid /\ leases'[g].tokens = leases[g].tokens
    BY DEF Grant, Revoke, ContentInv, TypeOK, Grants
  <1> QED
    BY <1>1, <1>2, <1>3, <1>4 DEF LeaseInv

LEMMA TruncateLeases ==
  ASSUME ContentInv, LeaseInv, NEW end \in Nat, Truncate(end)
  PROVE  LeaseInv'
  <1> SUFFICES ASSUME NEW h \in Leases, leases'[h].valid
               PROVE  /\ Len(leases'[h].tokens) <= stamp'.frontier
                      /\ \A k \in 1 .. Len(leases'[h].tokens) :
                             leases'[h].tokens[k] = rows'[k].token
    BY DEF LeaseInv
  <1>1. leases'[h] = leases[h] /\ Len(leases[h].tokens) <= end
    BY DEF Truncate, Revoke, ContentInv, TypeOK, Grants
  <1>2. /\ Len(leases[h].tokens) <= stamp.frontier
        /\ \A k \in 1 .. Len(leases[h].tokens) : leases[h].tokens[k] = rows[k].token
    BY <1>1 DEF LeaseInv
  <1>3. stamp'.frontier = IF stamp.frontier < end THEN stamp.frontier ELSE end
    BY DEF Truncate, ContentInv, TypeOK, Stamps
  <1>4. rows' = SubSeq(rows, 1, IF Len(rows) < end THEN Len(rows) ELSE end)
    BY DEF Truncate
  <1>5. /\ Len(leases[h].tokens) \in Nat /\ Len(rows) \in Nat /\ rows \in Seq(Rows)
        /\ stamp.frontier \in Nat /\ stamp.frontier <= Len(rows)
    BY StampFields DEF ContentInv, TypeOK, Certified, Grants
  <1>6. \A k \in 1 .. Len(leases[h].tokens) : rows'[k] = rows[k]
    BY <1>1, <1>2, <1>4, <1>5
  <1> QED
    BY <1>1, <1>2, <1>3, <1>5, <1>6

LEMMA CompleteLeases ==
  ASSUME ContentInv, LeaseInv, NEW begin \in Nat, NEW end \in Nat, NEW accepted \in BOOLEAN,
         Complete(begin, end, accepted)
  PROVE  LeaseInv'
  <1>1. /\ stamp.frontier \in Nat /\ stamp.frontier <= Len(rows) /\ Len(rows) \in Nat
    BY StampFields DEF ContentInv, TypeOK, Certified
  <1>2. stamp'.frontier = IF accepted /\ end > stamp.frontier THEN end ELSE stamp.frontier
    BY DEF Complete, ContentInv, TypeOK, Stamps
  <1>3. rows' = Computed(begin, end, stamp.history + 1)
    BY DEF Complete
  <1>4. \A k \in 1 .. stamp.frontier : rows'[k].token = rows[k].token
    BY <1>1, <1>3 DEF Computed
  <1> QED
    BY <1>1, <1>2, <1>4, LeasesKept DEF Complete

LEMMA NextLeases == ASSUME ContentInv, LeaseInv, [Next]_contentVars PROVE LeaseInv'
  <1>0. 0 .. MaxTokens \subseteq Nat /\ stamp.frontier \in Nat
    BY ContentAssumption, StampFields DEF ContentInv
  <1>1. CASE Reset \/ Invalidate
    BY <1>1, AllRevoked DEF Reset, Invalidate
  <1>2. CASE ChangeExecution \/ Publish(stamp)
    <2>1. stamp'.frontier = stamp.frontier /\ leases' = leases /\ rows' = rows
      BY <1>2 DEF ChangeExecution, Publish, ContentInv, TypeOK, Stamps
    <2> QED
      BY <2>1, <1>0, LeasesKept
  <1>3. ASSUME NEW end \in 0 .. MaxTokens, Reserve(end) \/ Accept(end) PROVE LeaseInv'
    <2>1. CASE Reserve(end)
      <3>1. stamp'.frontier = stamp.frontier /\ leases' = leases /\ rows' = rows
        BY <2>1, StampFields DEF Reserve, ContentInv, TypeOK, Stamps
      <3> QED
        BY <3>1, <1>0, LeasesKept
    <2>2. CASE Accept(end)
      <3>1. /\ stamp'.frontier = end /\ stamp.frontier <= end /\ end \in Nat
            /\ leases' = leases /\ rows' = rows
        BY <2>2, <1>0 DEF Accept, ContentInv, TypeOK, Stamps
      <3> QED
        BY <3>1, LeasesKept
    <2> QED
      BY <1>3, <2>1, <2>2
  <1>4. ASSUME NEW end \in 0 .. MaxTokens, Truncate(end) PROVE LeaseInv'
    BY <1>0, <1>4, TruncateLeases
  <1>5. ASSUME NEW begin \in 0 .. MaxTokens, NEW end \in 0 .. MaxTokens,
               NEW accepted \in BOOLEAN, Complete(begin, end, accepted)
        PROVE  LeaseInv'
    BY <1>0, <1>5, CompleteLeases
  <1>6. ASSUME NEW h \in Leases, NEW end \in 0 .. MaxTokens, Grant(h, end) PROVE LeaseInv'
    BY <1>0, <1>6, GrantLeases
  <1>7. CASE UNCHANGED contentVars
    BY <1>7 DEF contentVars, LeaseInv
  <1> QED
    BY <1>1, <1>2, <1>3, <1>4, <1>5, <1>6, <1>7 DEF Next, Edit

\* A lease the ledger still honours names the rows that are there: a checkpoint
\* that passes contains() restores a prefix of the present history.
THEOREM LeasesNamePrefixes == Spec => []PrefixKept
  <1>1. Init => LeaseInv
    BY DEF Init, LeaseInv, NoLease
  <1>2. ContentInv /\ LeaseInv /\ [Next]_contentVars => LeaseInv'
    BY NextLeases
  <1>3. ContentInv /\ LeaseInv => PrefixKept
    <2> SUFFICES ASSUME ContentInv, LeaseInv, NEW h \in Leases, Contains(h)
                 PROVE  leases[h].tokens = Prefix(Len(leases[h].tokens))
      BY DEF PrefixKept
    <2>1. leases[h].tokens \in Seq(Nat)
      BY DEF ContentInv, TypeOK, Grants
    <2>2. \A k \in 1 .. Len(leases[h].tokens) : leases[h].tokens[k] = rows[k].token
      BY DEF Contains, LeaseInv
    <2> DEFINE t == leases[h].tokens
    <2> HIDE DEF t
    <2>3. t \in Seq(Nat) /\ \A k \in 1 .. Len(t) : t[k] = rows[k].token
      BY <2>1, <2>2 DEF t
    <2>4. t = [k \in 1 .. Len(t) |-> t[k]]
      BY <2>3
    <2>5. [k \in 1 .. Len(t) |-> t[k]] = [k \in 1 .. Len(t) |-> rows[k].token]
      BY <2>3, Zenon
    <2> QED
      BY <2>4, <2>5, Zenon DEF Prefix, t
  <1> QED
    BY <1>1, <1>2, <1>3, LedgerInvariant, PTL DEF Spec

-----------------------------------------------------------------------------
(* Rows and their blocks                                                    *)

LEMMA ProductMonotone ==
  ASSUME NEW a \in Nat, NEW c \in Nat, a <= c, NEW b \in Nat
  PROVE  a * b <= c * b /\ a * b \in Nat /\ c * b \in Nat
  BY SMT

LEMMA Division ==
  ASSUME NEW n \in Nat, NEW b \in Nat \ {0}
  PROVE  /\ n \div b \in Nat /\ n % b \in 0 .. (b - 1)
         /\ n = (n \div b) * b + (n % b)
  BY SMT

LEMMA FirstRowNat ==
  ASSUME NEW i \in Nat \ {0}
  PROVE  FirstRow(i) \in Nat /\ FirstRow(i) + BlockTokens = i * BlockTokens
  <1>1. BlockTokens \in Nat
    BY ContentAssumption
  <1>2. (i - 1) * BlockTokens + BlockTokens = i * BlockTokens /\ (i - 1) * BlockTokens \in Nat
    BY <1>1, SMT
  <1> QED
    BY <1>2 DEF FirstRow

\* A row of block i that lies in (begin, end] puts block i among the blocks a
\* completion of these rows marks.
LEMMA RowInTouchedBlock ==
  ASSUME NEW i \in Nat \ {0}, NEW k \in 1 .. BlockTokens, NEW begin \in Nat, NEW end \in Nat,
         begin < FirstRow(i) + k, FirstRow(i) + k <= end
  PROVE  begin \div BlockTokens < i /\ i <= BlocksOf(end)
  <1>1. BlockTokens \in Nat \ {0}
    BY ContentAssumption
  <1>2. FirstRow(i) \in Nat /\ FirstRow(i) + BlockTokens = i * BlockTokens
    BY FirstRowNat
  <1>3. begin \div BlockTokens < i
    <2> DEFINE q == begin \div BlockTokens
    <2>0. q \in Nat /\ begin % BlockTokens \in 0 .. (BlockTokens - 1)
          /\ begin = q * BlockTokens + (begin % BlockTokens)
      BY <1>1, Division, Zenon
    <2>1. q \in Nat /\ q * BlockTokens <= begin /\ q * BlockTokens \in Nat
      <3> HIDE DEF q
      <3>1. q * BlockTokens \in Nat
        BY <1>1, <2>0, ProductMonotone
      <3> QED
        BY <1>1, <2>0, <3>1
    <2>2. begin < i * BlockTokens
      BY <1>1, <1>2
    <2> HIDE DEF q
    <2>3. i <= q => i * BlockTokens <= q * BlockTokens
      BY <1>1, <2>1, ProductMonotone
    <2>4. i * BlockTokens \in Nat
      BY <1>1, ProductMonotone
    <2>5. q < i
      BY <2>1, <2>2, <2>3, <2>4
    <2> QED
      BY <2>5 DEF q
  <1>4. i <= BlocksOf(end)
    <2> DEFINE n == end + BlockTokens - 1
               q == n \div BlockTokens
    <2>1. n \in Nat /\ i * BlockTokens <= n
      BY <1>1, <1>2
    <2>0. q \in Nat /\ n % BlockTokens \in 0 .. (BlockTokens - 1)
          /\ n = q * BlockTokens + (n % BlockTokens)
      BY <1>1, <2>1, Division, Zenon
    <2>2. q \in Nat /\ n < q * BlockTokens + BlockTokens /\ q * BlockTokens \in Nat
      <3> HIDE DEF n, q
      <3>1. q * BlockTokens \in Nat
        BY <1>1, <2>0, ProductMonotone
      <3> QED
        BY <1>1, <2>0, <3>1
    <2> HIDE DEF n, q
    <2>3. (q + 1) * BlockTokens = q * BlockTokens + BlockTokens
      BY <1>1, <2>2, SMT
    <2>4. q + 1 <= i => (q + 1) * BlockTokens <= i * BlockTokens
      BY <1>1, <2>2, ProductMonotone
    <2>5. i * BlockTokens \in Nat
      BY <1>1, ProductMonotone
    <2>6. i <= q
      BY <1>1, <2>1, <2>2, <2>3, <2>4, <2>5
    <2> QED
      BY <2>6 DEF n, q, BlocksOf
  <1> QED
    BY <1>3, <1>4

\* A block before the last block of n rows lies wholly within them, with a row
\* to spare, and the last one does when n is a multiple of the block size.
LEMMA WholeBefore ==
  ASSUME NEW n \in Nat, NEW i \in 1 .. BlocksOf(n), i < BlocksOf(n) \/ n % BlockTokens = 0
  PROVE  i * BlockTokens <= n /\ (i < BlocksOf(n) => i * BlockTokens < n)
  <1> DEFINE m == n + BlockTokens - 1
             q == m \div BlockTokens
             r == m % BlockTokens
  <1>1. BlockTokens \in Nat \ {0} /\ m \in Nat
    BY ContentAssumption
  <1>2. q \in Nat /\ r \in 0 .. (BlockTokens - 1) /\ m = q * BlockTokens + r
    BY <1>1, Division
  <1>3. i \in 1 .. q /\ (i < q \/ n % BlockTokens = 0) /\ q = BlocksOf(n)
    BY DEF BlocksOf
  <1>4. q * BlockTokens \in Nat /\ i * BlockTokens \in Nat /\ i * BlockTokens <= q * BlockTokens
    BY <1>1, <1>2, <1>3, ProductMonotone
  <1>5. ASSUME i < q PROVE i * BlockTokens < n
    <2>1. (i + 1) * BlockTokens <= q * BlockTokens
      BY <1>1, <1>2, <1>3, <1>5, ProductMonotone
    <2>2. (i + 1) * BlockTokens = i * BlockTokens + BlockTokens
      BY <1>1, <1>3, SMT
    <2> HIDE DEF q, r
    <2> QED
      BY <1>1, <1>2, <1>4, <2>1, <2>2
  <1>6. ASSUME n % BlockTokens = 0 PROVE i * BlockTokens <= n
    <2> DEFINE p == n \div BlockTokens
    <2>0. p \in Nat /\ n = p * BlockTokens + (n % BlockTokens)
      BY <1>1, Division, Zenon
    <2>1. p \in Nat /\ n = p * BlockTokens
      <3> HIDE DEF p
      <3>1. p * BlockTokens \in Nat
        BY <1>1, <2>0, ProductMonotone
      <3> QED
        BY <1>6, <2>0, <3>1
    <2>2. (p + 1) * BlockTokens = p * BlockTokens + BlockTokens
      BY <1>1, <2>1, SMT
    <2>3. p + 1 <= q => (p + 1) * BlockTokens <= q * BlockTokens
      BY <1>1, <1>2, <2>1, ProductMonotone
    <2>4. m = n + BlockTokens - 1
      OBVIOUS
    <2> HIDE DEF m, q, r, p
    <2>5. q <= p
      BY <1>1, <1>2, <1>4, <2>1, <2>2, <2>3, <2>4
    <2>6. i * BlockTokens <= p * BlockTokens
      BY <1>1, <1>2, <1>3, <2>1, <2>5, ProductMonotone
    <2> QED
      BY <2>1, <2>6
  <1> HIDE DEF q
  <1> QED
    BY <1>1, <1>3, <1>4, <1>5, <1>6

-----------------------------------------------------------------------------
(* Whoever kept a copy                                                      *)

LEMMA SameSlice ==
  ASSUME NEW s \in Seq(Rows), NEW t \in Seq(Rows), NEW a \in Nat, NEW n \in Nat,
         a + n <= Len(s), a + n <= Len(t), \A k \in 1 .. n : s[a + k] = t[a + k]
  PROVE  SubSeq(s, a + 1, a + n) = SubSeq(t, a + 1, a + n)
  <1>1. SubSeq(s, a + 1, a + n) = [k \in 1 .. n |-> s[a + k]]
    BY SMT
  <1>2. SubSeq(t, a + 1, a + n) = [k \in 1 .. n |-> t[a + k]]
    BY SMT
  <1> QED
    BY <1>1, <1>2

-----------------------------------------------------------------------------
(* What no call of the ledger does                                          *)

\* The history number and the incarnation never go back; a call that leaves the
\* history number alone leaves the accepted rows alone; and a block that keeps a
\* version it had before the call keeps the accepted rows it had.
Preserves ==
    /\ stamp.incarnation <= stamp'.incarnation /\ stamp.history <= stamp'.history
    /\ stamp'.history = stamp.history => stamp'.frontier = stamp.frontier /\ rows' = rows
    /\ \A i \in DOMAIN versions' :
         stamp'.incarnation = stamp.incarnation /\ versions'[i] \in 1 .. stamp.history =>
           /\ i \in DOMAIN versions /\ versions[i] = versions'[i]
           /\ \A k \in 1 .. BlockTokens : FirstRow(i) + k <= stamp.frontier =>
                /\ FirstRow(i) + k <= stamp'.frontier
                /\ rows'[FirstRow(i) + k] = rows[FirstRow(i) + k]

\* Calls that leave the rows and the versions alone and take nothing accepted
\* away.
LEMMA QuietPreserves ==
  ASSUME ContentInv, UNCHANGED <<rows, versions>>, stamp'.incarnation = stamp.incarnation,
         stamp'.frontier \in Nat, stamp.frontier <= stamp'.frontier,
         \/ stamp'.history = stamp.history + 1
         \/ stamp'.history = stamp.history /\ stamp'.frontier = stamp.frontier
  PROVE  Preserves
  <1>1. /\ stamp.frontier \in Nat /\ stamp.history \in Nat /\ stamp.incarnation \in Nat
    BY StampFields DEF ContentInv
  <1>2. ASSUME NEW i \in DOMAIN versions, NEW k \in 1 .. BlockTokens,
               FirstRow(i) + k <= stamp.frontier
        PROVE  FirstRow(i) + k <= stamp'.frontier
    <2>1. i \in Nat \ {0}
      BY DEF ContentInv, TypeOK
    <2>2. FirstRow(i) + k \in Nat
      BY <2>1, FirstRowNat, ContentAssumption
    <2> QED
      BY <1>1, <1>2, <2>2
  <1> QED
    BY <1>1, <1>2 DEF Preserves

LEMMA ResetPreserves == ASSUME ContentInv, Reset PROVE Preserves
  <1>1. /\ stamp'.incarnation = stamp.incarnation + 1 /\ stamp'.history = stamp.history + 1
        /\ stamp.incarnation \in Nat /\ stamp.history \in Nat
    BY StampFields DEF Reset, ContentInv, TypeOK, Stamps
  <1> QED
    BY <1>1 DEF Preserves

LEMMA ReservePreserves == ASSUME ContentInv, NEW end \in Nat, Reserve(end) PROVE Preserves
  <1>1. /\ stamp.frontier \in Nat /\ stamp.history \in Nat /\ stamp.incarnation \in Nat
    BY StampFields DEF ContentInv
  <1>2. /\ stamp'.frontier = stamp.frontier /\ stamp'.incarnation = stamp.incarnation
        /\ stamp'.history \in {stamp.history, stamp.history + 1}
    BY <1>1 DEF Reserve, ContentInv, TypeOK, Stamps
  <1>3. rows' = rows /\ versions' = Resized(end)
    BY DEF Reserve
  <1>4. \A i \in DOMAIN versions' : versions'[i] \in 1 .. stamp.history =>
            i \in DOMAIN versions /\ versions[i] = versions'[i]
    BY <1>1, <1>3 DEF Resized
  <1> QED
    BY <1>1, <1>2, <1>3, <1>4 DEF Preserves

LEMMA CompletePreserves ==
  ASSUME ContentInv, NEW begin \in Nat, NEW end \in Nat, NEW accepted \in BOOLEAN,
         Complete(begin, end, accepted)
  PROVE  Preserves
  <1> DEFINE rev == stamp.history + 1
  <1>1. /\ stamp.frontier \in Nat /\ stamp.history \in Nat /\ stamp.incarnation \in Nat
        /\ stamp.frontier <= Len(rows) /\ Len(rows) \in Nat
    BY StampFields DEF ContentInv, TypeOK, Certified
  <1>2. /\ stamp'.history = rev /\ stamp'.incarnation = stamp.incarnation
        /\ stamp.frontier <= stamp'.frontier /\ stamp'.frontier \in Nat
    BY <1>1 DEF Complete, ContentInv, TypeOK, Stamps
  <1>3. versions' = [i \in DOMAIN versions |->
                      IF begin \div BlockTokens < i /\ i <= BlocksOf(end) THEN rev ELSE versions[i]]
    BY DEF Complete
  <1>4. rows' = Computed(begin, end, rev)
    BY DEF Complete
  <1>5. ASSUME NEW i \in DOMAIN versions', versions'[i] \in 1 .. stamp.history
        PROVE  /\ i \in DOMAIN versions /\ versions[i] = versions'[i]
               /\ \A k \in 1 .. BlockTokens : FirstRow(i) + k <= stamp.frontier =>
                    /\ FirstRow(i) + k <= stamp'.frontier
                    /\ rows'[FirstRow(i) + k] = rows[FirstRow(i) + k]
    <2>1. i \in DOMAIN versions /\ i \in Nat \ {0}
      BY <1>3 DEF ContentInv, TypeOK
    <2>2. ~(begin \div BlockTokens < i /\ i <= BlocksOf(end)) /\ versions[i] = versions'[i]
      BY <1>1, <1>3, <1>5, <2>1
    <2>3. ASSUME NEW k \in 1 .. BlockTokens, FirstRow(i) + k <= stamp.frontier
          PROVE  /\ FirstRow(i) + k <= stamp'.frontier
                 /\ rows'[FirstRow(i) + k] = rows[FirstRow(i) + k]
      <3>1. FirstRow(i) + k \in 1 .. Len(rows)
        <4>1. FirstRow(i) \in Nat /\ k \in Nat \ {0}
          BY <2>1, FirstRowNat, ContentAssumption
        <4> QED
          BY <1>1, <2>3, <4>1
      <3>2. ~(begin < FirstRow(i) + k /\ FirstRow(i) + k <= end)
        BY <2>1, <2>2, RowInTouchedBlock
      <3>3. rows'[FirstRow(i) + k] = rows[FirstRow(i) + k]
        BY <1>1, <1>4, <3>1, <3>2 DEF Computed
      <3> QED
        BY <1>1, <1>2, <2>3, <3>1, <3>3
    <2> QED
      BY <2>1, <2>2, <2>3
  <1> QED
    BY <1>1, <1>2, <1>5 DEF Preserves

LEMMA TruncatePreserves == ASSUME ContentInv, NEW end \in Nat, Truncate(end) PROVE Preserves
  <1> DEFINE rev == stamp.history + 1
             partial == end % BlockTokens # 0 /\ end <= stamp.frontier
  <1>1. /\ stamp.frontier \in Nat /\ stamp.history \in Nat /\ stamp.incarnation \in Nat
        /\ stamp.frontier <= Len(rows) /\ Len(rows) \in Nat /\ rows \in Seq(Rows)
    BY StampFields DEF ContentInv, TypeOK, Certified
  <1>2. /\ stamp'.history = rev /\ stamp'.incarnation = stamp.incarnation
        /\ stamp'.frontier = IF stamp.frontier < end THEN stamp.frontier ELSE end
    BY <1>1 DEF Truncate, ContentInv, TypeOK, Stamps
  <1>3. versions' = [i \in DOMAIN Resized(end) |->
                      IF partial /\ i = BlocksOf(end) THEN rev ELSE Resized(end)[i]]
    BY DEF Truncate
  <1>4. rows' = SubSeq(rows, 1, IF Len(rows) < end THEN Len(rows) ELSE end)
    BY DEF Truncate
  <1>5. ASSUME NEW i \in DOMAIN versions', versions'[i] \in 1 .. stamp.history
        PROVE  /\ i \in DOMAIN versions /\ versions[i] = versions'[i]
               /\ \A k \in 1 .. BlockTokens : FirstRow(i) + k <= stamp.frontier =>
                    /\ FirstRow(i) + k <= stamp'.frontier
                    /\ rows'[FirstRow(i) + k] = rows[FirstRow(i) + k]
    <2>1. i \in 1 .. BlocksOf(end) /\ BlocksOf(end) \in Nat
      BY <1>3, BlocksNat DEF Resized
    <2>2. ~(partial /\ i = BlocksOf(end)) /\ versions'[i] = Resized(end)[i]
      BY <1>1, <1>3, <1>5
    <2>3. i \in DOMAIN versions /\ versions[i] = versions'[i]
      BY <1>5, <2>1, <2>2 DEF Resized
    <2>4. ASSUME NEW k \in 1 .. BlockTokens, FirstRow(i) + k <= stamp.frontier
          PROVE  FirstRow(i) + k <= end
      <3>1. FirstRow(i) \in Nat /\ FirstRow(i) + BlockTokens = i * BlockTokens
        BY <2>1, FirstRowNat
      <3>2. CASE stamp.frontier < end
        BY <1>1, <2>4, <3>1, <3>2, ContentAssumption
      <3>3. CASE ~(stamp.frontier < end)
        <4>1. i < BlocksOf(end) \/ end % BlockTokens = 0
          BY <1>1, <2>1, <2>2, <3>3
        <4>2. i * BlockTokens <= end
          BY <2>1, <4>1, WholeBefore
        <4> QED
          BY <3>1, <4>2, ContentAssumption
      <3> QED
        BY <3>2, <3>3
    <2>5. ASSUME NEW k \in 1 .. BlockTokens, FirstRow(i) + k <= stamp.frontier
          PROVE  /\ FirstRow(i) + k <= stamp'.frontier
                 /\ rows'[FirstRow(i) + k] = rows[FirstRow(i) + k]
      <3>1. FirstRow(i) + k \in 1 .. Len(rows) /\ FirstRow(i) + k <= end
        <4>1. FirstRow(i) \in Nat /\ k \in Nat \ {0}
          BY <2>1, FirstRowNat, ContentAssumption
        <4> QED
          BY <1>1, <2>4, <2>5, <4>1
      <3> DEFINE r == FirstRow(i) + k
      <3> HIDE DEF r
      <3>2. r \in 1 .. Len(rows) /\ r <= end /\ r <= stamp.frontier
        BY <3>1, <2>5 DEF r
      <3>3. rows'[r] = rows[r] /\ r <= stamp'.frontier
        BY <1>1, <1>2, <1>4, <3>2
      <3> QED
        BY <3>3 DEF r
    <2> QED
      BY <2>3, <2>5
  <1> QED
    BY <1>1, <1>2, <1>5 DEF Preserves

LEMMA NextPreserves == ASSUME ContentInv, [Next]_contentVars PROVE Preserves
  <1>0. /\ 0 .. MaxTokens \subseteq Nat
        /\ stamp.frontier \in Nat /\ stamp.history \in Nat /\ stamp.incarnation \in Nat
    BY ContentAssumption, StampFields DEF ContentInv
  <1>1. CASE Reset
    BY <1>1, ResetPreserves
  <1>2. CASE ChangeExecution \/ Publish(stamp) \/ Invalidate
    <2>1. /\ UNCHANGED <<rows, versions>> /\ stamp'.incarnation = stamp.incarnation
          /\ stamp'.frontier = stamp.frontier
          /\ stamp'.history \in {stamp.history, stamp.history + 1}
      BY <1>2 DEF ChangeExecution, Publish, Invalidate, ContentInv, TypeOK, Stamps
    <2> QED
      BY <1>0, <2>1, QuietPreserves
  <1>3. ASSUME NEW end \in 0 .. MaxTokens, Reserve(end) PROVE Preserves
    BY <1>0, <1>3, ReservePreserves
  <1>4. ASSUME NEW end \in 0 .. MaxTokens, Accept(end) PROVE Preserves
    <2>1. /\ UNCHANGED <<rows, versions>> /\ stamp'.incarnation = stamp.incarnation
          /\ stamp'.frontier = end /\ stamp.frontier <= end /\ end \in Nat
          /\ stamp'.history = IF end = stamp.frontier THEN stamp.history ELSE stamp.history + 1
      BY <1>0, <1>4 DEF Accept, ContentInv, TypeOK, Stamps
    <2>2. /\ stamp'.frontier \in Nat /\ stamp.frontier <= stamp'.frontier
          /\ \/ stamp'.history = stamp.history + 1
             \/ stamp'.history = stamp.history /\ stamp'.frontier = stamp.frontier
      BY <2>1
    <2> QED
      BY <2>1, <2>2, QuietPreserves
  <1>5. ASSUME NEW end \in 0 .. MaxTokens, Truncate(end) PROVE Preserves
    BY <1>0, <1>5, TruncatePreserves
  <1>6. ASSUME NEW begin \in 0 .. MaxTokens, NEW end \in 0 .. MaxTokens,
               NEW accepted \in BOOLEAN, Complete(begin, end, accepted)
        PROVE  Preserves
    BY <1>0, <1>6, CompletePreserves
  <1>7. ASSUME NEW h \in Leases, NEW end \in 0 .. MaxTokens, Grant(h, end) PROVE Preserves
    <2>1. UNCHANGED <<rows, versions>> /\ stamp' = stamp
      BY <1>7 DEF Grant
    <2>2. /\ stamp'.incarnation = stamp.incarnation /\ stamp'.frontier = stamp.frontier
          /\ stamp'.history = stamp.history
      BY <2>1
    <2> QED
      BY <1>0, <2>1, <2>2, QuietPreserves
  <1>8. CASE UNCHANGED contentVars
    <2>1. UNCHANGED <<rows, versions>> /\ stamp' = stamp
      BY <1>8 DEF contentVars
    <2>2. /\ stamp'.incarnation = stamp.incarnation /\ stamp'.frontier = stamp.frontier
          /\ stamp'.history = stamp.history
      BY <2>1
    <2> QED
      BY <1>0, <2>1, <2>2, QuietPreserves
  <1> QED
    BY <1>1, <1>2, <1>3, <1>4, <1>5, <1>6, <1>7, <1>8 DEF Next, Edit

-----------------------------------------------------------------------------
(* Somebody who looked once                                                 *)

\* The inductive invariant behind NamesHistory.  The weak point of the statement
\* is a block whose old descriptor does not fit any more but might fit again: so
\* it says of every block the ledger has now, whatever its tokens, that under
\* the version that was noted it holds the rows that were noted, accepted.
KeptInv ==
    kept.taken =>
        /\ kept.stamp.history \in Nat /\ kept.stamp.history <= stamp.history
        /\ kept.stamp.incarnation \in Nat /\ kept.stamp.incarnation <= stamp.incarnation
        /\ stamp.history = kept.stamp.history => SubSeq(rows, 1, stamp.frontier) = kept.rows
        /\ DOMAIN kept.blocks \subseteq Nat \ {0}
        /\ \A i \in DOMAIN kept.blocks :
             /\ kept.blocks[i].incarnation = kept.stamp.incarnation
             /\ kept.blocks[i].version \in 1 .. kept.stamp.history
             /\ kept.blocks[i].tokens \in 1 .. BlockTokens
             /\ /\ i \in DOMAIN versions /\ versions[i] = kept.blocks[i].version
                /\ stamp.incarnation = kept.stamp.incarnation
                => /\ FirstRow(i) + kept.blocks[i].tokens <= stamp.frontier
                   /\ kept.bytes[i] =
                        SubSeq(rows, FirstRow(i) + 1, FirstRow(i) + kept.blocks[i].tokens)

LEMMA RememberKeeps == ASSUME ContentInv, Remember PROVE KeptInv'
  <1>1. /\ stamp.frontier \in Nat /\ stamp.history \in Nat /\ stamp.incarnation \in Nat
        /\ stamp.frontier <= evaluated /\ evaluated \in Nat
    BY StampFields DEF ContentInv, TypeOK, Certified
  <1>2. /\ kept'.taken /\ kept'.stamp = stamp /\ kept'.rows = SubSeq(rows, 1, stamp.frontier)
        /\ kept'.blocks = [i \in Accepted |-> Descriptor(i)]
        /\ kept'.bytes = [i \in Accepted |-> BlockRows(i)]
        /\ stamp' = stamp /\ rows' = rows /\ versions' = versions
    BY DEF Remember, contentVars
  <1>3. ASSUME NEW i \in Accepted
        PROVE  /\ i \in Nat \ {0} /\ versions[i] \in 1 .. stamp.history
               /\ ValidTokens(i) \in 1 .. BlockTokens
               /\ FirstRow(i) + ValidTokens(i) <= stamp.frontier
    <2>1. /\ BlocksOf(stamp.frontier) \in Nat /\ BlocksOf(evaluated) \in Nat
          /\ BlocksOf(stamp.frontier) <= BlocksOf(evaluated)
      BY <1>1, BlocksNat, BlocksMonotone
    <2>2. i \in 1 .. BlocksOf(evaluated) /\ i \in Nat \ {0}
      BY <2>1 DEF Accepted
    <2>3. versions[i] \in 1 .. stamp.history
      BY <2>2 DEF ContentInv, Certified
    <2>4. FirstRow(i) \in Nat /\ FirstRow(i) < stamp.frontier
      <3>1. FirstRow(i) \in Nat
        BY <2>2, FirstRowNat
      <3>2. CASE i = 1
        <4>1. BlockTokens \in Nat
          BY ContentAssumption
        <4>2. FirstRow(i) = 0
          BY <3>2, <4>1, SMT DEF FirstRow
        <4>3. stamp.frontier # 0
          BY DEF Remember
        <4> QED
          BY <1>1, <4>2, <4>3
      <3>3. CASE i # 1
        <4>1. i - 1 \in 1 .. BlocksOf(stamp.frontier) /\ i - 1 < BlocksOf(stamp.frontier)
          BY <2>1, <2>2, <3>3 DEF Accepted
        <4>2. (i - 1) * BlockTokens < stamp.frontier
          BY <1>1, <4>1, WholeBefore
        <4> QED
          BY <3>1, <4>2 DEF FirstRow
      <3> QED
        BY <3>2, <3>3
    <2>5. ValidTokens(i) \in 1 .. BlockTokens /\ FirstRow(i) + ValidTokens(i) <= stamp.frontier
      BY <1>1, <2>4, ContentAssumption DEF ValidTokens
    <2> QED
      BY <2>2, <2>3, <2>5
  <1>4. \A i \in Accepted :
          /\ kept'.blocks[i].incarnation = stamp.incarnation
          /\ kept'.blocks[i].version = versions[i] /\ kept'.blocks[i].tokens = ValidTokens(i)
          /\ kept'.bytes[i] = SubSeq(rows, FirstRow(i) + 1, FirstRow(i) + ValidTokens(i))
    <2> SUFFICES ASSUME NEW i \in Accepted
                 PROVE  /\ kept'.blocks[i].incarnation = stamp.incarnation
                        /\ kept'.blocks[i].version = versions[i]
                        /\ kept'.blocks[i].tokens = ValidTokens(i)
                        /\ kept'.bytes[i] = SubSeq(rows, FirstRow(i) + 1, FirstRow(i) + ValidTokens(i))
      OBVIOUS
    <2>1. kept'.blocks[i] = Descriptor(i) /\ kept'.bytes[i] = BlockRows(i)
      BY <1>2
    <2>2. BlockRows(i) = SubSeq(rows, FirstRow(i) + 1, FirstRow(i) + ValidTokens(i))
      BY DEF BlockRows
    <2>3. /\ Descriptor(i).incarnation = stamp.incarnation /\ Descriptor(i).version = versions[i]
          /\ Descriptor(i).tokens = ValidTokens(i)
      BY DEF Descriptor
    <2> QED
      BY <2>1, <2>2, <2>3
  <1>5. DOMAIN kept'.blocks = Accepted
    BY <1>2
  <1> QED
    BY <1>1, <1>2, <1>3, <1>4, <1>5 DEF KeptInv, FirstRow

LEMMA StepKeeps ==
  ASSUME ContentInv, ContentInv', KeptInv, Preserves, UNCHANGED kept
  PROVE  KeptInv'
  <1> SUFFICES ASSUME kept.taken PROVE KeptInv'
    BY DEF KeptInv
  <1>1. /\ stamp.frontier \in Nat /\ stamp.history \in Nat /\ stamp.incarnation \in Nat
        /\ stamp'.frontier \in Nat /\ stamp'.history \in Nat /\ stamp'.incarnation \in Nat
        /\ rows \in Seq(Rows) /\ rows' \in Seq(Rows)
        /\ stamp.frontier <= Len(rows) /\ stamp'.frontier <= Len(rows')
    BY StampFields DEF ContentInv, TypeOK, Certified, Stamps
  <1>2. /\ stamp.incarnation <= stamp'.incarnation /\ stamp.history <= stamp'.history
        /\ stamp'.history = stamp.history => stamp'.frontier = stamp.frontier /\ rows' = rows
    BY DEF Preserves
  <1>3. /\ kept.stamp.history \in Nat /\ kept.stamp.history <= stamp.history
        /\ kept.stamp.incarnation \in Nat /\ kept.stamp.incarnation <= stamp.incarnation
        /\ stamp.history = kept.stamp.history => SubSeq(rows, 1, stamp.frontier) = kept.rows
        /\ DOMAIN kept.blocks \subseteq Nat \ {0}
    BY DEF KeptInv
  <1>4. stamp'.history = kept.stamp.history => SubSeq(rows', 1, stamp'.frontier) = kept.rows
    <2>1. stamp'.history = kept.stamp.history =>
             stamp.history = kept.stamp.history /\ stamp'.history = stamp.history
      BY <1>1, <1>2, <1>3
    <2> QED
      BY <2>1, <1>2, <1>3
  <1>5. ASSUME NEW i \in DOMAIN kept.blocks
        PROVE  /\ kept.blocks[i].incarnation = kept.stamp.incarnation
               /\ kept.blocks[i].version \in 1 .. kept.stamp.history
               /\ kept.blocks[i].tokens \in 1 .. BlockTokens
    BY <1>5 DEF KeptInv
  <1>6. ASSUME NEW i \in DOMAIN kept.blocks, i \in DOMAIN versions',
               versions'[i] = kept.blocks[i].version, stamp'.incarnation = kept.stamp.incarnation
        PROVE  /\ FirstRow(i) + kept.blocks[i].tokens <= stamp'.frontier
               /\ kept.bytes[i] =
                    SubSeq(rows', FirstRow(i) + 1, FirstRow(i) + kept.blocks[i].tokens)
    <2> DEFINE n == kept.blocks[i].tokens
               a == FirstRow(i)
    <2>1. n \in 1 .. BlockTokens /\ versions'[i] \in 1 .. kept.stamp.history
      BY <1>5, <1>6
    <2>2. a \in Nat
      BY <1>3, FirstRowNat
    <2>3. stamp'.incarnation = stamp.incarnation
      BY <1>1, <1>2, <1>3, <1>6
    <2>4. versions'[i] \in 1 .. stamp.history
      BY <1>1, <1>3, <2>1
    <2>5. /\ i \in DOMAIN versions /\ versions[i] = versions'[i]
          /\ \A k \in 1 .. BlockTokens : FirstRow(i) + k <= stamp.frontier =>
                /\ FirstRow(i) + k <= stamp'.frontier
                /\ rows'[FirstRow(i) + k] = rows[FirstRow(i) + k]
      BY <1>6, <2>3, <2>4 DEF Preserves
    <2>6. a + n <= stamp.frontier /\ kept.bytes[i] = SubSeq(rows, a + 1, a + n)
      BY <1>6, <2>3, <2>5 DEF KeptInv
    <2>7. a + n <= stamp'.frontier
      BY <2>1, <2>5, <2>6, ContentAssumption
    <2>8. \A k \in 1 .. n : rows'[a + k] = rows[a + k]
      <3> SUFFICES ASSUME NEW k \in 1 .. n PROVE rows'[a + k] = rows[a + k]
        OBVIOUS
      <3>1. k \in 1 .. BlockTokens
        BY <2>1, ContentAssumption
      <3> HIDE DEF n, a
      <3>2. a + k <= stamp.frontier
        BY <1>1, <2>1, <2>2, <2>6, ContentAssumption
      <3> QED
        BY <2>5, <3>1, <3>2 DEF a
    <2>9. SubSeq(rows, a + 1, a + n) = SubSeq(rows', a + 1, a + n)
      <3>1. n \in Nat /\ a + n <= Len(rows) /\ a + n <= Len(rows')
        <4> HIDE DEF n, a
        <4>1. Len(rows) \in Nat /\ Len(rows') \in Nat
          BY <1>1
        <4> QED
          BY <1>1, <2>1, <2>2, <2>6, <2>7, <4>1, ContentAssumption
      <3>2. \A k \in 1 .. n : rows[a + k] = rows'[a + k]
        BY <2>8
      <3> DEFINE s == rows
                 t == rows'
      <3>3. s \in Seq(Rows) /\ t \in Seq(Rows) /\ a \in Nat
        BY <1>1, <2>2
      <3>4. a + n <= Len(s) /\ a + n <= Len(t) /\ n \in Nat /\ \A k \in 1 .. n : s[a + k] = t[a + k]
        BY <3>1, <3>2
      <3> HIDE DEF n, a, s, t
      <3>5. SubSeq(s, a + 1, a + n) = SubSeq(t, a + 1, a + n)
        BY <3>3, <3>4, SameSlice
      <3> QED
        BY <3>5 DEF s, t
    <2> QED
      BY <2>6, <2>7, <2>9, Zenon
  <1>7. /\ kept' = kept
        /\ kept.stamp.history <= stamp'.history /\ kept.stamp.incarnation <= stamp'.incarnation
    BY <1>1, <1>2, <1>3
  <1> QED
    BY <1>3, <1>4, <1>5, <1>6, <1>7, Zenon DEF KeptInv

LEMMA HistoryStart == HInit => ContentInv /\ KeptInv
  BY ContentInitially DEF HInit, Nothing, KeptInv

LEMMA HistoryStep ==
  ASSUME ContentInv, KeptInv, [HNext]_<<contentVars, kept>>
  PROVE  ContentInv' /\ KeptInv'
  <1>1. CASE Remember
    <2>1. [Next]_contentVars
      BY <1>1 DEF Remember
    <2>2. ContentInv'
      BY <2>1, NextKeeps
    <2> QED
      BY <1>1, <2>2, RememberKeeps
  <1>2. CASE [Next]_contentVars /\ UNCHANGED kept
    <2>1. ContentInv' /\ Preserves
      BY <1>2, NextKeeps, NextPreserves
    <2> QED
      BY <1>2, <2>1, StepKeeps
  <1> QED
    BY <1>1, <1>2 DEF HNext

LEMMA KeptNames == ContentInv /\ KeptInv => NamesHistory
  <1> SUFFICES ASSUME ContentInv, KeptInv, kept.taken PROVE NamesHistory
    BY DEF NamesHistory
  <1>1. ASSUME stamp = kept.stamp PROVE SubSeq(rows, 1, stamp.frontier) = kept.rows
    BY <1>1 DEF KeptInv
  <1>2. ASSUME NEW i \in Accepted \cap DOMAIN kept.blocks, Descriptor(i) = kept.blocks[i]
        PROVE  BlockRows(i) = kept.bytes[i]
    <2>1. /\ stamp.frontier \in Nat /\ reserved \in Nat /\ stamp.frontier <= reserved
          /\ versions \in Seq(Nat) /\ Len(versions) = BlocksOf(reserved)
      BY StampFields DEF ContentInv, TypeOK, Certified
    <2>2. /\ kept.blocks[i].incarnation = stamp.incarnation
          /\ kept.blocks[i].tokens = ValidTokens(i) /\ kept.blocks[i].version = versions[i]
      BY <1>2 DEF Descriptor
    <2>3. i \in DOMAIN versions
      <3>1. /\ BlocksOf(stamp.frontier) \in Nat /\ BlocksOf(reserved) \in Nat
            /\ BlocksOf(stamp.frontier) <= BlocksOf(reserved)
        BY <2>1, BlocksNat, BlocksMonotone
      <3> QED
        BY <2>1, <3>1 DEF Accepted
    <2>4. stamp.incarnation = kept.stamp.incarnation
      BY <1>2, <2>2 DEF KeptInv
    <2>5. kept.bytes[i] = SubSeq(rows, FirstRow(i) + 1, FirstRow(i) + kept.blocks[i].tokens)
      BY <1>2, <2>2, <2>3, <2>4 DEF KeptInv
    <2> QED
      BY <2>2, <2>5 DEF BlockRows
  <1> QED
    BY <1>1, <1>2 DEF NamesHistory

\* Whoever kept a copy of a block under the descriptor the ledger gave
\* (kv_content.cpp, block()) still holds the bytes of the block for as long as
\* the ledger gives that descriptor, and a plan made under a stamp
\* (memory_contract.cpp, require_current) speaks of the rows that are there.
THEOREM VersionsNameHistory == HSpec => []NamesHistory
  <1>1. ContentInv /\ KeptInv /\ [HNext]_<<contentVars, kept>> => (ContentInv /\ KeptInv)'
    BY HistoryStep
  <1> QED
    BY HistoryStart, <1>1, KeptNames, PTL DEF HSpec

===============================================================================
