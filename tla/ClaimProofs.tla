---------------------------- MODULE ClaimProofs -----------------------------
(***************************************************************************)
(* Disputes and timestamp claims for every value of the constants, beside  *)
(* whatever the rest of the contract does.                                 *)
(***************************************************************************)
EXTENDS ProofClaims, FiniteSetTheorems, TLAPS

---------------------------------------------------------------------------
(* What the steps of a dispute do to its record.                           *)

\* The fields of the records that an answer and a closing write.
LEMMA DisputeFields ==
    ASSUME NEW r \in DisputeRecord, now \in Nat,
           NEW s \in DisputeStatus, NEW q \in ProofIds \cup {None}
    PROVE  /\ Answered(r) \in DisputeRecord /\ Answered(r).status = Responded
           /\ Answered(r).proof_id = r.proof_id /\ Answered(r).reporter = r.reporter
           /\ Answered(r).reporter_hash = r.reporter_hash
           /\ Answered(r).opened_at = r.opened_at
           /\ Answered(r).respond_deadline = r.respond_deadline
           /\ Answered(r).resolve_deadline = now + RESOLVE_DEADLINE_SECS
           /\ Closed(r, s, q) \in DisputeRecord /\ Closed(r, s, q).status = s
           /\ Closed(r, s, q).proof_id = r.proof_id /\ Closed(r, s, q).reporter = r.reporter
           /\ Closed(r, s, q).reporter_hash = r.reporter_hash
           /\ Closed(r, s, q).opened_at = r.opened_at
           /\ Closed(r, s, q).respond_deadline = r.respond_deadline
           /\ Closed(r, s, q).resolve_deadline = r.resolve_deadline
           /\ Closed(r, s, q).resolved_at = now
  <1>1. Responded \in DisputeStatus
    BY DEF DisputeStatus
  <1>0. now + RESOLVE_DEADLINE_SECS \in Nat
    BY DisputeAssumption
  <1>2. Answered(r) \in DisputeRecord
    BY <1>0, <1>1, Zenon DEF DisputeRecord, Answered
  <1>3. Closed(r, s, q) \in DisputeRecord
    BY Zenon DEF DisputeRecord, Closed
  <1>4. /\ Answered(r).status = Responded
        /\ Answered(r).proof_id = r.proof_id /\ Answered(r).reporter = r.reporter
        /\ Answered(r).reporter_hash = r.reporter_hash
        /\ Answered(r).opened_at = r.opened_at
        /\ Answered(r).respond_deadline = r.respond_deadline
        /\ Answered(r).resolve_deadline = now + RESOLVE_DEADLINE_SECS
    BY DEF DisputeRecord, Answered
  <1>5. /\ Closed(r, s, q).status = s
        /\ Closed(r, s, q).proof_id = r.proof_id /\ Closed(r, s, q).reporter = r.reporter
        /\ Closed(r, s, q).reporter_hash = r.reporter_hash
        /\ Closed(r, s, q).opened_at = r.opened_at
        /\ Closed(r, s, q).respond_deadline = r.respond_deadline
        /\ Closed(r, s, q).resolve_deadline = r.resolve_deadline
        /\ Closed(r, s, q).resolved_at = now
    BY DEF DisputeRecord, Closed
  <1> QED BY <1>2, <1>3, <1>4, <1>5

---------------------------------------------------------------------------
(* The inductive invariant.                                                *)

\* One dispute keeps to the clock.
Timely(r) ==
    /\ r.opened_at > 0 /\ r.opened_at <= now
    /\ r.respond_deadline = r.opened_at + RESPOND_DEADLINE_SECS
    /\ r.status \in {Responded, Resolved} =>
         /\ r.resolve_deadline >= r.opened_at + RESOLVE_DEADLINE_SECS
         /\ r.resolve_deadline <= r.respond_deadline + RESOLVE_DEADLINE_SECS
    /\ r.status = Resolved => r.resolved_at <= r.resolve_deadline

\* Disputes of one reporter hash are the cooldown apart.
Apart ==
    \A d, e \in DisputeIds :
       /\ d # e /\ dispute[d] # None /\ dispute[e] # None
       /\ dispute[e].reporter_hash = dispute[d].reporter_hash
       /\ dispute[d].opened_at <= dispute[e].opened_at
       => dispute[e].opened_at - dispute[d].opened_at >= REPORTER_COOLDOWN_SECS

\* The cooldown of a hash runs from the last dispute opened with it.
CoolsFrom ==
    /\ \A h \in ReporterHashes : cooldown[h] <= now
    /\ \A d \in DisputeIds :
         dispute[d] # None => dispute[d].opened_at <= cooldown[dispute[d].reporter_hash]

\* A proof's list holds its disputes, each once, in the order they were opened.
ListsExactly(p) ==
    /\ \A i \in DOMAIN disputeIndex[p] :
         /\ dispute[disputeIndex[p][i]] # None
         /\ dispute[disputeIndex[p][i]].proof_id = p
    /\ \A d \in DisputeIds : dispute[d] # None /\ dispute[d].proof_id = p =>
         \E i \in DOMAIN disputeIndex[p] : disputeIndex[p][i] = d
    /\ \A i, j \in DOMAIN disputeIndex[p] : i < j =>
         /\ disputeIndex[p][i] # disputeIndex[p][j]
         /\ dispute[disputeIndex[p][i]].opened_at <= dispute[disputeIndex[p][j]].opened_at

IndexExact == \A p \in ProofIds : ListsExactly(p)

ClockInv ==
    /\ \A d \in DisputeIds : dispute[d] # None => Timely(dispute[d])
    /\ Apart /\ CoolsFrom

DisputeInv ==
    /\ now \in Nat /\ now > 0
    /\ DisputeTypeOK /\ ClockInv /\ CountersMatchDisputes /\ IndexExact

---------------------------------------------------------------------------
(* A dispute that is opened.                                               *)

\* The new dispute gets its deadline from the clock, and the others keep theirs.
LEMMA OpeningKeepsTime ==
    ASSUME DisputeInv, NEW a \in Address, NEW h \in ReporterHashes, NEW d \in DisputeIds,
           NEW p \in ProofIds, open_dispute(a, h, d, p), now' = now
    PROVE  DisputeTypeOK' /\ ClockInv'
  <1> DEFINE r == [proof_id |-> p, reporter_hash |-> h, reporter |-> a, status |-> Open,
                   opened_at |-> now, respond_deadline |-> now + RESPOND_DEADLINE_SECS,
                   resolve_deadline |-> 0, resolved_at |-> 0, superseded_by |-> None]
  <1>0. /\ now \in Nat /\ now > 0 /\ RESPOND_DEADLINE_SECS \in Nat
        /\ RESOLVE_DEADLINE_SECS \in Nat /\ REPORTER_COOLDOWN_SECS \in Nat
        /\ None \notin DisputeRecord
    BY DisputeAssumption DEF DisputeInv
  <1>1. /\ dispute[d] = None /\ ~on_cooldown(h)
        /\ cooldown' = [cooldown EXCEPT ![h] = now]
        /\ dispute' = [dispute EXCEPT ![d] = r]
        /\ openCount' = [openCount EXCEPT ![p] = @ + 1]
        /\ reporterCount' = [reporterCount EXCEPT ![a] = @ + 1]
        /\ disputeIndex' = [disputeIndex EXCEPT ![p] = Append(@, d)]
        /\ UNCHANGED corrects
    BY DEF open_dispute, append_proof_dispute
  <1>2. r \in DisputeRecord /\ Timely(r) /\ r.reporter_hash = h /\ r.opened_at = now
    BY <1>0 DEF DisputeRecord, Timely, DisputeStatus, Open, Responded, Resolved
  <1> HIDE DEF r
  <1>3. DisputeTypeOK
    BY DEF DisputeInv
  <1>4. DisputeTypeOK'
    <2>1. /\ dispute' \in [DisputeIds -> DisputeRecord \cup {None}]
          /\ cooldown' \in [ReporterHashes -> Nat]
      BY <1>0, <1>1, <1>2, <1>3 DEF DisputeTypeOK
    <2>2. openCount' \in [ProofIds -> Nat] /\ reporterCount' \in [Address -> Nat]
      BY <1>1, <1>3 DEF DisputeTypeOK
    <2>3. Append(disputeIndex[p], d) \in Seq(DisputeIds)
      BY <1>3 DEF DisputeTypeOK
    <2>4. disputeIndex' \in [ProofIds -> Seq(DisputeIds)]
      BY <1>1, <1>3, <2>3 DEF DisputeTypeOK
    <2> QED BY <1>1, <1>3, <2>1, <2>2, <2>4 DEF DisputeTypeOK
  <1>5. /\ dispute'[d] = r /\ \A e \in DisputeIds : e # d => dispute'[e] = dispute[e]
        /\ cooldown'[h] = now /\ \A k \in ReporterHashes : k # h => cooldown'[k] = cooldown[k]
    BY <1>1, <1>3 DEF DisputeTypeOK
  <1>6. \A e \in DisputeIds : dispute'[e] # None => Timely(dispute[e])'
    <2>1. \A e \in DisputeIds : dispute'[e] # None => Timely(dispute'[e])
      BY <1>2, <1>5 DEF DisputeInv, ClockInv
    <2> QED BY <2>1 DEF Timely
  <1>7. \A e \in DisputeIds : dispute[e] # None =>
           /\ dispute[e].reporter_hash \in ReporterHashes /\ dispute[e].opened_at \in Nat
           /\ dispute[e].opened_at > 0
           /\ dispute[e].opened_at <= cooldown[dispute[e].reporter_hash]
    BY <1>3 DEF DisputeTypeOK, DisputeRecord, DisputeInv, ClockInv, CoolsFrom, Timely
  <1>8. cooldown[h] \in Nat /\ cooldown[h] <= now
    BY <1>3 DEF DisputeTypeOK, DisputeInv, ClockInv, CoolsFrom
  <1>9. \A e \in DisputeIds : dispute[e] # None /\ dispute[e].reporter_hash = h =>
           now - dispute[e].opened_at >= REPORTER_COOLDOWN_SECS
    BY <1>0, <1>1, <1>7, <1>8 DEF on_cooldown
  <1>10. CoolsFrom'
    <2>1. \A k \in ReporterHashes : cooldown'[k] <= now
      BY <1>0, <1>5 DEF DisputeInv, ClockInv, CoolsFrom
    <2>2. ASSUME NEW e \in DisputeIds, dispute'[e] # None
          PROVE  dispute'[e].opened_at <= cooldown'[dispute'[e].reporter_hash]
      <3>1. CASE e = d
        BY <1>0, <1>2, <1>5, <3>1
      <3>2. CASE e # d
        BY <1>0, <1>5, <1>7, <1>8, <2>2, <3>2
      <3> QED BY <3>1, <3>2
    <2> QED BY <2>1, <2>2 DEF CoolsFrom
  <1>11. Apart'
    <2> SUFFICES ASSUME NEW e \in DisputeIds, NEW f \in DisputeIds,
                        e # f, dispute'[e] # None, dispute'[f] # None,
                        dispute'[f].reporter_hash = dispute'[e].reporter_hash,
                        dispute'[e].opened_at <= dispute'[f].opened_at
                 PROVE  dispute'[f].opened_at - dispute'[e].opened_at >= REPORTER_COOLDOWN_SECS
      BY DEF Apart
    <2>1. CASE e # d /\ f # d
      BY <1>5, <2>1 DEF DisputeInv, ClockInv, Apart
    <2>2. CASE f = d
      BY <1>2, <1>5, <1>9, <2>2
    <2>3. CASE e = d
      <3>1. /\ now - dispute[f].opened_at >= REPORTER_COOLDOWN_SECS
            /\ now <= dispute[f].opened_at /\ dispute[f].opened_at \in Nat
        BY <1>2, <1>5, <1>7, <1>9, <2>3
      <3>2. dispute'[f].opened_at = dispute[f].opened_at /\ dispute'[e].opened_at = now
        BY <1>2, <1>5, <2>3
      <3> QED BY <1>0, <3>1, <3>2
    <2> QED BY <2>1, <2>2, <2>3
  <1> QED BY <1>4, <1>6, <1>10, <1>11 DEF ClockInv

\* Opening a dispute takes one slot of the proof and one of the reporter.
LEMMA OpeningCounts ==
    ASSUME DisputeInv, NEW a \in Address, NEW h \in ReporterHashes, NEW d \in DisputeIds,
           NEW p \in ProofIds, open_dispute(a, h, d, p), now' = now
    PROVE  CountersMatchDisputes'
  <1>0. DisputeTypeOK /\ CountersMatchDisputes
    BY DEF DisputeInv
  <1>1. /\ dispute[d] = None
        /\ openCount[p] < MAX_OPEN_DISPUTES_PER_PROOF
        /\ reporterCount[a] < MAX_OPEN_DISPUTES_PER_REPORTER
        /\ openCount' = [openCount EXCEPT ![p] = @ + 1]
        /\ reporterCount' = [reporterCount EXCEPT ![a] = @ + 1]
    BY DEF open_dispute
  <1>2. /\ dispute'[d] # None /\ dispute'[d].status = Open
        /\ dispute'[d].proof_id = p /\ dispute'[d].reporter = a
        /\ \A e \in DisputeIds : e # d => dispute'[e] = dispute[e]
    <2> DEFINE r == [proof_id |-> p, reporter_hash |-> h, reporter |-> a, status |-> Open,
                     opened_at |-> now, respond_deadline |-> now + RESPOND_DEADLINE_SECS,
                     resolve_deadline |-> 0, resolved_at |-> 0, superseded_by |-> None]
    <2>1. dispute' = [dispute EXCEPT ![d] = r]
      BY DEF open_dispute
    <2>2. r.status = Open /\ r.proof_id = p /\ r.reporter = a
      OBVIOUS
    <2>3. r \in DisputeRecord
      BY DisputeAssumption DEF DisputeRecord, DisputeStatus, DisputeInv
    <2> HIDE DEF r
    <2> QED BY <1>0, <2>1, <2>2, <2>3, DisputeAssumption DEF DisputeTypeOK
  <1>3. \A q \in ProofIds : OpenOn(q)' = IF q = p THEN OpenOn(q) \cup {d} ELSE OpenOn(q)
    BY <1>1, <1>2 DEF OpenOn, Unsettled
  <1>4. \A b \in Address : OpenBy(b)' = IF b = a THEN OpenBy(b) \cup {d} ELSE OpenBy(b)
    BY <1>1, <1>2 DEF OpenBy, Unsettled
  <1>5. d \notin OpenOn(p) /\ d \notin OpenBy(a)
    BY <1>1 DEF OpenOn, OpenBy, Unsettled
  <1>6. IsFiniteSet(OpenOn(p)) /\ IsFiniteSet(OpenBy(a))
    BY DisputeAssumption, FS_Subset DEF OpenOn, OpenBy
  <1>7. /\ Cardinality(OpenOn(p) \cup {d}) = Cardinality(OpenOn(p)) + 1
        /\ Cardinality(OpenBy(a) \cup {d}) = Cardinality(OpenBy(a)) + 1
    BY <1>5, <1>6, FS_AddElement, Zenon
  <1>8. ASSUME NEW q \in ProofIds
        PROVE  /\ openCount'[q] = Cardinality(OpenOn(q)')
               /\ openCount'[q] <= MAX_OPEN_DISPUTES_PER_PROOF
    <2> DEFINE n == Cardinality(OpenOn(q))
               m == Cardinality(OpenOn(p))
    <2>1. openCount[q] = n /\ openCount[q] <= MAX_OPEN_DISPUTES_PER_PROOF /\ openCount[p] = m
      BY <1>0 DEF CountersMatchDisputes
    <2>2. openCount[p] \in Nat /\ openCount'[q] = IF q = p THEN openCount[p] + 1 ELSE openCount[q]
      BY <1>0, <1>1 DEF DisputeTypeOK
    <2>3. MAX_OPEN_DISPUTES_PER_PROOF \in Nat
      BY DisputeAssumption
    <2>4. Cardinality(OpenOn(q)') = IF q = p THEN m + 1 ELSE n
      BY <1>3, <1>7
    <2> QED BY <1>1, <2>1, <2>2, <2>3, <2>4
  <1>9. ASSUME NEW b \in Address
        PROVE  /\ reporterCount'[b] = Cardinality(OpenBy(b)')
               /\ reporterCount'[b] <= MAX_OPEN_DISPUTES_PER_REPORTER
    <2> DEFINE n == Cardinality(OpenBy(b))
               m == Cardinality(OpenBy(a))
    <2>1. reporterCount[b] = n /\ reporterCount[b] <= MAX_OPEN_DISPUTES_PER_REPORTER /\ reporterCount[a] = m
      BY <1>0 DEF CountersMatchDisputes
    <2>2. reporterCount[a] \in Nat /\ reporterCount'[b] = IF b = a THEN reporterCount[a] + 1 ELSE reporterCount[b]
      BY <1>0, <1>1 DEF DisputeTypeOK
    <2>3. MAX_OPEN_DISPUTES_PER_REPORTER \in Nat
      BY DisputeAssumption
    <2>4. Cardinality(OpenBy(b)') = IF b = a THEN m + 1 ELSE n
      BY <1>4, <1>7
    <2> QED BY <1>1, <2>1, <2>2, <2>3, <2>4
  <1> QED BY <1>8, <1>9 DEF CountersMatchDisputes

\* The new dispute comes last in the list of its proof.
LEMMA OpeningIsListed ==
    ASSUME DisputeInv, NEW a \in Address, NEW h \in ReporterHashes, NEW d \in DisputeIds,
           NEW p \in ProofIds, open_dispute(a, h, d, p), now' = now
    PROVE  IndexExact'
  <1>0. DisputeTypeOK /\ IndexExact /\ now \in Nat
    BY DEF DisputeInv
  <1>1. /\ dispute[d] = None /\ dispute'[d].proof_id = p /\ dispute'[d].opened_at = now
        /\ dispute'[d] # None
        /\ \A e \in DisputeIds : e # d => dispute'[e] = dispute[e]
        /\ disputeIndex' = [disputeIndex EXCEPT ![p] = Append(disputeIndex[p], d)]
    <2> DEFINE r == [proof_id |-> p, reporter_hash |-> h, reporter |-> a, status |-> Open,
                     opened_at |-> now, respond_deadline |-> now + RESPOND_DEADLINE_SECS,
                     resolve_deadline |-> 0, resolved_at |-> 0, superseded_by |-> None]
    <2>1. /\ dispute' = [dispute EXCEPT ![d] = r] /\ dispute[d] = None
          /\ disputeIndex' = [disputeIndex EXCEPT ![p] = Append(disputeIndex[p], d)]
      BY DEF open_dispute, append_proof_dispute
    <2>2. r.opened_at = now /\ r.proof_id = p
      OBVIOUS
    <2>3. r \in DisputeRecord
      BY <1>0, DisputeAssumption DEF DisputeRecord, DisputeStatus
    <2> HIDE DEF r
    <2> QED BY <1>0, <2>1, <2>2, <2>3, DisputeAssumption DEF DisputeTypeOK
  <1>2. \A e \in DisputeIds : dispute[e] # None => dispute[e].opened_at <= now
    BY DEF DisputeInv, ClockInv, Timely
  <1>3. ASSUME NEW q \in ProofIds, q # p PROVE ListsExactly(q)'
    <2>1. disputeIndex'[q] = disputeIndex[q] /\ disputeIndex[q] \in Seq(DisputeIds)
      BY <1>0, <1>1, <1>3 DEF DisputeTypeOK
    <2>2. \A i \in DOMAIN disputeIndex[q] : disputeIndex[q][i] \in DisputeIds
      BY <2>1
    <2>3. ListsExactly(q)
      BY <1>0 DEF IndexExact
    <2>4. \A i \in DOMAIN disputeIndex[q] : dispute'[disputeIndex[q][i]] = dispute[disputeIndex[q][i]]
      BY <1>1, <2>2, <2>3 DEF ListsExactly
    <2> QED BY <1>1, <1>3, <2>1, <2>3, <2>4 DEF ListsExactly
  <1>4. ListsExactly(p)'
    <2>1. PICK s \in Seq(DisputeIds) : s = disputeIndex[p]
      BY <1>0 DEF DisputeTypeOK
    <2>2. disputeIndex'[p] = Append(s, d)
      BY <1>0, <1>1, <2>1 DEF DisputeTypeOK
    <2>3. /\ DOMAIN Append(s, d) = DOMAIN s \cup {Len(s) + 1}
          /\ Append(s, d)[Len(s) + 1] = d
          /\ \A i \in DOMAIN s : Append(s, d)[i] = s[i] /\ s[i] \in DisputeIds /\ i < Len(s) + 1 /\ i \in Int
      BY <2>1
    <2>4. PICK t : t = Append(s, d)
      BY Zenon
    <2>5. PICK n \in Nat : n = Len(s) + 1
      BY <2>1
    <2>6. /\ \A i \in DOMAIN s : dispute[s[i]] # None /\ dispute[s[i]].proof_id = p
          /\ \A e \in DisputeIds : dispute[e] # None /\ dispute[e].proof_id = p =>
               \E i \in DOMAIN s : s[i] = e
          /\ \A i, j \in DOMAIN s : i < j =>
               s[i] # s[j] /\ dispute[s[i]].opened_at <= dispute[s[j]].opened_at
      BY <1>0, <2>1 DEF IndexExact, ListsExactly
    <2>7. /\ disputeIndex'[p] = t /\ DOMAIN t = DOMAIN s \cup {n} /\ t[n] = d
          /\ \A i \in DOMAIN s : /\ t[i] = s[i] /\ t[i] # d /\ i < n /\ i \in Int
                                 /\ dispute'[t[i]] = dispute[s[i]]
                                 /\ dispute[s[i]].opened_at <= now
      BY <1>1, <1>2, <2>2, <2>3, <2>4, <2>5, <2>6
    <2>8. \A i \in DOMAIN t : dispute'[t[i]] # None /\ dispute'[t[i]].proof_id = p
      BY <1>1, <2>6, <2>7
    <2>9. ASSUME NEW e \in DisputeIds, dispute'[e] # None, dispute'[e].proof_id = p
          PROVE  \E i \in DOMAIN t : t[i] = e
      BY <1>1, <2>6, <2>7, <2>9
    <2>10. ASSUME NEW i \in DOMAIN t, NEW j \in DOMAIN t, i < j
           PROVE  t[i] # t[j] /\ dispute'[t[i]].opened_at <= dispute'[t[j]].opened_at
      <3>1. i \in DOMAIN s
        BY <2>7, <2>10
      <3>2. CASE j \in DOMAIN s
        BY <2>6, <2>7, <2>10, <3>1, <3>2
      <3>3. CASE j = n
        BY <1>1, <2>7, <3>1, <3>3
      <3> QED BY <2>7, <3>2, <3>3
    <2> QED BY <2>7, <2>8, <2>9, <2>10 DEF ListsExactly
  <1> QED BY <1>3, <1>4 DEF IndexExact

---------------------------------------------------------------------------
(* A dispute that is answered or closed.                                   *)

\* The record of one dispute is rewritten, but not what it was opened with.
Rewritten(d, n) ==
    /\ dispute' = [dispute EXCEPT ![d] = n]
    /\ n \in DisputeRecord
    /\ n.proof_id = dispute[d].proof_id /\ n.reporter = dispute[d].reporter
    /\ n.reporter_hash = dispute[d].reporter_hash /\ n.opened_at = dispute[d].opened_at
    /\ UNCHANGED <<now, cooldown, disputeIndex>>

\* A rewriting leaves the clock and the lists alone.
LEMMA RewritingKeepsTime ==
    ASSUME DisputeInv, NEW d \in DisputeIds, dispute[d] # None, NEW n, Rewritten(d, n), Timely(n)
    PROVE  ClockInv' /\ IndexExact' /\ dispute' \in [DisputeIds -> DisputeRecord \cup {None}]
  <1>0. DisputeTypeOK /\ ClockInv /\ IndexExact /\ None \notin DisputeRecord
    BY DisputeAssumption DEF DisputeInv
  <1>1. /\ dispute'[d] = n /\ n # None
        /\ \A e \in DisputeIds : e # d => dispute'[e] = dispute[e]
        /\ dispute' \in [DisputeIds -> DisputeRecord \cup {None}]
        /\ now' = now /\ cooldown' = cooldown /\ disputeIndex' = disputeIndex
    BY <1>0 DEF Rewritten, DisputeTypeOK
  <1>2. \A e \in DisputeIds :
           /\ dispute'[e] # None <=> dispute[e] # None
           /\ dispute'[e].proof_id = dispute[e].proof_id
           /\ dispute'[e].reporter_hash = dispute[e].reporter_hash
           /\ dispute'[e].opened_at = dispute[e].opened_at
    BY <1>1 DEF Rewritten
  <1>3. \A e \in DisputeIds : dispute'[e] # None => Timely(dispute'[e])
    BY <1>0, <1>1 DEF ClockInv
  <1>4. \A e \in DisputeIds : dispute'[e] # None => Timely(dispute[e])'
    BY <1>1, <1>3 DEF Timely
  <1>5. Apart'
    BY <1>0, <1>2 DEF ClockInv, Apart
  <1>6. CoolsFrom'
    BY <1>0, <1>1, <1>2 DEF ClockInv, CoolsFrom
  <1>7. ASSUME NEW p \in ProofIds PROVE ListsExactly(p)'
    <2>1. PICK s \in Seq(DisputeIds) : s = disputeIndex[p]
      BY <1>0 DEF DisputeTypeOK
    <2>2. \A i \in DOMAIN s : s[i] \in DisputeIds
      BY <2>1
    <2>3. ListsExactly(p)
      BY <1>0 DEF IndexExact
    <2> QED BY <1>1, <1>2, <2>1, <2>2, <2>3 DEF ListsExactly
  <1> QED BY <1>1, <1>4, <1>5, <1>6, <1>7 DEF ClockInv, IndexExact

\* An answer in time starts the window for the decision.
LEMMA AnswerKeepsInv ==
    ASSUME DisputeInv, NEW a \in Address, NEW d \in DisputeIds, respond_dispute(a, d), now' = now
    PROVE  DisputeInv'
  <1>0. /\ DisputeTypeOK /\ ClockInv /\ now \in Nat
        /\ RESPOND_DEADLINE_SECS \in Nat /\ RESOLVE_DEADLINE_SECS \in Nat
        /\ None \notin DisputeRecord
    BY DisputeAssumption DEF DisputeInv
  <1> DEFINE r == dispute[d]
             n == Answered(dispute[d])
  <1>1. /\ r # None /\ r.status = Open /\ now <= r.respond_deadline
        /\ dispute' = [dispute EXCEPT ![d] = n]
        /\ UNCHANGED <<openCount, reporterCount, cooldown, disputeIndex, corrects>>
    BY DEF respond_dispute
  <1>2. r \in DisputeRecord /\ r.opened_at \in Nat /\ Timely(r)
    BY <1>0, <1>1 DEF DisputeTypeOK, ClockInv, DisputeRecord
  <1>2a. Resolved \in DisputeStatus /\ None \in ProofIds \cup {None}
    BY DEF DisputeStatus
  <1>3. /\ n \in DisputeRecord /\ n.status = Responded
        /\ n.proof_id = r.proof_id /\ n.reporter = r.reporter
        /\ n.reporter_hash = r.reporter_hash /\ n.opened_at = r.opened_at
        /\ n.respond_deadline = r.respond_deadline
        /\ n.resolve_deadline = now + RESOLVE_DEADLINE_SECS
    BY <1>0, <1>2, <1>2a, DisputeFields
  <1> HIDE DEF n
  <1>4. Timely(n)
    BY <1>0, <1>1, <1>2, <1>3 DEF Timely, Responded, Resolved
  <1>5. Rewritten(d, n)
    BY <1>1, <1>3 DEF Rewritten
  <1>6. ClockInv' /\ IndexExact' /\ dispute' \in [DisputeIds -> DisputeRecord \cup {None}]
    BY <1>1, <1>4, <1>5, RewritingKeepsTime
  <1>7. DisputeTypeOK'
    BY <1>0, <1>1, <1>6 DEF DisputeTypeOK
  <1>8. /\ dispute'[d] = n /\ n # None
        /\ \A e \in DisputeIds : e # d => dispute'[e] = dispute[e]
    BY <1>0, <1>1, <1>3 DEF DisputeTypeOK
  <1>9. Unsettled(d) /\ Unsettled(d)'
    BY <1>1, <1>3, <1>8 DEF Unsettled
  <1>10. \A p : OpenOn(p)' = OpenOn(p) /\ OpenBy(p)' = OpenBy(p)
    BY <1>3, <1>8, <1>9 DEF OpenOn, OpenBy, Unsettled
  <1>11. CountersMatchDisputes'
    BY <1>1, <1>10 DEF DisputeInv, CountersMatchDisputes
  <1> QED BY <1>0, <1>6, <1>7, <1>11 DEF DisputeInv

\* Closing an unsettled dispute releases one slot of the proof and one of the reporter.
LEMMA ClosingKeepsInv ==
    ASSUME DisputeInv, NEW d \in DisputeIds, Unsettled(d), now' = now,
           NEW s \in {Resolved, Dismissed, Superseded}, NEW q \in ProofIds \cup {None},
           s = Resolved => /\ dispute[d].status = Responded
                           /\ now <= dispute[d].resolve_deadline,
           Close(d, s, q), corrects' \in [ProofIds -> ProofIds \cup {None}]
    PROVE  DisputeInv'
  <1>0. /\ DisputeTypeOK /\ ClockInv /\ now \in Nat /\ CountersMatchDisputes
        /\ RESPOND_DEADLINE_SECS \in Nat /\ RESOLVE_DEADLINE_SECS \in Nat
        /\ None \notin DisputeRecord
    BY DisputeAssumption DEF DisputeInv
  <1> DEFINE r == dispute[d]
             n == Closed(dispute[d], s, q)
             p == dispute[d].proof_id
             a == dispute[d].reporter
  <1>1. /\ dispute' = [dispute EXCEPT ![d] = n]
        /\ openCount' = [openCount EXCEPT ![p] = decremented(@)]
        /\ reporterCount' = [reporterCount EXCEPT ![a] = decremented(@)]
        /\ UNCHANGED <<cooldown, disputeIndex>>
    BY Zenon DEF Close
  <1>2. /\ r # None /\ r \in DisputeRecord /\ r.opened_at \in Nat /\ Timely(r)
        /\ p \in ProofIds /\ a \in Address
    BY <1>0, SMTT(30) DEF DisputeTypeOK, ClockInv, DisputeRecord, Unsettled
  <1>2a. s \in DisputeStatus /\ s \notin {Open, Responded}
    BY Zenon DEF DisputeStatus, Open, Responded, Resolved, Dismissed, Superseded
  <1>3. /\ n \in DisputeRecord /\ n.status = s
        /\ n.proof_id = r.proof_id /\ n.reporter = r.reporter
        /\ n.reporter_hash = r.reporter_hash /\ n.opened_at = r.opened_at
        /\ n.respond_deadline = r.respond_deadline
        /\ n.resolve_deadline = r.resolve_deadline /\ n.resolved_at = now
    BY <1>0, <1>2, <1>2a, DisputeFields, SMTT(30)
  <1> HIDE DEF n
  <1>4. Timely(n)
    BY <1>0, <1>2, <1>2a, <1>3 DEF Timely
  <1>5. Rewritten(d, n)
    BY <1>1, <1>3 DEF Rewritten
  <1>6. ClockInv' /\ IndexExact' /\ dispute' \in [DisputeIds -> DisputeRecord \cup {None}]
    BY <1>2, <1>4, <1>5, RewritingKeepsTime, Zenon
  <1>7. /\ dispute'[d] = n
        /\ \A e \in DisputeIds : e # d => dispute'[e] = dispute[e]
    BY <1>0, <1>1 DEF DisputeTypeOK
  <1>8. ~Unsettled(d)' /\ \A e \in DisputeIds : e # d => (Unsettled(e)' <=> Unsettled(e))
    BY <1>2a, <1>3, <1>7, Zenon DEF Unsettled
  <1>9. /\ \A k \in ProofIds : OpenOn(k)' = IF k = p THEN OpenOn(k) \ {d} ELSE OpenOn(k)
        /\ \A b \in Address : OpenBy(b)' = IF b = a THEN OpenBy(b) \ {d} ELSE OpenBy(b)
    BY <1>7, <1>8, Zenon DEF OpenOn, OpenBy
  <1>10. /\ d \in OpenOn(p) /\ d \in OpenBy(a)
         /\ IsFiniteSet(OpenOn(p)) /\ IsFiniteSet(OpenBy(a))
    BY DisputeAssumption, FS_Subset DEF OpenOn, OpenBy
  <1>11. /\ Cardinality(OpenOn(p) \ {d}) = Cardinality(OpenOn(p)) - 1
         /\ Cardinality(OpenBy(a) \ {d}) = Cardinality(OpenBy(a)) - 1
    BY <1>10, FS_RemoveElement, Zenon
  <1>12. openCount[p] # 0 /\ reporterCount[a] # 0
    <2>1. Cardinality(OpenOn(p)) # 0 /\ Cardinality(OpenBy(a)) # 0
      BY <1>10, FS_EmptySet, SMTT(30)
    <2> QED BY <1>0, <1>2, <2>1 DEF CountersMatchDisputes
  <1>13. /\ openCount[p] \in Nat /\ reporterCount[a] \in Nat
         /\ openCount' \in [ProofIds -> Nat] /\ reporterCount' \in [Address -> Nat]
         /\ \A k \in ProofIds : openCount'[k] = IF k = p THEN openCount[k] - 1 ELSE openCount[k]
         /\ \A b \in Address : reporterCount'[b] = IF b = a THEN reporterCount[b] - 1 ELSE reporterCount[b]
    BY <1>0, <1>1, <1>2, <1>12, SMTT(30) DEF DisputeTypeOK, decremented
  <1>14. DisputeTypeOK'
    BY <1>0, <1>1, <1>6, <1>13 DEF DisputeTypeOK
  <1>15. ASSUME NEW k \in ProofIds
        PROVE  openCount'[k] = Cardinality(OpenOn(k)') /\ openCount'[k] <= MAX_OPEN_DISPUTES_PER_PROOF
    <2> DEFINE c == Cardinality(OpenOn(k))
    <2>1. openCount[k] = c /\ openCount[k] <= MAX_OPEN_DISPUTES_PER_PROOF
      BY <1>0 DEF CountersMatchDisputes
    <2>2. MAX_OPEN_DISPUTES_PER_PROOF \in Nat
      BY DisputeAssumption
    <2>3. Cardinality(OpenOn(k)') = IF k = p THEN c - 1 ELSE c
      BY <1>9, <1>11, Zenon
    <2>4. openCount[k] \in Nat /\ openCount'[k] = IF k = p THEN openCount[k] - 1 ELSE openCount[k]
      BY <1>0, <1>13 DEF DisputeTypeOK
    <2> HIDE DEF c
    <2> QED BY <2>1, <2>2, <2>3, <2>4, SMTT(30)
  <1>16. ASSUME NEW b \in Address
        PROVE  reporterCount'[b] = Cardinality(OpenBy(b)') /\ reporterCount'[b] <= MAX_OPEN_DISPUTES_PER_REPORTER
    <2> DEFINE c == Cardinality(OpenBy(b))
    <2>1. reporterCount[b] = c /\ reporterCount[b] <= MAX_OPEN_DISPUTES_PER_REPORTER
      BY <1>0 DEF CountersMatchDisputes
    <2>2. MAX_OPEN_DISPUTES_PER_REPORTER \in Nat
      BY DisputeAssumption, Zenon
    <2>3. Cardinality(OpenBy(b)') = IF b = a THEN c - 1 ELSE c
      BY <1>9, <1>11, Zenon
    <2>4. reporterCount[b] \in Nat /\ reporterCount'[b] = IF b = a THEN reporterCount[b] - 1 ELSE reporterCount[b]
      BY <1>0, <1>13 DEF DisputeTypeOK
    <2> HIDE DEF c
    <2> QED BY <2>1, <2>2, <2>3, <2>4, SMTT(30)
  <1>17. CountersMatchDisputes'
    BY <1>15, <1>16 DEF CountersMatchDisputes
  <1> QED BY <1>0, <1>6, <1>14, <1>17 DEF DisputeInv

---------------------------------------------------------------------------
(* Disputes: the theorems.                                                 *)

\* The invariant holds when no dispute exists.
LEMMA DisputeInvInit ==
    ASSUME ClaimsInit
    PROVE  DisputeInv
  <1>1. \A p : OpenOn(p) = {} /\ OpenBy(p) = {}
    BY DEF ClaimsInit, DisputeInit, OpenOn, OpenBy, Unsettled
  <1>2. Cardinality({}) = 0
    BY FS_EmptySet
  <1>3. CountersMatchDisputes
    <2>1. /\ \A p \in ProofIds : openCount[p] = 0
          /\ \A a \in Address : reporterCount[a] = 0
      BY DEF ClaimsInit, DisputeInit
    <2>2. 0 <= MAX_OPEN_DISPUTES_PER_PROOF /\ 0 <= MAX_OPEN_DISPUTES_PER_REPORTER
      BY DisputeAssumption
    <2>3. \A p : Cardinality(OpenOn(p)) = 0 /\ Cardinality(OpenBy(p)) = 0
      BY <1>1, <1>2
    <2> QED BY <2>1, <2>2, <2>3 DEF CountersMatchDisputes
  <1>4. DisputeTypeOK
    BY DEF ClaimsInit, DisputeInit, DisputeTypeOK
  <1>5. IndexExact
    BY DEF ClaimsInit, DisputeInit, IndexExact, ListsExactly
  <1>6. ClockInv
    BY DEF ClaimsInit, DisputeInit, ClockInv, Apart, CoolsFrom
  <1> QED BY <1>3, <1>4, <1>5, <1>6 DEF ClaimsInit, DisputeInv

\* Nothing but a dispute's own steps touches it; time only passes.
LEMMA DisputesWait ==
    ASSUME DisputeInv, now' \in Nat, now' >= now, UNCHANGED disputeVars
    PROVE  DisputeInv'
  <1>1. UNCHANGED <<dispute, openCount, reporterCount, cooldown, disputeIndex, corrects>>
    BY DEF disputeVars
  <1>2. DisputeTypeOK' /\ IndexExact'
    BY <1>1 DEF DisputeInv, DisputeTypeOK, IndexExact, ListsExactly
  <1>3. \A p : OpenOn(p)' = OpenOn(p) /\ OpenBy(p)' = OpenBy(p)
    BY <1>1 DEF OpenOn, OpenBy, Unsettled
  <1>4. CountersMatchDisputes'
    BY <1>1, <1>3 DEF DisputeInv, CountersMatchDisputes
  <1>5. ASSUME NEW d \in DisputeIds, dispute[d] # None PROVE Timely(dispute[d])'
    <2>1. Timely(dispute[d]) /\ dispute[d].opened_at \in Nat
      BY <1>5 DEF DisputeInv, ClockInv, DisputeTypeOK, DisputeRecord
    <2> QED BY <1>1, <2>1, SMTT(30) DEF Timely, DisputeInv
  <1>6. Apart'
    BY <1>1 DEF DisputeInv, ClockInv, Apart
  <1>7. CoolsFrom'
    BY <1>1 DEF DisputeInv, ClockInv, CoolsFrom, DisputeTypeOK
  <1> QED BY <1>1, <1>2, <1>4, <1>5, <1>6, <1>7 DEF DisputeInv, ClockInv

\* Each dispute entry point keeps the invariant.
LEMMA DisputeSteps ==
    ASSUME DisputeInv, DisputeStep, now' = now
    PROVE  DisputeInv'
  <1>0. DisputeTypeOK /\ now \in Nat /\ now > 0
    BY DEF DisputeInv
  <1>1. PICK a \in Address, d \in DisputeIds :
          \/ \E h \in ReporterHashes, p \in ProofIds : open_dispute(a, h, d, p)
          \/ respond_dispute(a, d)
          \/ resolve_dispute(a, d)
          \/ dismiss_dispute(a, d)
          \/ \E p \in ProofIds : supersede_dispute(a, d, p)
    BY DEF DisputeStep
  <1>2. ASSUME NEW h \in ReporterHashes, NEW p \in ProofIds, open_dispute(a, h, d, p)
        PROVE  DisputeInv'
    <2>1. DisputeTypeOK' /\ ClockInv'
      BY <1>2, OpeningKeepsTime
    <2>2. CountersMatchDisputes'
      BY <1>2, OpeningCounts
    <2>3. IndexExact'
      BY <1>2, OpeningIsListed
    <2> QED BY <1>0, <2>1, <2>2, <2>3 DEF DisputeInv
  <1>3. CASE respond_dispute(a, d)
    BY <1>3, AnswerKeepsInv
  <1>4. CASE resolve_dispute(a, d)
    <2>1. /\ Unsettled(d) /\ dispute[d].status = Responded /\ now <= dispute[d].resolve_deadline
          /\ Close(d, Resolved, None) /\ corrects' = corrects
      BY <1>4 DEF resolve_dispute, Unsettled
    <2>2. corrects' \in [ProofIds -> ProofIds \cup {None}]
      BY <1>0, <2>1 DEF DisputeTypeOK
    <2> QED BY <2>1, <2>2, ClosingKeepsInv
  <1>5. CASE dismiss_dispute(a, d)
    <2>1. Unsettled(d) /\ Close(d, Dismissed, None) /\ corrects' = corrects
      BY <1>5 DEF dismiss_dispute, Unsettled
    <2>2. corrects' \in [ProofIds -> ProofIds \cup {None}] /\ Dismissed # Resolved
      BY <1>0, <2>1 DEF DisputeTypeOK, Dismissed, Resolved
    <2> QED BY <2>1, <2>2, ClosingKeepsInv
  <1>6. ASSUME NEW p \in ProofIds, supersede_dispute(a, d, p)
        PROVE  DisputeInv'
    <2>1. /\ Unsettled(d) /\ Close(d, Superseded, p)
          /\ corrects' = [corrects EXCEPT ![p] = dispute[d].proof_id]
      BY <1>6 DEF supersede_dispute, Unsettled
    <2>2. dispute[d].proof_id \in ProofIds
      BY <1>0, <2>1 DEF DisputeTypeOK, DisputeRecord, Unsettled
    <2>3. corrects' \in [ProofIds -> ProofIds \cup {None}] /\ Superseded # Resolved
      BY <1>0, <2>1, <2>2 DEF DisputeTypeOK, Superseded, Resolved
    <2> QED BY <2>1, <2>3, ClosingKeepsInv
  <1> QED BY <1>1, <1>2, <1>3, <1>4, <1>5, <1>6

\* The invariant holds in every behaviour.
LEMMA DisputeInvariance ==
    ClaimsSpec => []DisputeInv
  <1>1. ClaimsInit => DisputeInv
    BY DisputeInvInit
  <1>2. ASSUME DisputeInv,
               [\/ DisputeStep /\ UNCHANGED <<now, claim>>
                \/ TimestampStep /\ UNCHANGED <<now, disputeVars>>
                \/ Elsewhere]_<<now, disputeVars, claim>>
        PROVE  DisputeInv'
    <2>1. CASE DisputeStep /\ UNCHANGED <<now, claim>>
      BY <1>2, <2>1, DisputeSteps
    <2>2. CASE ~(DisputeStep /\ UNCHANGED <<now, claim>>)
      <3>1. now' \in Nat /\ now' >= now /\ UNCHANGED disputeVars
        BY <1>2, <2>2 DEF Elsewhere, DisputeInv
      <3> QED BY <1>2, <3>1, DisputesWait
    <2> QED BY <2>1, <2>2
  <1> QED BY <1>1, <1>2, PTL DEF ClaimsSpec

\* Disputes keep to the clock whatever else the contract does: respond_dispute and
\* resolve_dispute stay within windows that start at the opening and at the answer,
\* and open_dispute leaves the cooldown between two disputes of one reporter hash.
THEOREM DisputesAreTimely ==
    ClaimsSpec => []DisputesKeepToTheClock
  <1>1. ASSUME DisputeInv PROVE DisputesKeepToTheClock
    <2>1. ASSUME NEW d \in DisputeIds, dispute[d] # None
          PROVE  /\ Timely(dispute[d]) /\ dispute[d].resolve_deadline \in Int
                 /\ dispute[d].opened_at + RESOLVE_DEADLINE_SECS \in Int
                 /\ dispute[d].respond_deadline + RESOLVE_DEADLINE_SECS \in Int
      BY <1>1, <2>1, DisputeAssumption DEF DisputeInv, ClockInv, DisputeTypeOK, DisputeRecord
    <2>2. ASSUME NEW d \in DisputeIds, dispute[d] # None
          PROVE  /\ dispute[d].status \in {Responded, Resolved} =>
                      dispute[d].resolve_deadline
                        \in dispute[d].opened_at + RESOLVE_DEADLINE_SECS
                              .. dispute[d].respond_deadline + RESOLVE_DEADLINE_SECS
                 /\ dispute[d].status = Resolved =>
                      dispute[d].resolved_at <= dispute[d].resolve_deadline
      BY <2>1, <2>2 DEF Timely
    <2>3. Apart
      BY <1>1 DEF DisputeInv, ClockInv
    <2> QED BY <2>2, <2>3, ZenonT(30) DEF Apart, DisputesKeepToTheClock
  <1> QED BY <1>1, DisputeInvariance, PTL

\* The two counters of open disputes are exact and capped: every opening takes a slot
\* of the proof and of the reporter, and whichever way a dispute is closed releases
\* both once; the saturating subtraction never saturates.
THEOREM DisputeSlotsAreExact ==
    ClaimsSpec => [](DisputeTypeOK /\ CountersMatchDisputes)
  <1>1. DisputeInv => DisputeTypeOK /\ CountersMatchDisputes
    BY DEF DisputeInv
  <1> QED BY <1>1, DisputeInvariance, PTL

\* append_proof_dispute keeps the list that list_proof_disputes pages through exact:
\* every dispute of a proof, once, in the order they were opened.
THEOREM DisputeListsAreExact ==
    ClaimsSpec => []IndexExact
  <1>1. DisputeInv => IndexExact
    BY DEF DisputeInv
  <1> QED BY <1>1, DisputeInvariance, PTL

---------------------------------------------------------------------------
(* Timestamp claims.                                                       *)

\* A claim counts the ledger as a source, and its assurance is what its sources give.
Anchored(c) ==
    /\ c \in TimestampClaim /\ c.anchored_at <= now
    /\ TIMESTAMP_SOURCE_STELLAR \in c.sources
    /\ c.assurance = TIMESTAMP_ASSURANCE_INDEPENDENT

TimestampInv ==
    /\ now \in Nat /\ TimestampTypeOK
    /\ \A p \in ProofIds : claim[p] # None => Anchored(claim[p])

\* The claim an anchoring writes.
LEMMA AnchoringWrites ==
    ASSUME now \in Nat, NEW a \in Address, NEW t \in ClaimedTimes, NEW c \in Rfc3161Commitments
    PROVE  LET sources == SourcesOf(t, c)
               written == [claimed_time |-> t, anchored_at |-> now, sources |-> sources,
                           rfc3161_commitment |-> c, actor |-> a,
                           assurance |-> compute_timestamp_assurance(sources)]
           IN  Anchored(written) /\ written.sources = sources
  <1> DEFINE sources == SourcesOf(t, c)
  <1>1. sources \in SUBSET {1, 2, 4} /\ TIMESTAMP_SOURCE_STELLAR \in sources
    BY DEF SourcesOf, TIMESTAMP_SOURCE_STELLAR, TIMESTAMP_SOURCE_CLAIMED, TIMESTAMP_SOURCE_RFC3161
  <1>2. compute_timestamp_assurance(sources) = TIMESTAMP_ASSURANCE_INDEPENDENT
    BY <1>1 DEF compute_timestamp_assurance
  <1>3. TIMESTAMP_ASSURANCE_INDEPENDENT \in 0 .. 3
    BY DEF TIMESTAMP_ASSURANCE_INDEPENDENT
  <1> HIDE DEF sources
  <1> QED BY <1>1, <1>2, <1>3 DEF Anchored, TimestampClaim, sources

\* What one anchoring does.
LEMMA AnchoringStep ==
    ASSUME TimestampInv, TimestampStep, now' = now
    PROVE  /\ TimestampInv'
           /\ \A p \in ProofIds : claim[p] # None =>
                /\ TIMESTAMP_SOURCE_RFC3161 \in claim[p].sources => claim'[p] = claim[p]
                /\ claim'[p] # None
                /\ claim'[p].assurance >= claim[p].assurance
                /\ claim'[p].anchored_at >= claim[p].anchored_at
  <1>1. PICK a \in Address, p \in ProofIds, t \in ClaimedTimes, c \in Rfc3161Commitments :
          anchor_timestamp_claim(a, p, t, c)
    BY Zenon DEF TimestampStep
  <1> DEFINE s == SourcesOf(t, c)
             w == [claimed_time |-> t, anchored_at |-> now, sources |-> s,
                   rfc3161_commitment |-> c, actor |-> a,
                   assurance |-> compute_timestamp_assurance(s)]
  <1>2. /\ claim[p] # None => IsUpgrade(claim[p], s)
        /\ claim' = [claim EXCEPT ![p] = w]
    BY <1>1, Zenon DEF anchor_timestamp_claim
  <1>3. Anchored(w) /\ w.anchored_at = now /\ w.assurance = compute_timestamp_assurance(s)
    BY AnchoringWrites, ZenonT(30) DEF TimestampInv
  <1> HIDE DEF w, s
  <1>4. None \notin TimestampClaim /\ now \in Nat /\ w # None /\ w \in TimestampClaim
    BY <1>3, TimestampAssumption DEF TimestampInv, Anchored
  <1>5. claim'[p] = w /\ \A q \in ProofIds : q # p => claim'[q] = claim[q]
    BY <1>2 DEF TimestampInv, TimestampTypeOK
  <1>6. TimestampTypeOK'
    BY <1>2, <1>4 DEF TimestampInv, TimestampTypeOK
  <1>7. \A q \in ProofIds : claim'[q] # None => Anchored(claim'[q])
    BY <1>3, <1>5 DEF TimestampInv
  <1>8. TimestampInv'
    BY <1>4, <1>6, <1>7 DEF TimestampInv, Anchored
  <1>9. claim[p] # None =>
          /\ TIMESTAMP_SOURCE_RFC3161 \notin claim[p].sources
          /\ w.assurance >= claim[p].assurance
          /\ w.anchored_at >= claim[p].anchored_at
    <2>1. ASSUME claim[p] # None
          PROVE  Anchored(claim[p]) /\ IsUpgrade(claim[p], s)
      BY <1>2, <2>1 DEF TimestampInv
    <2>2. w.assurance = TIMESTAMP_ASSURANCE_INDEPENDENT /\ TIMESTAMP_ASSURANCE_INDEPENDENT \in Nat
      BY <1>3 DEF Anchored, TIMESTAMP_ASSURANCE_INDEPENDENT
    <2>3. ASSUME claim[p] # None
          PROVE  /\ TIMESTAMP_SOURCE_RFC3161 \notin claim[p].sources
                 /\ w.assurance >= claim[p].assurance
      BY <1>3, <2>1, <2>2, <2>3, SMTT(30) DEF IsUpgrade, Anchored
    <2>4. ASSUME claim[p] # None PROVE w.anchored_at >= claim[p].anchored_at
      BY <1>3, <1>4, <2>1, <2>4 DEF Anchored, TimestampClaim
    <2> QED BY <2>3, <2>4
  <1>10. ASSUME NEW q \in ProofIds, claim[q] # None
         PROVE  claim[q].assurance \in Nat /\ claim[q].anchored_at \in Nat
    BY <1>10 DEF TimestampInv, TimestampTypeOK, TimestampClaim
  <1> QED BY <1>4, <1>5, <1>8, <1>9, <1>10

\* An RFC 3161 commitment is final, and anchoring again never lowers a claim's
\* assurance or moves it to an earlier ledger: anchor_timestamp_claim refuses all but
\* upgrades, and every claim it writes already counts the ledger as a source.
THEOREM AnchoredClaimsAreFinal ==
    ClaimsSpec => AnchoredClaimIsFinal
  <1>1. ClaimsInit => TimestampInv
    BY DEF ClaimsInit, TimestampInit, TimestampInv, TimestampTypeOK
  <1> DEFINE Finality == \A p \in ProofIds : claim[p] # None =>
                /\ TIMESTAMP_SOURCE_RFC3161 \in claim[p].sources => claim'[p] = claim[p]
                /\ claim'[p] # None
                /\ claim'[p].assurance >= claim[p].assurance
                /\ claim'[p].anchored_at >= claim[p].anchored_at
  <1>2. ASSUME TimestampInv,
               [\/ DisputeStep /\ UNCHANGED <<now, claim>>
                \/ TimestampStep /\ UNCHANGED <<now, disputeVars>>
                \/ Elsewhere]_<<now, disputeVars, claim>>
        PROVE  TimestampInv' /\ [Finality]_claim
    <2>1. CASE TimestampStep /\ UNCHANGED <<now, disputeVars>>
      BY <1>2, <2>1, AnchoringStep, Zenon
    <2>2. CASE ~(TimestampStep /\ UNCHANGED <<now, disputeVars>>)
      <3>1. now' \in Nat /\ now' >= now /\ claim' = claim
        BY <1>2, <2>2 DEF Elsewhere, TimestampInv
      <3>2. ASSUME NEW p \in ProofIds, claim[p] # None PROVE Anchored(claim[p])'
        <4>1. Anchored(claim[p]) /\ claim[p].anchored_at \in Nat
          BY <1>2, <3>2 DEF TimestampInv, TimestampTypeOK, TimestampClaim
        <4> QED BY <1>2, <3>1, <4>1 DEF Anchored, TimestampInv
      <3> QED BY <1>2, <3>1, <3>2 DEF TimestampInv, TimestampTypeOK
    <2> QED BY <2>1, <2>2
  <1> QED BY <1>1, <1>2, PTL DEF ClaimsSpec, AnchoredClaimIsFinal
=============================================================================
