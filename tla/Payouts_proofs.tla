--------------------------- MODULE Payouts_proofs ----------------------------
(***************************************************************************)
(* For any orders, overlapping passes, late cancels, failing statements and *)
(* restarts: no order is paid twice, because the retry job only ever tries  *)
(* an order whose handler has finished without paying it, or whose answer   *)
(* was lost; the attempts are bounded, because a pass counts one for each   *)
(* order it listed before the limit; the payout page and the handlers agree *)
(* but for canceled orders and rounding; and a share without a note is one  *)
(* whose handler left without it.                                           *)
(***************************************************************************)
EXTENDS Payouts, FiniteSetTheorems, TLAPS

(* The handler has not paid o, as far as Stripe's answers tell.             *)
Unpaid(o) == o \in lost \/ transfers[HandlerKey(o)] # "made"

(* The job has had, has or can have o on its list.                          *)
Retried(o) ==
  \/ row[o].error
  \/ \E c \in Pass : o \in todo[c]
  \/ \E c \in Pass, seen \in Result : <<c, o, seen>> \in tried
  \/ transfers[RetryKey(o)] # "none"

(* What the handler of o has done to Stripe.                                *)
HandlerInv(o) ==
  /\ ended[o] = "open" => paying[o] = "no"
  /\ ended[o] = "open" \/ paying[o] = "send" =>
       \A k \in Key : k[2] = o => transfers[k] = "none"
  /\ \A k \in Key : k[2] = o /\ k # HandlerKey(o) /\ k # RetryKey(o) =>
                      transfers[k] = "none"
  /\ paying[o] = "error" => Unpaid(o)

RetryInv(o) == Retried(o) => ended[o] # "open" /\ paying[o] = "no" /\ Unpaid(o)

PaidInv == PayoutsTypeOK /\ \A o \in Order : HandlerInv(o) /\ RetryInv(o)
-----------------------------------------------------------------------------
(* A call to Stripe changes nothing but its own key.                        *)
LEMMA CallStep ==
  ASSUME NEW key \in Key, NEW seen \in Result,
         PayoutsTypeOK, CreateTransfer(key, seen)
  PROVE  /\ transfers' \in [Key -> {"none", "made", "refused"}]
         /\ \A k \in Key : k # key => transfers'[k] = transfers[k]
BY DEF CreateTransfer, PayoutsTypeOK, Result

(* Every key is one of the three kinds, for an order.                       *)
LEMMA Keys ==
  ASSUME NEW o \in Order
  PROVE  /\ HandlerKey(o) \in Key /\ HandlerKey(o)[2] = o
         /\ RetryKey(o) \in Key /\ RetryKey(o)[2] = o
         /\ HandlerKey(o) # RetryKey(o)
BY DEF HandlerKey, RetryKey, Key

(* The two updates of the row keep its type.                                *)
LEMMA ErrorUpdate ==
  ASSUME NEW o \in Order, NEW e \in BOOLEAN, NEW n \in Nat,
         row \in [Order -> Row]
  PROVE  [row EXCEPT ![o].error = e, ![o].retries = n] \in [Order -> Row]
BY DEF Row

LEMMA PaidUpdate ==
  ASSUME NEW o \in Order, NEW i \in BOOLEAN, NEW e \in BOOLEAN,
         row \in [Order -> Row]
  PROVE  [row EXCEPT ![o].id = i, ![o].error = e] \in [Order -> Row]
BY DEF Row

LEMMA RowType ==
  ASSUME NEW o \in Order, PayoutsTypeOK, Success(o) \/ Failure(o)
  PROVE  row' \in [Order -> Row]
<1>1. row \in [Order -> Row] /\ row[o].retries + 1 \in Nat
  BY DEF PayoutsTypeOK, Row
<1>2. CASE Success(o)
  BY <1>1, <1>2, PaidUpdate DEF Success
<1>3. CASE Failure(o)
  BY <1>1, <1>3, ErrorUpdate DEF Failure
<1> QED
  BY <1>2, <1>3

(* What a pass has not written back names a pass, an order and a result.    *)
LEMMA TriedParts ==
  ASSUME NEW x \in tried, PayoutsTypeOK
  PROVE  /\ x = <<x[1], x[2], x[3]>>
         /\ x[1] \in Pass /\ x[2] \in Order /\ x[3] \in Result
BY DEF PayoutsTypeOK

(* The count of mishaps keeps its type.                                     *)
LEMMA MishapCounts ==
  ASSUME PayoutsTypeOK, Mishap
  PROVE  mishaps' \in 0 .. MaxMishaps
BY PayoutsAssumption DEF Mishap, PayoutsTypeOK

(* Every step keeps the types.                                              *)
LEMMA TypeStep ==
  ASSUME PayoutsTypeOK, [Next]_vars
  PROVE  PayoutsTypeOK'
<1> USE DEF PayoutsTypeOK
<1>1. ASSUME NEW o \in Order, NEW how \in Settled, Settle(o, how)
      PROVE  PayoutsTypeOK'
  BY <1>1 DEF Settle
<1>2. ASSUME NEW o \in Order, Send(o)
      PROVE  PayoutsTypeOK'
  <2>1. paying' \in [Order -> {"no", "send"} \cup Result]
    BY <1>2 DEF Send, Leave, Result
  <2>2. transfers' \in [Key -> {"none", "made", "refused"}]
    BY <1>2, CallStep, Keys DEF Send
  <2>3. lost' \in SUBSET Order /\ dropped' \in SUBSET Order
    BY <1>2 DEF Send, Leave
  <2>4. mishaps' \in 0 .. MaxMishaps
    BY <1>2, MishapCounts DEF Send
  <2> QED
    BY <1>2, <2>1, <2>2, <2>3, <2>4 DEF Send
<1>3. ASSUME NEW o \in Order, Record(o)
      PROVE  PayoutsTypeOK'
  <2>1. row' \in [Order -> Row]
    BY <1>3, RowType DEF Record
  <2>2. mishaps' \in 0 .. MaxMishaps
    BY <1>3, MishapCounts DEF Record
  <2>3. /\ paying' \in [Order -> {"no", "send"} \cup Result]
        /\ dropped' \in SUBSET Order
    BY <1>3 DEF Record, Leave
  <2> QED
    BY <1>3, <2>1, <2>2, <2>3 DEF Record
<1>4. ASSUME NEW c \in Pass, RetryScan(c)
      PROVE  PayoutsTypeOK'
  BY <1>4 DEF RetryScan, Candidates
<1>5. ASSUME NEW c \in Pass, NEW o \in Order, RetryTry(c, o)
      PROVE  PayoutsTypeOK'
  <2>1. PICK seen \in Result :
          /\ IF active THEN CreateTransfer(RetryKey(o), seen)
             ELSE seen = "error" /\ UNCHANGED transfers
          /\ tried' = tried \cup {<<c, o, seen>>}
    BY <1>5 DEF RetryTry
  <2>2. transfers' \in [Key -> {"none", "made", "refused"}]
    BY <2>1, CallStep, Keys
  <2>3. todo' \in [Pass -> SUBSET Order]
    BY <1>5 DEF RetryTry
  <2>4. tried' \in SUBSET (Pass \X Order \X Result)
    BY <2>1
  <2> QED
    BY <1>5, <2>2, <2>3, <2>4 DEF RetryTry
<1>6. ASSUME NEW x \in tried, RetryRecord(x)
      PROVE  PayoutsTypeOK'
  <2>1. row' \in [Order -> Row]
    BY <1>6, TriedParts, RowType DEF RetryRecord
  <2>2. mishaps' \in 0 .. MaxMishaps
    BY <1>6, MishapCounts DEF RetryRecord
  <2> QED
    BY <1>6, <2>1, <2>2 DEF RetryRecord
<1>7. CASE AccountUpdated
  BY <1>7 DEF AccountUpdated
<1>8. CASE Restart
  <2>1. mishaps' \in 0 .. MaxMishaps
    BY <1>8, MishapCounts DEF Restart
  <2> QED
    BY <1>8, <2>1 DEF Restart
<1>9. CASE UNCHANGED vars
  BY <1>9 DEF vars
<1>10. ASSUME NEW o \in Order, LateCancel(o)
       PROVE  PayoutsTypeOK'
  BY <1>10, PayoutsAssumption DEF LateCancel
<1> QED
  BY <1>1, <1>2, <1>3, <1>4, <1>5, <1>6, <1>7, <1>8, <1>9, <1>10 DEF Next
-----------------------------------------------------------------------------
(* A step that touches neither the handler of o nor its keys, and lists     *)
(* nothing new, keeps what is known of o.                                   *)
LEMMA Untouched ==
  ASSUME NEW o \in Order,
         HandlerInv(o), RetryInv(o),
         ended'[o] = ended[o], paying'[o] = paying[o],
         \A k \in Key : k[2] = o => transfers'[k] = transfers[k],
         lost \subseteq lost',
         Retried(o)' => Retried(o)
  PROVE  HandlerInv(o)' /\ RetryInv(o)'
<1>1. HandlerKey(o)' = HandlerKey(o)
  BY DEF HandlerKey
<1>2. RetryKey(o)' = RetryKey(o)
  BY DEF RetryKey
<1>3. Unpaid(o) => Unpaid(o)'
  BY <1>1, Keys DEF Unpaid
<1>4. HandlerInv(o)'
  BY <1>1, <1>2, <1>3 DEF HandlerInv
<1>5. RetryInv(o)'
  BY <1>3 DEF RetryInv
<1> QED
  BY <1>4, <1>5

(* Every step keeps PaidInv.                                                *)
LEMMA PaidStep ==
  ASSUME PaidInv, [Next]_vars
  PROVE  PaidInv'
<1>t. PayoutsTypeOK /\ PayoutsTypeOK'
  BY TypeStep DEF PaidInv
<1> SUFFICES ASSUME NEW o \in Order
             PROVE  HandlerInv(o)' /\ RetryInv(o)'
  BY <1>t DEF PaidInv
<1>i. HandlerInv(o) /\ RetryInv(o)
  BY DEF PaidInv
<1>k. RetryKey(o)' = RetryKey(o)
  BY DEF RetryKey
<1>0. HandlerKey(o) \in Key /\ HandlerKey(o)[2] = o
  BY Keys
<1>00. /\ RetryKey(o) \in Key /\ RetryKey(o)[2] = o
       /\ HandlerKey(o) # RetryKey(o)
  BY Keys
<1>1. ASSUME NEW p \in Order, NEW how \in Settled, Settle(p, how)
      PROVE  HandlerInv(o)' /\ RetryInv(o)'
  <2>1. Retried(o)' => Retried(o)
    BY <1>1, <1>k DEF Settle, Retried
  <2>2. CASE p # o
    <3>1. ended'[o] = ended[o] /\ paying'[o] = paying[o]
      BY <1>1, <1>t, <2>2 DEF Settle, PayoutsTypeOK
    <3> QED
      BY <1>1, <1>i, <2>1, <3>1, Untouched DEF Settle
  <2>3. CASE p = o
    <3>1. /\ ended[o] = "open" /\ ended'[o] # "open"
          /\ paying'[o] \in {"no", "send"}
          /\ transfers' = transfers
      BY <1>1, <1>t, <2>3 DEF Settle, PayoutsTypeOK, Settled
    <3>2. \A k \in Key : k[2] = o => transfers'[k] = "none"
      BY <1>i, <3>1 DEF HandlerInv
    <3>3. ~Retried(o)'
      BY <1>i, <2>1, <3>1 DEF RetryInv
    <3>4. HandlerInv(o)'
      BY <3>1, <3>2 DEF HandlerInv
    <3> QED
      BY <3>3, <3>4 DEF RetryInv
  <2> QED
    BY <2>2, <2>3
<1>2. ASSUME NEW p \in Order, Send(p)
      PROVE  HandlerInv(o)' /\ RetryInv(o)'
  <2>1. CASE p # o
    <3>0. lost \subseteq lost'
      BY <1>2 DEF Send
    <3>1. \A k \in Key : k[2] = o => transfers'[k] = transfers[k]
      <4>1. CASE UNCHANGED transfers
        BY <4>1
      <4>2. ASSUME NEW seen \in Result, CreateTransfer(HandlerKey(p), seen)
            PROVE  \A k \in Key : k[2] = o => transfers'[k] = transfers[k]
        <5>1. HandlerKey(p) \in Key /\ HandlerKey(p)[2] = p
          BY Keys
        <5> QED
          BY <1>t, <2>1, <4>2, <5>1, CallStep
      <4> QED
        BY <1>2, <4>1, <4>2 DEF Send
    <3>2. paying'[o] = paying[o] /\ ended' = ended
      BY <1>2, <1>t, <2>1 DEF Send, Leave, PayoutsTypeOK
    <3>3. Retried(o)' => Retried(o)
      BY <1>2, <1>k, <1>00, <3>1 DEF Send, Retried
    <3> QED
      BY <1>i, <3>0, <3>1, <3>2, <3>3, Untouched
  <2>2. CASE p = o
    <3>1. /\ paying[o] = "send" /\ ended' = ended /\ ended[o] # "open"
          /\ \A k \in Key : k[2] = o => transfers[k] = "none"
          /\ ~Retried(o)
      BY <1>2, <1>i, <2>2 DEF Send, HandlerInv, RetryInv
    <3>2. HandlerKey(o)' = HandlerKey(o)
      BY <3>1 DEF HandlerKey
    <3>3. CASE paying' = [paying EXCEPT ![p] = "no"]
               /\ UNCHANGED <<transfers, lost>>
      <4>1. paying'[o] = "no"
        BY <1>t, <2>2, <3>3 DEF PayoutsTypeOK
      <4>2. ~Retried(o)'
        BY <1>2, <1>k, <3>1, <3>3 DEF Send, Retried
      <4>3. HandlerInv(o)'
        BY <3>1, <3>3, <4>1 DEF HandlerInv
      <4> QED
        BY <4>2, <4>3 DEF RetryInv
    <3>4. ASSUME NEW seen \in Result, CreateTransfer(HandlerKey(p), seen),
                 paying' = [paying EXCEPT ![p] = seen],
                 lost' = IF seen = "error" /\ transfers'[HandlerKey(p)] = "made"
                         THEN lost \cup {p} ELSE lost
          PROVE  HandlerInv(o)' /\ RetryInv(o)'
      <4>1. paying'[o] = seen
        BY <1>t, <2>2, <3>4 DEF PayoutsTypeOK
      <4>2. /\ \A k \in Key : k # HandlerKey(o) => transfers'[k] = transfers[k]
            /\ seen = "error" =>
                 o \in lost' \/ transfers'[HandlerKey(o)] # "made"
        BY <1>0, <1>t, <2>2, <3>1, <3>4, CallStep
      <4>3. ~Retried(o)'
        BY <1>2, <1>k, <1>00, <3>1, <4>2 DEF Send, Retried
      <4>4. seen = "error" => Unpaid(o)'
        BY <3>2, <4>2 DEF Unpaid
      <4>5. \A k \in Key : k[2] = o /\ k # HandlerKey(o) => transfers'[k] = "none"
        BY <3>1, <4>2
      <4>6. HandlerInv(o)'
        BY <3>1, <3>2, <4>1, <4>4, <4>5 DEF HandlerInv, Result
      <4> QED
        BY <4>3, <4>6 DEF RetryInv
    <3> QED
      BY <1>2, <3>3, <3>4 DEF Send, Leave
  <2> QED
    BY <2>1, <2>2
<1>3. ASSUME NEW p \in Order, Record(p)
      PROVE  HandlerInv(o)' /\ RetryInv(o)'
  <2>0. Success(p) \/ Failure(p) \/ UNCHANGED row
    BY <1>3 DEF Record
  <2>1. CASE p # o
    <3>1. /\ paying'[o] = paying[o] /\ ended' = ended
          /\ row'[o] = row[o]
      BY <1>3, <1>t, <2>0, <2>1
      DEF Record, Leave, PayoutsTypeOK, Success, Failure
    <3>2. Retried(o)' => Retried(o)
      BY <1>3, <1>k, <3>1 DEF Record, Retried
    <3> QED
      BY <1>3, <1>i, <3>1, <3>2, Untouched DEF Record
  <2>2. CASE p = o
    <3>1. /\ paying[o] \in Result /\ paying'[o] = "no"
          /\ ended' = ended /\ ended[o] # "open"
      BY <1>3, <1>i, <1>t, <2>2
      DEF Record, Leave, PayoutsTypeOK, HandlerInv, Result
    <3>2. HandlerKey(o)' = HandlerKey(o)
      BY <3>1 DEF HandlerKey
    <3>3. Unpaid(o)' <=> Unpaid(o)
      BY <1>3, <3>2 DEF Record, Unpaid
    <3>4. HandlerInv(o)'
      BY <1>3, <1>i, <1>k, <3>1, <3>2 DEF Record, HandlerInv
    <3>5. CASE paying[o] = "error"
      BY <1>i, <3>1, <3>3, <3>4, <3>5 DEF HandlerInv, RetryInv
    <3>6. CASE paying[o] = "made"
      <4>1. ~Retried(o)
        BY <1>i, <3>6 DEF RetryInv
      <4>2. ~row'[o].error
        BY <1>3, <1>t, <2>2, <3>6, <4>1
        DEF Record, Success, Retried, PayoutsTypeOK, Row
      <4>3. ~Retried(o)'
        BY <1>3, <1>k, <4>1, <4>2 DEF Record, Retried
      <4> QED
        BY <3>4, <4>3 DEF RetryInv
    <3> QED
      BY <3>1, <3>5, <3>6 DEF Result
  <2> QED
    BY <2>1, <2>2
<1>4. ASSUME NEW c \in Pass, RetryScan(c)
      PROVE  HandlerInv(o)' /\ RetryInv(o)'
  <2>1. Retried(o)' => Retried(o)
    BY <1>4, <1>k, <1>t DEF RetryScan, Candidates, Retried, PayoutsTypeOK
  <2> QED
    BY <1>4, <1>i, <2>1, Untouched DEF RetryScan
<1>5. ASSUME NEW c \in Pass, NEW p \in Order, RetryTry(c, p)
      PROVE  HandlerInv(o)' /\ RetryInv(o)'
  <2>1. PICK seen \in Result :
          /\ IF active THEN CreateTransfer(RetryKey(p), seen)
             ELSE seen = "error" /\ UNCHANGED transfers
          /\ tried' = tried \cup {<<c, p, seen>>}
    BY <1>5 DEF RetryTry
  <2>2. \A k \in Key : k # RetryKey(p) => transfers'[k] = transfers[k]
    BY <1>t, <2>1, CallStep, Keys
  <2>3. /\ p \in todo[c] /\ todo' = [todo EXCEPT ![c] = @ \ {p}]
        /\ UNCHANGED <<active, ended, paying, row, lost>>
    BY <1>5 DEF RetryTry
  <2>4. \A d \in Pass : todo'[d] \subseteq todo[d]
    BY <1>t, <2>3 DEF PayoutsTypeOK
  <2>5. CASE p # o
    <3>1. \A k \in Key : k[2] = o => transfers'[k] = transfers[k]
      BY <2>2, <2>5, Keys
    <3>2. Retried(o)' => Retried(o)
      BY <1>k, <1>00, <2>1, <2>3, <2>4, <2>5, <3>1 DEF Retried
    <3> QED
      BY <1>i, <2>2, <2>3, <3>1, <3>2, Untouched
  <2>6. CASE p = o
    <3>1. Retried(o)
      BY <2>3, <2>6 DEF Retried
    <3>2. ended'[o] # "open" /\ paying'[o] = "no" /\ Unpaid(o)
      BY <1>i, <2>3, <3>1 DEF RetryInv
    <3>3. HandlerKey(o)' = HandlerKey(o)
      BY <2>3 DEF HandlerKey
    <3>4. Unpaid(o)'
      BY <1>0, <1>00, <2>2, <2>3, <2>6, <3>2, <3>3 DEF Unpaid
    <3>5. \A k \in Key : k[2] = o /\ k # HandlerKey(o) /\ k # RetryKey(o)
                            => transfers'[k] = "none"
      BY <1>i, <2>2, <2>6 DEF HandlerInv
    <3>6. HandlerInv(o)'
      BY <1>k, <3>2, <3>3, <3>5 DEF HandlerInv
    <3> QED
      BY <3>2, <3>4, <3>6 DEF RetryInv
  <2> QED
    BY <2>5, <2>6
<1>6. ASSUME NEW x \in tried, RetryRecord(x)
      PROVE  HandlerInv(o)' /\ RetryInv(o)'
  <2>1. /\ x = <<x[1], x[2], x[3]>>
        /\ x[1] \in Pass /\ x[2] \in Order /\ x[3] \in Result
    BY <1>t, TriedParts
  <2>2. Retried(o)' => Retried(o)
    <3>1. CASE x[2] = o
      BY <2>1, <3>1 DEF Retried
    <3>2. CASE x[2] # o
      <4>1. row'[o] = row[o]
        BY <1>6, <1>t, <2>1, <3>2
        DEF RetryRecord, Success, Failure, PayoutsTypeOK
      <4> QED
        BY <1>6, <1>k, <4>1 DEF RetryRecord, Retried
    <3> QED
      BY <3>1, <3>2
  <2> QED
    BY <1>6, <1>i, <2>2, Untouched DEF RetryRecord
<1>7. CASE AccountUpdated
  <2>1. Retried(o)' => Retried(o)
    BY <1>7, <1>k DEF AccountUpdated, Retried
  <2> QED
    BY <1>7, <1>i, <2>1, Untouched DEF AccountUpdated
<1>8. CASE Restart
  <2>1. /\ paying'[o] = "no"
        /\ UNCHANGED <<ended, transfers, row, lost>>
    BY <1>8 DEF Restart
  <2>2. HandlerKey(o)' = HandlerKey(o)
    BY <2>1 DEF HandlerKey
  <2>3. Retried(o)' => Retried(o)
    BY <1>8, <1>k DEF Restart, Retried
  <2>4. Unpaid(o)' <=> Unpaid(o)
    BY <2>1, <2>2 DEF Unpaid
  <2>5. HandlerInv(o)'
    BY <1>i, <1>k, <2>1, <2>2 DEF HandlerInv
  <2> QED
    BY <1>i, <2>1, <2>3, <2>4, <2>5 DEF RetryInv
<1>9. CASE UNCHANGED vars
  <2>1. Retried(o)' => Retried(o)
    BY <1>9, <1>k DEF vars, Retried
  <2> QED
    BY <1>9, <1>i, <2>1, Untouched DEF vars
<1>10. ASSUME NEW p \in Order, LateCancel(p)
       PROVE  HandlerInv(o)' /\ RetryInv(o)'
  <2>1. Retried(o)' => Retried(o)
    BY <1>10, <1>k DEF LateCancel, Retried
  <2> QED
    BY <1>10, <1>i, <2>1, Untouched DEF LateCancel
<1> QED
  BY <1>1, <1>2, <1>3, <1>4, <1>5, <1>6, <1>7, <1>8, <1>9, <1>10 DEF Next

(* The invariant says enough: with both keys used, the handler's answer was *)
(* lost.                                                                    *)
LEMMA PaidEnough ==
  ASSUME PaidInv
  PROVE  PaidAtMostOnce
<1> SUFFICES ASSUME NEW o \in Order, o \notin lost
             PROVE  Cardinality({k \in Key : k[2] = o /\ transfers[k] = "made"})
                      <= 1
  BY DEF PaidAtMostOnce
<1> DEFINE Made == {k \in Key : k[2] = o /\ transfers[k] = "made"}
<1>1. Made \subseteq {HandlerKey(o), RetryKey(o)}
  BY DEF PaidInv, HandlerInv
<1>2. RetryKey(o) \in Made => HandlerKey(o) \notin Made
  BY DEF PaidInv, RetryInv, Retried, Unpaid
<1>3. PICK k : Made \subseteq {k}
  BY <1>1, <1>2
<1>4. IsFiniteSet({k}) /\ Cardinality({k}) = 1
  BY FS_Singleton
<1>5. /\ IsFiniteSet(Made)
      /\ Cardinality(Made) <= Cardinality({k})
  BY <1>3, <1>4, FS_Subset
<1> QED
  BY <1>4, <1>5
-----------------------------------------------------------------------------
(* PayoutsTypeCorrect: every state of the payouts is well typed.            *)
THEOREM PayoutsTypeCorrect == Spec => []PayoutsTypeOK
<1>1. Init => PayoutsTypeOK
  BY PayoutsAssumption DEF Init, PayoutsTypeOK, Row
<1>2. PayoutsTypeOK /\ [Next]_vars => PayoutsTypeOK'
  BY TypeStep
<1> QED
  BY <1>1, <1>2, PTL DEF Spec

(* PaidOnce: whatever handlers, overlapping passes of the retry job, account *)
(* changes and restarts do, no order is paid twice unless Stripe's answer to *)
(* the handler was lost.                                                    *)
THEOREM PaidOnce == Spec => []PaidAtMostOnce
<1>1. Init => PaidInv
  <2>1. Init => PayoutsTypeOK
    BY PayoutsAssumption DEF Init, PayoutsTypeOK, Row
  <2>2. ASSUME Init, NEW o \in Order
        PROVE  HandlerInv(o) /\ RetryInv(o)
    BY <2>2, Keys DEF Init, HandlerInv, RetryInv, Retried
  <2> QED
    BY <2>1, <2>2 DEF PaidInv
<1>2. PaidInv /\ [Next]_vars => PaidInv'
  BY PaidStep
<1>3. PaidInv => PaidAtMostOnce
  BY PaidEnough
<1> QED
  BY <1>1, <1>2, <1>3, PTL DEF Spec
-----------------------------------------------------------------------------
(* Passes that will still count an attempt for o.                           *)
Joined(o) ==
  {c \in Pass : \/ o \in todo[c]
                \/ \E x \in tried : x[1] = c /\ x[2] = o}

(* A pass has one result in hand, of an order it has taken off its list.    *)
PassInv ==
  /\ \A x, y \in tried : x[1] = y[1] => x = y
  /\ \A x \in tried : x[2] \notin todo[x[1]]

AttemptInv(o) ==
  /\ ended[o] = "open" \/ paying[o] # "no" => row[o].retries = 0
  /\ row[o].retries + Cardinality(Joined(o)) <= 2 + Cardinality(Pass)

BoundInv == PaidInv /\ PassInv /\ \A o \in Order : AttemptInv(o)

(* Sets of passes can be counted.                                           *)
LEMMA Countable ==
  ASSUME NEW S \in SUBSET Pass
  PROVE  /\ IsFiniteSet(S)
         /\ Cardinality(S) \in Nat
         /\ \A T \in SUBSET S : Cardinality(T) <= Cardinality(S)
<1>1. IsFiniteSet(S)
  BY PayoutsAssumption, FS_Subset
<1> QED
  BY <1>1, FS_Subset, FS_CardinalityType

(* Counts of retries are numbers.                                           *)
LEMMA RetriesType ==
  ASSUME NEW o \in Order, PayoutsTypeOK
  PROVE  row[o].retries \in Nat
BY DEF PayoutsTypeOK, Row

(* A step that counts no attempt for o and lets no pass join keeps the      *)
(* bound.                                                                   *)
LEMMA NothingCounted ==
  ASSUME NEW o \in Order, PayoutsTypeOK, AttemptInv(o),
         row'[o].retries = row[o].retries,
         Joined(o)' \subseteq Joined(o),
         ended'[o] = "open" \/ paying'[o] # "no" =>
           ended[o] = "open" \/ paying[o] # "no"
  PROVE  AttemptInv(o)'
<1>1. Joined(o) \in SUBSET Pass
  BY DEF Joined
<1>2. /\ Cardinality(Joined(o)') <= Cardinality(Joined(o))
      /\ Cardinality(Joined(o)') \in Nat /\ Cardinality(Joined(o)) \in Nat
      /\ Cardinality(Pass) \in Nat
  BY <1>1, Countable
<1> QED
  BY <1>2, RetriesType DEF AttemptInv

(* Every step keeps what is known of the passes.                            *)
LEMMA PassStepInv ==
  ASSUME PayoutsTypeOK, PassInv, [Next]_vars
  PROVE  PassInv'
<1>1. ASSUME NEW c \in Pass, RetryScan(c)
      PROVE  PassInv'
  <2>1. \A x \in tried : x[1] # c
    BY <1>1 DEF RetryScan, Results
  <2> QED
    BY <1>1, <2>1, TriedParts DEF RetryScan, PassInv, PayoutsTypeOK
<1>2. ASSUME NEW c \in Pass, NEW o \in Order, RetryTry(c, o)
      PROVE  PassInv'
  <2>1. \A x \in tried : x[1] # c
    BY <1>2 DEF RetryTry, Results
  <2>2. PICK seen \in Result : tried' = tried \cup {<<c, o, seen>>}
    BY <1>2 DEF RetryTry
  <2>3. /\ todo'[c] = todo[c] \ {o}
        /\ \A d \in Pass : d # c => todo'[d] = todo[d]
    BY <1>2 DEF RetryTry, PayoutsTypeOK
  <2>4. \A x \in tried' : x \in tried \/ x = <<c, o, seen>>
    BY <2>2
  <2>5. \A x, y \in tried' : x[1] = y[1] => x = y
    BY <2>1, <2>4 DEF PassInv
  <2>6. \A x \in tried' : x[2] \notin todo'[x[1]]
    BY <2>1, <2>3, <2>4, TriedParts DEF PassInv
  <2> QED
    BY <2>5, <2>6 DEF PassInv
<1>3. ASSUME NEW x \in tried, RetryRecord(x)
      PROVE  PassInv'
  BY <1>3 DEF RetryRecord, PassInv
<1>4. CASE Restart
  BY <1>4 DEF Restart, PassInv
<1>5. CASE UNCHANGED <<todo, tried>>
  BY <1>5 DEF PassInv
<1>6. ASSUME NEW o \in Order,
             \/ Send(o) \/ Record(o) \/ LateCancel(o)
             \/ \E how \in Settled : Settle(o, how)
      PROVE  UNCHANGED <<todo, tried>>
  BY <1>6 DEF Send, Record, LateCancel, Settle
<1>7. AccountUpdated \/ UNCHANGED vars => UNCHANGED <<todo, tried>>
  BY DEF AccountUpdated, vars
<1> QED
  BY <1>1, <1>2, <1>3, <1>4, <1>5, <1>6, <1>7 DEF Next

(* Every step keeps the bound.                                              *)
LEMMA BoundStep ==
  ASSUME BoundInv, [Next]_vars
  PROVE  BoundInv'
<1>t. PayoutsTypeOK /\ PayoutsTypeOK'
  BY TypeStep DEF BoundInv, PaidInv
<1>1. PaidInv' /\ PassInv'
  BY PaidStep, PassStepInv DEF BoundInv, PaidInv
<1> SUFFICES ASSUME NEW o \in Order
             PROVE  AttemptInv(o)'
  BY <1>1 DEF BoundInv
<1>i. AttemptInv(o) /\ HandlerInv(o) /\ RetryInv(o) /\ PassInv
  BY DEF BoundInv, PaidInv
<1>r. row[o].retries \in Nat /\ row'[o].retries \in Nat
  BY <1>t, RetriesType DEF PayoutsTypeOK, Row
<1>s. ASSUME UNCHANGED <<todo, tried>>
      PROVE  Joined(o)' = Joined(o)
  BY <1>s DEF Joined
<1>c. /\ Joined(o) \in SUBSET Pass /\ Joined(o)' \in SUBSET Pass
      /\ Cardinality(Joined(o)) \in Nat /\ Cardinality(Joined(o)') \in Nat
      /\ Cardinality(Pass) \in Nat
  <2>1. Joined(o) \in SUBSET Pass /\ Joined(o)' \in SUBSET Pass
    BY DEF Joined
  <2> QED
    BY <2>1, Countable
<1>2. ASSUME NEW p \in Order, NEW how \in Settled, Settle(p, how)
      PROVE  AttemptInv(o)'
  <2>1. ended[p] = "open" /\ \A q \in Order : q # p =>
          ended'[q] = ended[q] /\ paying'[q] = paying[q]
    BY <1>2, <1>t DEF Settle, PayoutsTypeOK
  <2>2. UNCHANGED <<row, todo, tried>>
    BY <1>2 DEF Settle
  <2> QED
    BY <1>i, <1>t, <1>s, <2>1, <2>2, NothingCounted
<1>3. ASSUME NEW p \in Order, Send(p)
      PROVE  AttemptInv(o)'
  <2>1. paying[p] = "send" /\ \A q \in Order : q # p => paying'[q] = paying[q]
    BY <1>3, <1>t DEF Send, Leave, PayoutsTypeOK
  <2>2. UNCHANGED <<ended, row, todo, tried>>
    BY <1>3 DEF Send
  <2> QED
    BY <1>i, <1>t, <1>s, <2>1, <2>2, NothingCounted
<1>4. ASSUME NEW p \in Order, Record(p)
      PROVE  AttemptInv(o)'
  <2>1. /\ UNCHANGED <<ended, todo, tried>>
        /\ Success(p) \/ Failure(p) \/ UNCHANGED row
    BY <1>4 DEF Record
  <2>2. CASE p # o
    <3>1. row'[o] = row[o] /\ paying'[o] = paying[o]
      BY <1>4, <1>t, <2>1, <2>2
      DEF Record, Leave, PayoutsTypeOK, Success, Failure
    <3> QED
      BY <1>i, <1>t, <1>s, <2>1, <3>1, NothingCounted
  <2>3. CASE p = o
    <3>1. paying[o] # "no" /\ paying'[o] = "no" /\ ended[o] # "open"
      BY <1>4, <1>i, <1>t, <2>3
      DEF Record, Leave, PayoutsTypeOK, HandlerInv, Result
    <3>2. row[o].retries = 0 /\ ~Retried(o)
      BY <1>i, <3>1 DEF AttemptInv, RetryInv
    <3>3. row'[o].retries <= 1
      BY <1>r, <1>t, <2>1, <2>3, <3>2 DEF Success, Failure, PayoutsTypeOK, Row
    <3>4. Joined(o)' = {}
      <4>1. Joined(o) = {}
        BY <1>t, <3>2, TriedParts DEF Joined, Retried
      <4> QED
        BY <1>s, <2>1, <4>1
    <3>5. Cardinality(Joined(o)') = 0
      BY <3>4, FS_EmptySet
    <3> QED
      BY <1>c, <1>r, <2>1, <3>1, <3>3, <3>5 DEF AttemptInv
  <2> QED
    BY <2>2, <2>3
<1>5. ASSUME NEW c \in Pass, RetryScan(c)
      PROVE  AttemptInv(o)'
  <2>1. UNCHANGED <<ended, paying, row, tried>>
    BY <1>5 DEF RetryScan
  <2>2. CASE o \in Candidates
    <3>1. row'[o].retries <= 2
      BY <1>r, <2>1, <2>2 DEF Candidates
    <3>2. Cardinality(Joined(o)') <= Cardinality(Pass)
      BY <1>c, Countable
    <3>3. ended'[o] = "open" \/ paying'[o] # "no" => row'[o].retries = 0
      BY <1>i, <2>1 DEF AttemptInv
    <3> QED
      BY <1>c, <1>r, <3>1, <3>2, <3>3 DEF AttemptInv
  <2>3. CASE o \notin Candidates
    <3>1. Joined(o)' \subseteq Joined(o)
      BY <1>5, <1>t, <2>1, <2>3 DEF RetryScan, Joined, PayoutsTypeOK
    <3> QED
      BY <1>i, <1>t, <2>1, <3>1, NothingCounted
  <2> QED
    BY <2>2, <2>3
<1>6. ASSUME NEW c \in Pass, NEW p \in Order, RetryTry(c, p)
      PROVE  AttemptInv(o)'
  <2>1. UNCHANGED <<ended, paying, row>>
    BY <1>6 DEF RetryTry
  <2>2. PICK seen \in Result : tried' = tried \cup {<<c, p, seen>>}
    BY <1>6 DEF RetryTry
  <2>3. /\ p \in todo[c]
        /\ \A d \in Pass : todo'[d] \subseteq todo[d]
    BY <1>6, <1>t DEF RetryTry, PayoutsTypeOK
  <2>4. Joined(o)' \subseteq Joined(o)
    BY <2>2, <2>3 DEF Joined
  <2> QED
    BY <1>i, <1>t, <2>1, <2>4, NothingCounted
<1>7. ASSUME NEW x \in tried, RetryRecord(x)
      PROVE  AttemptInv(o)'
  <2>1. /\ x[1] \in Pass /\ x[2] \in Order
        /\ tried' = tried \ {x}
        /\ Success(x[2]) \/ Failure(x[2]) \/ UNCHANGED row
        /\ UNCHANGED <<ended, paying, todo>>
    BY <1>7, <1>t, TriedParts DEF RetryRecord
  <2>2. Joined(o)' \subseteq Joined(o)
    BY <2>1 DEF Joined
  <2>3. CASE row'[o].retries = row[o].retries
    BY <1>i, <1>t, <2>1, <2>2, <2>3, NothingCounted
  <2>4. CASE row'[o].retries # row[o].retries
    <3>1. x[2] = o /\ row'[o].retries = row[o].retries + 1
      BY <1>t, <2>1, <2>4 DEF Success, Failure, PayoutsTypeOK, Row
    <3>2. x[1] \in Joined(o) /\ x[1] \notin Joined(o)'
      BY <1>i, <2>1, <3>1 DEF Joined, PassInv
    <3>3. Joined(o)' \subseteq Joined(o) \ {x[1]}
      BY <2>2, <3>2
    <3>4. /\ IsFiniteSet(Joined(o))
          /\ Joined(o) \ {x[1]} \in SUBSET Pass
      BY <1>c, Countable
    <3>5. Cardinality(Joined(o) \ {x[1]}) = Cardinality(Joined(o)) - 1
      BY <3>2, <3>4, FS_RemoveElement
    <3>6. Cardinality(Joined(o)') <= Cardinality(Joined(o)) - 1
      BY <3>3, <3>4, <3>5, Countable
    <3>7. Retried(o)
      BY <1>t, <3>1, TriedParts DEF Retried
    <3>8. ended'[o] # "open" /\ paying'[o] = "no"
      BY <1>i, <2>1, <3>7 DEF RetryInv
    <3> QED
      BY <1>c, <1>i, <1>r, <3>1, <3>6, <3>8 DEF AttemptInv
  <2> QED
    BY <2>3, <2>4
<1>8. CASE AccountUpdated \/ UNCHANGED vars \/ \E p \in Order : LateCancel(p)
  <2>1. UNCHANGED <<ended, paying, row, todo, tried>>
    BY <1>8 DEF AccountUpdated, LateCancel, vars
  <2> QED
    BY <1>i, <1>t, <1>s, <2>1, NothingCounted
<1>9. CASE Restart
  <2>1. Joined(o)' = {} /\ paying'[o] = "no" /\ UNCHANGED <<ended, row>>
    BY <1>9 DEF Restart, Joined
  <2> QED
    BY <1>i, <1>t, <2>1, NothingCounted
<1> QED
  BY <1>2, <1>3, <1>4, <1>5, <1>6, <1>7, <1>8, <1>9 DEF Next

(* AttemptsBounded: however many passes overlap, an order is tried at most  *)
(* three times, and once more for each pass beside the one that noted the   *)
(* third attempt.                                                           *)
THEOREM AttemptsBounded == Spec => []RetriesBounded
<1>1. Init => BoundInv
  <2>1. Init => PaidInv
    <3>1. Init => PayoutsTypeOK
      BY PayoutsAssumption DEF Init, PayoutsTypeOK, Row
    <3>2. ASSUME Init, NEW o \in Order
          PROVE  HandlerInv(o) /\ RetryInv(o)
      BY <3>2, Keys DEF Init, HandlerInv, RetryInv, Retried
    <3> QED
      BY <3>1, <3>2 DEF PaidInv
  <2>2. Init => PassInv
    BY DEF Init, PassInv
  <2>3. ASSUME Init, NEW o \in Order
        PROVE  AttemptInv(o)
    <3>1. Joined(o) = {} /\ row[o].retries = 0
      BY <2>3 DEF Init, Joined
    <3>2. Cardinality(Joined(o)) = 0
      BY <3>1, FS_EmptySet
    <3>3. Cardinality(Pass) \in Nat
      BY Countable
    <3> QED
      BY <3>1, <3>2, <3>3 DEF AttemptInv
  <2> QED
    BY <2>1, <2>2, <2>3 DEF BoundInv
<1>2. BoundInv /\ [Next]_vars => BoundInv'
  BY BoundStep
<1>3. BoundInv => RetriesBounded
  <2> SUFFICES ASSUME BoundInv, NEW o \in Order
               PROVE  row[o].retries <= 2 + Cardinality(Pass)
    BY DEF RetriesBounded
  <2>1. Joined(o) \in SUBSET Pass
    BY DEF Joined
  <2>2. Cardinality(Joined(o)) \in Nat /\ Cardinality(Pass) \in Nat
    BY <2>1, Countable
  <2>3. row[o].retries \in Nat
    BY RetriesType DEF BoundInv, PaidInv
  <2> QED
    BY <2>2, <2>3 DEF BoundInv, AttemptInv
<1> QED
  BY <1>1, <1>2, <1>3, PTL DEF Spec
-----------------------------------------------------------------------------
(* Amounts, counted in cents.                                               *)

(* Two finite sets without a common element.                                *)
LEMMA DisjointUnion ==
  ASSUME NEW A, NEW B, IsFiniteSet(A), IsFiniteSet(B), A \cap B = {}
  PROVE  /\ IsFiniteSet(A \cup B)
         /\ Cardinality(A \cup B) = Cardinality(A) + Cardinality(B)
<1>1. Cardinality(A) \in Nat /\ Cardinality(B) \in Nat
  BY FS_CardinalityType
<1>2. Cardinality(A \cap B) = 0
  BY FS_EmptySet, Zenon
<1>3. /\ IsFiniteSet(A \cup B)
      /\ Cardinality(A \cup B) =
           Cardinality(A) + Cardinality(B) - Cardinality(A \cap B)
  BY FS_Union
<1> QED
  BY <1>1, <1>2, <1>3

(* The cents of one order are as many as its amount says.                   *)
LEMMA CentsOfOne ==
  ASSUME NEW o, NEW n \in Nat
  PROVE  /\ IsFiniteSet({o} \X (1 .. n))
         /\ Cardinality({o} \X (1 .. n)) = n
<1>1. IsFiniteSet({o}) /\ Cardinality({o}) = 1
  BY FS_Singleton
<1>2. IsFiniteSet(1 .. n) /\ Cardinality(1 .. n) = n
  <2>1. 1 \in Int /\ n \in Int
    OBVIOUS
  <2>2. /\ IsFiniteSet(1 .. n)
        /\ Cardinality(1 .. n) = IF 1 > n THEN 0 ELSE n - 1 + 1
    BY <2>1, FS_Interval, Zenon
  <2>3. (IF 1 > n THEN 0 ELSE n - 1 + 1) = n
    OBVIOUS
  <2> QED
    BY <2>2, <2>3
<1>3. /\ IsFiniteSet({o} \X (1 .. n))
      /\ Cardinality({o} \X (1 .. n)) = 1 * n
  BY <1>1, <1>2, FS_Product, Zenon
<1>4. 1 * n = n
  OBVIOUS
<1> QED
  BY <1>3, <1>4, Zenon

(* An order whose amount was zero adds its amount to the total.             *)
LEMMA TotalRises ==
  ASSUME NEW amount \in [Order -> Nat], NEW o \in Order, NEW n \in Nat,
         amount[o] = 0, IsFiniteSet(Cents(amount))
  PROVE  /\ IsFiniteSet(Cents([amount EXCEPT ![o] = n]))
         /\ TotalOf([amount EXCEPT ![o] = n]) = TotalOf(amount) + n
<1> DEFINE own == {o} \X (1 .. n)
           after == [amount EXCEPT ![o] = n]
<1>0. \A p \in Order : after[p] = IF p = o THEN n ELSE amount[p]
  OBVIOUS
<1>1. Cents(after) = Cents(amount) \cup own
  <2>1. ASSUME NEW p \in Order
        PROVE  {p} \X (1 .. after[p]) \subseteq Cents(amount) \cup own
    BY <1>0 DEF Cents
  <2>2. own \subseteq Cents(after)
    BY <1>0 DEF Cents
  <2>3. ASSUME NEW p \in Order
        PROVE  {p} \X (1 .. amount[p]) \subseteq Cents(after)
    <3>1. CASE p = o
      <4>1. 1 .. amount[p] = {}
        BY <3>1
      <4> QED
        BY <4>1
    <3>2. CASE p # o
      BY <1>0, <3>2 DEF Cents
    <3> QED
      BY <3>1, <3>2
  <2> HIDE DEF own
  <2>4. Cents(after) \subseteq Cents(amount) \cup own
    BY <2>1 DEF Cents
  <2>5. Cents(amount) \subseteq Cents(after)
    BY <2>3 DEF Cents
  <2> QED
    BY <2>2, <2>4, <2>5
<1>2. Cents(amount) \cap own = {}
  <2>1. 1 .. amount[o] = {}
    OBVIOUS
  <2>2. ASSUME NEW p \in Order
        PROVE  ({p} \X (1 .. amount[p])) \cap own = {}
    BY <2>1
  <2> HIDE DEF own
  <2> QED
    BY <2>2 DEF Cents
<1>3. IsFiniteSet(own) /\ Cardinality(own) = n
  BY CentsOfOne
<1> HIDE DEF own, after
<1>4. /\ IsFiniteSet(Cents(after))
      /\ Cardinality(Cents(after)) = Cardinality(Cents(amount)) + n
  BY <1>1, <1>2, <1>3, DisjointUnion, Zenon
<1> QED
  BY <1>4 DEF TotalOf, after

(* Amounts of nothing add up to nothing.                                    *)
LEMMA TotalOfNothing ==
  IsFiniteSet(Cents([o \in Order |-> 0])) /\ TotalOf([o \in Order |-> 0]) = 0
<1>1. Cents([o \in Order |-> 0]) = {}
  BY DEF Cents
<1> QED
  BY <1>1, FS_EmptySet DEF TotalOf
-----------------------------------------------------------------------------
(* The page against the handlers.                                           *)

Bps == IF SplitBps <= 0 THEN 3000 ELSE SplitBps

(* The page as it would be with the orders of T canceled: what each order is *)
(* worth to it, to its handler and to the platform, and what the page does   *)
(* not see.                                                                  *)
Shown(o, T) == IF o \in T THEN "canceled" ELSE ended[o]
PickedUpIn(o, T) == IF Shown(o, T) = "picked_up" THEN Subtotal[o] ELSE 0
FeeIn(o, T) == IF Shown(o, T) = "no_show" THEN Fee[o] ELSE 0
HiddenIn(o, T) == IF o \in T THEN HandlerAmount(o) ELSE 0
KeptOf(o, T) == PlatformShare(FeeIn(o, T), SplitBps)

PickedUpCents(T) == [o \in Order |-> PickedUpIn(o, T)]
FeeCents(T) == [o \in Order |-> FeeIn(o, T)]
HiddenCents(T) == [o \in Order |-> HiddenIn(o, T)]
KeptCents(T) == [o \in Order |-> KeptOf(o, T)]
SentCents == [o \in Order |-> HandlerAmount(o)]

NoShows(T) == {o \in Order : Shown(o, T) = "no_show"}

(* Only finitely many orders have ended.                                    *)
CentsFinite(T) ==
  /\ IsFiniteSet(Cents(PickedUpCents(T)))
  /\ IsFiniteSet(Cents(FeeCents(T)))
  /\ IsFiniteSet(Cents(HiddenCents(T)))
  /\ IsFiniteSet(Cents(KeptCents(T)))
  /\ IsFiniteSet(Cents(SentCents))
  /\ IsFiniteSet(NoShows(T))

(* What the handlers send is what comes in less what the platform keeps, and *)
(* keeping order by order loses less than a cent for each no-show.          *)
ShareInv(T) ==
  /\ TotalOf(SentCents) + TotalOf(KeptCents(T)) =
       TotalOf(PickedUpCents(T)) + TotalOf(FeeCents(T)) + TotalOf(HiddenCents(T))
  /\ 10000 * TotalOf(KeptCents(T)) <= Bps * TotalOf(FeeCents(T))
  /\ Bps * TotalOf(FeeCents(T)) <=
       10000 * TotalOf(KeptCents(T)) + 9999 * Cardinality(NoShows(T))

(* The balance holds whichever orders are canceled: so a late cancel, which  *)
(* ends no order, cannot disturb it.                                         *)
PageInv ==
  PayoutsTypeOK /\ \A T \in SUBSET Order : CentsFinite(T) /\ ShareInv(T)

LEMMA BpsRange == Bps \in 1 .. 10000
BY PayoutsAssumption DEF Bps

LEMMA Scaled ==
  ASSUME NEW m \in Nat, NEW n \in Nat
  PROVE  /\ Bps * m \in Nat /\ Bps * n \in Nat
         /\ Bps * (m + n) = Bps * m + Bps * n
<1>1. \A b \in 1 .. 10000 : /\ b * m \in Nat /\ b * n \in Nat
                            /\ b * (m + n) = b * m + b * n
  OBVIOUS
<1> QED
  BY <1>1, BpsRange

(* The platform's part of a fee is a part of it, rounded down.              *)
LEMMA ShareBounds ==
  ASSUME NEW n \in Nat
  PROVE  /\ PlatformShare(n, SplitBps) \in Nat
         /\ PlatformShare(n, SplitBps) <= n
         /\ 10000 * PlatformShare(n, SplitBps) <= Bps * n
         /\ Bps * n <= 10000 * PlatformShare(n, SplitBps) + 9999
<1>1. Bps \in 1 .. 10000
  BY BpsRange
<1>2. PlatformShare(n, SplitBps) = (Bps * n) \div 10000
  BY <1>1, PayoutsAssumption DEF PlatformShare, Bps
<1> DEFINE p == Bps * n
<1>3. p \in Nat /\ p <= 10000 * n
  <2>1. \A b \in 1 .. 10000 : b * n \in Nat /\ b * n <= 10000 * n
    OBVIOUS
  <2> QED
    BY <1>1, <2>1
<1> HIDE DEF p
<1>4. /\ p \div 10000 \in Nat
      /\ 10000 * (p \div 10000) <= p
      /\ p <= 10000 * (p \div 10000) + 9999
      /\ p \div 10000 <= n
  BY <1>3
<1> QED
  BY <1>2, <1>4 DEF p

(* The amounts are amounts.                                                 *)
LEMMA AmountTypes ==
  ASSUME NEW T
  PROVE  /\ PickedUpCents(T) \in [Order -> Nat]
         /\ FeeCents(T) \in [Order -> Nat]
         /\ HiddenCents(T) \in [Order -> Nat]
         /\ KeptCents(T) \in [Order -> Nat]
         /\ SentCents \in [Order -> Nat]
<1>1. \A o \in Order : Subtotal[o] \in Nat /\ Fee[o] \in Nat
  BY PayoutsAssumption
<1>2. \A o \in Order : FeeIn(o, T) \in Nat /\ PickedUpIn(o, T) \in Nat
  BY <1>1 DEF FeeIn, PickedUpIn
<1>3. ASSUME NEW o \in Order
      PROVE  HandlerAmount(o) \in Nat
  <2>1. SellerShare(Fee[o]) \in Nat
    BY <1>1, ShareBounds DEF SellerShare
  <2> QED
    BY <1>1, <2>1 DEF HandlerAmount
<1>4. \A o \in Order : KeptOf(o, T) \in Nat
  BY <1>2, ShareBounds DEF KeptOf
<1>5. \A o \in Order : HiddenIn(o, T) \in Nat
  BY <1>3 DEF HiddenIn
<1> QED
  BY <1>2, <1>3, <1>4, <1>5
  DEF PickedUpCents, FeeCents, HiddenCents, KeptCents, SentCents

(* An order that ends adds what it is worth to each of the five totals.     *)
LEMMA SettleAmounts ==
  ASSUME PayoutsTypeOK, NEW o \in Order, NEW how \in Settled, Settle(o, how),
         NEW T
  PROVE  /\ PickedUpCents(T)[o] = 0 /\ FeeCents(T)[o] = 0
         /\ HiddenCents(T)[o] = 0 /\ KeptCents(T)[o] = 0 /\ SentCents[o] = 0
         /\ PickedUpCents(T)' = [PickedUpCents(T) EXCEPT ![o] = PickedUpIn(o, T)']
         /\ FeeCents(T)' = [FeeCents(T) EXCEPT ![o] = FeeIn(o, T)']
         /\ HiddenCents(T)' = [HiddenCents(T) EXCEPT ![o] = HiddenIn(o, T)']
         /\ KeptCents(T)' = [KeptCents(T) EXCEPT ![o] = KeptOf(o, T)']
         /\ SentCents' = [SentCents EXCEPT ![o] = HandlerAmount(o)']
<1>1. ended[o] = "open" /\ \A p \in Order : p # o => ended'[p] = ended[p]
  BY DEF Settle, PayoutsTypeOK
<1>2. PlatformShare(0, SplitBps) = 0
  BY ShareBounds
<1>3. /\ PickedUpIn(o, T) = 0 /\ FeeIn(o, T) = 0 /\ HandlerAmount(o) = 0
  BY <1>1 DEF PickedUpIn, FeeIn, Shown, HandlerAmount
<1>4. HiddenIn(o, T) = 0 /\ KeptOf(o, T) = 0
  BY <1>2, <1>3 DEF HiddenIn, KeptOf
<1>5. ASSUME NEW p \in Order, p # o
      PROVE  /\ PickedUpIn(p, T)' = PickedUpIn(p, T)
             /\ FeeIn(p, T)' = FeeIn(p, T)
             /\ HandlerAmount(p)' = HandlerAmount(p)
  BY <1>1, <1>5 DEF PickedUpIn, FeeIn, Shown, HandlerAmount
<1>6. ASSUME NEW p \in Order, p # o
      PROVE  HiddenIn(p, T)' = HiddenIn(p, T) /\ KeptOf(p, T)' = KeptOf(p, T)
  BY <1>5, <1>6 DEF HiddenIn, KeptOf
<1>7. PickedUpCents(T)' = [PickedUpCents(T) EXCEPT ![o] = PickedUpIn(o, T)']
  BY <1>5 DEF PickedUpCents
<1>8. FeeCents(T)' = [FeeCents(T) EXCEPT ![o] = FeeIn(o, T)']
  BY <1>5 DEF FeeCents
<1>9. HiddenCents(T)' = [HiddenCents(T) EXCEPT ![o] = HiddenIn(o, T)']
  BY <1>6 DEF HiddenCents
<1>10. KeptCents(T)' = [KeptCents(T) EXCEPT ![o] = KeptOf(o, T)']
  BY <1>6 DEF KeptCents
<1>11. SentCents' = [SentCents EXCEPT ![o] = HandlerAmount(o)']
  BY <1>5 DEF SentCents
<1> QED
  BY <1>3, <1>4, <1>7, <1>8, <1>9, <1>10, <1>11
  DEF PickedUpCents, FeeCents, HiddenCents, KeptCents, SentCents

(* What the order is worth to the five is in balance, and the no-show it may *)
(* be stands for the cents the platform's part is rounded by.               *)
LEMMA SettleBalance ==
  ASSUME PayoutsTypeOK, NEW o \in Order, NEW how \in Settled, Settle(o, how),
         NEW T, IsFiniteSet(NoShows(T))
  PROVE  LET u == PickedUpIn(o, T)'
             f == FeeIn(o, T)'
             h == HiddenIn(o, T)'
             s == HandlerAmount(o)'
             k == KeptOf(o, T)'
         IN  /\ u \in Nat /\ f \in Nat /\ h \in Nat /\ s \in Nat /\ k \in Nat
             /\ s + k = u + f + h
             /\ 10000 * k <= Bps * f
             /\ Bps * f <=
                  10000 * k
                    + 9999 * (Cardinality(NoShows(T)') - Cardinality(NoShows(T)))
             /\ IsFiniteSet(NoShows(T)')
             /\ Cardinality(NoShows(T)) \in Nat
             /\ Cardinality(NoShows(T)') \in Nat
<1>1. /\ ended[o] = "open" /\ ended'[o] = how
      /\ \A p \in Order : p # o => ended'[p] = ended[p]
  BY DEF Settle, PayoutsTypeOK
<1>2. Subtotal[o] \in Nat /\ Fee[o] \in Nat
  BY PayoutsAssumption
<1>3. PlatformShare(0, SplitBps) = 0 /\ Bps \in 1 .. 10000
  BY BpsRange, ShareBounds
<1>4. Cardinality(NoShows(T)) \in Nat
  BY FS_CardinalityType
<1>5. CASE how = "no_show" /\ o \notin T
  <2>1. NoShows(T)' = NoShows(T) \cup {o} /\ o \notin NoShows(T)
    BY <1>1, <1>5 DEF NoShows, Shown
  <2>2. /\ IsFiniteSet(NoShows(T)')
        /\ Cardinality(NoShows(T)') = Cardinality(NoShows(T)) + 1
    BY <2>1, FS_AddElement
  <2>3. /\ PickedUpIn(o, T)' = 0 /\ FeeIn(o, T)' = Fee[o]
        /\ HiddenIn(o, T)' = 0 /\ HandlerAmount(o)' = SellerShare(Fee[o])
    BY <1>1, <1>5 DEF PickedUpIn, FeeIn, HiddenIn, Shown, HandlerAmount
  <2>4. /\ PlatformShare(Fee[o], SplitBps) \in Nat
        /\ PlatformShare(Fee[o], SplitBps) <= Fee[o]
        /\ 10000 * PlatformShare(Fee[o], SplitBps) <= Bps * Fee[o]
        /\ Bps * Fee[o] <= 10000 * PlatformShare(Fee[o], SplitBps) + 9999
    BY <1>2, ShareBounds
  <2>5. Cardinality(NoShows(T)') - Cardinality(NoShows(T)) = 1
    BY <1>4, <2>2
  <2>6. KeptOf(o, T)' = PlatformShare(Fee[o], SplitBps)
    BY <2>3 DEF KeptOf
  <2> QED
    BY <1>2, <1>4, <2>2, <2>3, <2>4, <2>5, <2>6 DEF SellerShare
<1>6. CASE how # "no_show" \/ o \in T
  <2>1. NoShows(T)' = NoShows(T)
    BY <1>1, <1>6 DEF NoShows, Shown
  <2>2. FeeIn(o, T)' = 0 /\ KeptOf(o, T)' = 0
    BY <1>1, <1>3, <1>6 DEF FeeIn, Shown, KeptOf
  <2>3. /\ HandlerAmount(o)' = PickedUpIn(o, T)' + HiddenIn(o, T)'
        /\ PickedUpIn(o, T)' \in Nat /\ HiddenIn(o, T)' \in Nat
    <3>1. HandlerAmount(o)' \in Nat
      <4>1. SellerShare(Fee[o]) \in Nat
        BY <1>2, ShareBounds DEF SellerShare
      <4> QED
        BY <1>1, <1>2, <4>1 DEF HandlerAmount
    <3>2. CASE o \in T
      BY <3>1, <3>2 DEF PickedUpIn, HiddenIn, Shown
    <3>3. CASE o \notin T
      BY <1>1, <1>2, <1>6, <3>3 DEF PickedUpIn, HiddenIn, Shown, HandlerAmount
    <3> QED
      BY <3>2, <3>3
  <2>4. Cardinality(NoShows(T)') - Cardinality(NoShows(T)) = 0
    BY <1>4, <2>1
  <2> QED
    BY <1>3, <1>4, <2>1, <2>2, <2>3, <2>4
<1> QED
  BY <1>5, <1>6

(* Only the end of an order changes what the page and the handlers count.   *)
LEMMA PageUnchanged ==
  ASSUME NEW T, CentsFinite(T), ShareInv(T), UNCHANGED ended
  PROVE  CentsFinite(T)' /\ ShareInv(T)'
<1>1. /\ PickedUpCents(T)' = PickedUpCents(T) /\ FeeCents(T)' = FeeCents(T)
      /\ HiddenCents(T)' = HiddenCents(T) /\ KeptCents(T)' = KeptCents(T)
      /\ SentCents' = SentCents /\ NoShows(T)' = NoShows(T)
  BY DEF PickedUpCents, FeeCents, HiddenCents, KeptCents, SentCents, NoShows,
         PickedUpIn, FeeIn, HiddenIn, KeptOf, Shown, HandlerAmount
<1> QED
  BY <1>1 DEF CentsFinite, ShareInv, TotalOf, Cents

(* The end of an order keeps the balance.                                   *)
LEMMA PageSettles ==
  ASSUME PayoutsTypeOK, NEW o \in Order, NEW how \in Settled, Settle(o, how),
         NEW T, CentsFinite(T), ShareInv(T)
  PROVE  CentsFinite(T)' /\ ShareInv(T)'
<1> DEFINE u == PickedUpIn(o, T)'
           f == FeeIn(o, T)'
           h == HiddenIn(o, T)'
           s == HandlerAmount(o)'
           k == KeptOf(o, T)'
<1>1. /\ u \in Nat /\ f \in Nat /\ h \in Nat /\ s \in Nat /\ k \in Nat
      /\ s + k = u + f + h
      /\ 10000 * k <= Bps * f
      /\ Bps * f <=
           10000 * k
             + 9999 * (Cardinality(NoShows(T)') - Cardinality(NoShows(T)))
      /\ IsFiniteSet(NoShows(T)')
      /\ Cardinality(NoShows(T)) \in Nat /\ Cardinality(NoShows(T)') \in Nat
  BY SettleBalance DEF CentsFinite
<1>2. /\ PickedUpCents(T)[o] = 0 /\ FeeCents(T)[o] = 0
      /\ HiddenCents(T)[o] = 0 /\ KeptCents(T)[o] = 0 /\ SentCents[o] = 0
      /\ PickedUpCents(T)' = [PickedUpCents(T) EXCEPT ![o] = u]
      /\ FeeCents(T)' = [FeeCents(T) EXCEPT ![o] = f]
      /\ HiddenCents(T)' = [HiddenCents(T) EXCEPT ![o] = h]
      /\ KeptCents(T)' = [KeptCents(T) EXCEPT ![o] = k]
      /\ SentCents' = [SentCents EXCEPT ![o] = s]
  BY SettleAmounts
<1> HIDE DEF u, f, h, s, k
<1>3. /\ IsFiniteSet(Cents(PickedUpCents(T)'))
      /\ TotalOf(PickedUpCents(T)') = TotalOf(PickedUpCents(T)) + u
  <2>1. /\ PickedUpCents(T) \in [Order -> Nat] /\ PickedUpCents(T)[o] = 0
        /\ IsFiniteSet(Cents(PickedUpCents(T))) /\ u \in Nat
    BY <1>1, <1>2, AmountTypes DEF CentsFinite
  <2>2. PickedUpCents(T)' = [PickedUpCents(T) EXCEPT ![o] = u]
    BY <1>2
  <2>3. /\ IsFiniteSet(Cents([PickedUpCents(T) EXCEPT ![o] = u]))
        /\ TotalOf([PickedUpCents(T) EXCEPT ![o] = u]) = TotalOf(PickedUpCents(T)) + u
    BY <2>1, TotalRises, Zenon
  <2> QED
    BY <2>2, <2>3, Zenon
<1>4. /\ IsFiniteSet(Cents(FeeCents(T)'))
      /\ TotalOf(FeeCents(T)') = TotalOf(FeeCents(T)) + f
  <2>1. /\ FeeCents(T) \in [Order -> Nat] /\ FeeCents(T)[o] = 0
        /\ IsFiniteSet(Cents(FeeCents(T))) /\ f \in Nat
    BY <1>1, <1>2, AmountTypes DEF CentsFinite
  <2>2. FeeCents(T)' = [FeeCents(T) EXCEPT ![o] = f]
    BY <1>2
  <2>3. /\ IsFiniteSet(Cents([FeeCents(T) EXCEPT ![o] = f]))
        /\ TotalOf([FeeCents(T) EXCEPT ![o] = f]) = TotalOf(FeeCents(T)) + f
    BY <2>1, TotalRises, Zenon
  <2> QED
    BY <2>2, <2>3, Zenon
<1>5. /\ IsFiniteSet(Cents(HiddenCents(T)'))
      /\ TotalOf(HiddenCents(T)') = TotalOf(HiddenCents(T)) + h
  <2>1. /\ HiddenCents(T) \in [Order -> Nat] /\ HiddenCents(T)[o] = 0
        /\ IsFiniteSet(Cents(HiddenCents(T))) /\ h \in Nat
    BY <1>1, <1>2, AmountTypes DEF CentsFinite
  <2>2. HiddenCents(T)' = [HiddenCents(T) EXCEPT ![o] = h]
    BY <1>2
  <2>3. /\ IsFiniteSet(Cents([HiddenCents(T) EXCEPT ![o] = h]))
        /\ TotalOf([HiddenCents(T) EXCEPT ![o] = h]) = TotalOf(HiddenCents(T)) + h
    BY <2>1, TotalRises, Zenon
  <2> QED
    BY <2>2, <2>3, Zenon
<1>6. /\ IsFiniteSet(Cents(KeptCents(T)'))
      /\ TotalOf(KeptCents(T)') = TotalOf(KeptCents(T)) + k
  <2>1. /\ KeptCents(T) \in [Order -> Nat] /\ KeptCents(T)[o] = 0
        /\ IsFiniteSet(Cents(KeptCents(T))) /\ k \in Nat
    BY <1>1, <1>2, AmountTypes DEF CentsFinite
  <2>2. KeptCents(T)' = [KeptCents(T) EXCEPT ![o] = k]
    BY <1>2
  <2>3. /\ IsFiniteSet(Cents([KeptCents(T) EXCEPT ![o] = k]))
        /\ TotalOf([KeptCents(T) EXCEPT ![o] = k]) = TotalOf(KeptCents(T)) + k
    BY <2>1, TotalRises, Zenon
  <2> QED
    BY <2>2, <2>3, Zenon
<1>7. /\ IsFiniteSet(Cents(SentCents'))
      /\ TotalOf(SentCents') = TotalOf(SentCents) + s
  <2>1. /\ SentCents \in [Order -> Nat] /\ SentCents[o] = 0
        /\ IsFiniteSet(Cents(SentCents)) /\ s \in Nat
    BY <1>1, <1>2, AmountTypes DEF CentsFinite
  <2>2. SentCents' = [SentCents EXCEPT ![o] = s]
    BY <1>2
  <2>3. /\ IsFiniteSet(Cents([SentCents EXCEPT ![o] = s]))
        /\ TotalOf([SentCents EXCEPT ![o] = s]) = TotalOf(SentCents) + s
    BY <2>1, TotalRises, Zenon
  <2> QED
    BY <2>2, <2>3, Zenon
<1>8. CentsFinite(T)'
  BY <1>1, <1>3, <1>4, <1>5, <1>6, <1>7 DEF CentsFinite, Cents
<1>9. /\ TotalOf(PickedUpCents(T)) \in Nat /\ TotalOf(FeeCents(T)) \in Nat
      /\ TotalOf(HiddenCents(T)) \in Nat /\ TotalOf(KeptCents(T)) \in Nat
      /\ TotalOf(SentCents) \in Nat
  BY FS_CardinalityType DEF CentsFinite, TotalOf
<1>10. Bps * (TotalOf(FeeCents(T)) + f) = Bps * TotalOf(FeeCents(T)) + Bps * f
       /\ Bps * TotalOf(FeeCents(T)) \in Nat /\ Bps * f \in Nat
  BY <1>1, <1>9, Scaled
<1> DEFINE U == TotalOf(PickedUpCents(T))
           F == TotalOf(FeeCents(T))
           H == TotalOf(HiddenCents(T))
           K == TotalOf(KeptCents(T))
           S == TotalOf(SentCents)
           N == Cardinality(NoShows(T))
           M == Cardinality(NoShows(T)')
<1>i. /\ S + K = U + F + H
      /\ 10000 * K <= Bps * F
      /\ Bps * F <= 10000 * K + 9999 * N
  BY DEF ShareInv
<1>11. /\ (S + s) + (K + k) = (U + u) + (F + f) + (H + h)
       /\ 10000 * (K + k) <= Bps * (F + f)
       /\ Bps * (F + f) <= 10000 * (K + k) + 9999 * M
  <2>1. /\ U \in Nat /\ F \in Nat /\ H \in Nat /\ K \in Nat /\ S \in Nat
        /\ N \in Nat /\ M \in Nat
        /\ Bps * (F + f) = Bps * F + Bps * f
        /\ Bps * F \in Nat /\ Bps * f \in Nat
    BY <1>1, <1>9, <1>10
  <2>2. Bps * f <= 10000 * k + 9999 * (M - N)
    BY <1>1
  <2> HIDE DEF U, F, H, K, S, N, M
  <2>3. (S + s) + (K + k) = (U + u) + (F + f) + (H + h)
    BY <1>1, <1>i, <2>1
  <2>4. 10000 * (K + k) <= Bps * (F + f)
    BY <1>1, <1>i, <2>1
  <2>5. Bps * (F + f) <= 10000 * (K + k) + 9999 * M
    BY <1>1, <1>i, <2>1, <2>2
  <2> QED
    BY <2>3, <2>4, <2>5
<1>12. ShareInv(T)'
  <2>1. /\ TotalOf(PickedUpCents(T))' = U + u /\ TotalOf(FeeCents(T))' = F + f
        /\ TotalOf(HiddenCents(T))' = H + h /\ TotalOf(KeptCents(T))' = K + k
        /\ TotalOf(SentCents)' = S + s
    BY <1>3, <1>4, <1>5, <1>6, <1>7 DEF TotalOf, Cents
  <2>2. Bps' = Bps
    BY DEF Bps
  <2> HIDE DEF U, F, H, K, S, N
  <2> QED
    BY <1>11, <2>1, <2>2 DEF ShareInv
<1> QED
  BY <1>8, <1>12

(* Every step keeps the balance.                                            *)
LEMMA PageStep ==
  ASSUME PageInv, [Next]_vars
  PROVE  PageInv'
<1>t. PayoutsTypeOK /\ PayoutsTypeOK'
  BY TypeStep DEF PageInv
<1> SUFFICES ASSUME NEW T \in SUBSET Order
             PROVE  CentsFinite(T)' /\ ShareInv(T)'
  BY <1>t DEF PageInv
<1>i. CentsFinite(T) /\ ShareInv(T)
  BY DEF PageInv
<1>1. ASSUME NEW o \in Order, NEW how \in Settled, Settle(o, how)
      PROVE  CentsFinite(T)' /\ ShareInv(T)'
  BY <1>1, <1>i, <1>t, PageSettles
<1>2. ASSUME NEW o \in Order, LateCancel(o) \/ Send(o) \/ Record(o)
      PROVE  UNCHANGED ended
  BY <1>2 DEF LateCancel, Send, Record
<1>3. ASSUME NEW c \in Pass, RetryScan(c) \/ \E o \in Order : RetryTry(c, o)
      PROVE  UNCHANGED ended
  BY <1>3 DEF RetryScan, RetryTry
<1>4. ASSUME NEW x \in tried, RetryRecord(x)
      PROVE  UNCHANGED ended
  BY <1>4 DEF RetryRecord
<1>5. AccountUpdated \/ Restart \/ UNCHANGED vars => UNCHANGED ended
  BY DEF AccountUpdated, Restart, vars
<1>6. UNCHANGED ended => CentsFinite(T)' /\ ShareInv(T)'
  BY <1>i, PageUnchanged
<1> QED
  BY <1>1, <1>2, <1>3, <1>4, <1>5, <1>6 DEF Next

(* The balance, with the orders that are canceled, says what the page        *)
(* promises.                                                                 *)
LEMMA PageEnough ==
  ASSUME PageInv
  PROVE  PageAgrees
<1>c. canceled \in SUBSET Order
  BY PayoutsAssumption DEF PageInv, PayoutsTypeOK
<1>i. CentsFinite(canceled) /\ ShareInv(canceled)
  BY <1>c DEF PageInv
<1> DEFINE g == TotalOf(FeeCents(canceled))
           u == TotalOf(PickedUpCents(canceled))
           h == TotalOf(HiddenCents(canceled))
           s == TotalOf(SentCents)
           k == TotalOf(KeptCents(canceled))
           n == Cardinality(NoShows(canceled))
           p == Bps * g
<1>1. /\ u \in Nat /\ g \in Nat /\ h \in Nat /\ s \in Nat /\ k \in Nat
      /\ n \in Nat
  BY <1>i, FS_CardinalityType DEF CentsFinite, TotalOf
<1>2. p \in Nat
  BY <1>1, Scaled
<1>3. SellerPayout = u + (g - p \div 10000)
  <2>1. PlatformShare(g, SplitBps) = p \div 10000
    BY <1>1, PayoutsAssumption DEF PlatformShare, Bps
  <2>2. \A o \in Order : /\ PickedUpSubtotal(o) = PickedUpIn(o, canceled)
                        /\ Captured(o) = FeeIn(o, canceled)
    BY DEF PickedUpSubtotal, Captured, Status, PickedUpIn, FeeIn, Shown
  <2>3. /\ [o \in Order |-> PickedUpSubtotal(o)] = PickedUpCents(canceled)
        /\ [o \in Order |-> Captured(o)] = FeeCents(canceled)
    BY <2>2 DEF PickedUpCents, FeeCents
  <2> QED
    BY <2>1, <2>3 DEF SellerPayout, SellerShare, NoShowGross
<1>4. s + k = u + g + h /\ 10000 * k <= p /\ p <= 10000 * k + 9999 * n
  BY <1>i DEF ShareInv
<1>5. n = 0 <=> NoShows(canceled) = {}
  BY <1>i, FS_EmptySet DEF CentsFinite
<1>6. /\ {o \in Order : Status(o) = "no_show"} = NoShows(canceled)
      /\ [o \in Order |-> HandlerAmount(o)] = SentCents
      /\ [o \in Order |-> IF o \in canceled THEN HandlerAmount(o) ELSE 0]
           = HiddenCents(canceled)
  BY DEF Status, NoShows, Shown, SentCents, HiddenCents, HiddenIn
<1> HIDE DEF g, u, h, s, k, n, p
<1>7. /\ p \div 10000 \in Nat
      /\ 10000 * (p \div 10000) <= p
      /\ p < 10000 * (p \div 10000) + 10000
  BY <1>2
<1>8. /\ 0 <= s - h - SellerPayout
      /\ n # 0 => s - h - SellerPayout < n
      /\ n = 0 => s - h - SellerPayout = 0
  BY <1>1, <1>2, <1>3, <1>4, <1>7
<1> QED
  BY <1>5, <1>6, <1>8 DEF PageAgrees, s, h, n

(* PageIsRight: for any orders, fees and split, and whichever ended orders a *)
(* late CancelSubscription cancels, what the page promises the seller of a   *)
(* window falls short of what the handlers send for its orders by what they  *)
(* send for the canceled ones and by rounding, less than a cent for each     *)
(* no-show, and by nothing else; it never promises more.                     *)
THEOREM PageIsRight == Spec => []PageAgrees
<1>1. Init => PageInv
  <2> SUFFICES ASSUME Init
               PROVE  PageInv
    OBVIOUS
  <2>1. PayoutsTypeOK
    BY PayoutsAssumption DEF Init, PayoutsTypeOK, Row
  <2>2. \A o \in Order : ended[o] = "open"
    BY DEF Init
  <2>3. PlatformShare(0, SplitBps) = 0 /\ Bps \in 1 .. 10000
    BY BpsRange, ShareBounds
  <2>4. ASSUME NEW T \in SUBSET Order
        PROVE  CentsFinite(T) /\ ShareInv(T)
    <3>0. \A o \in Order :
            /\ PickedUpIn(o, T) = 0 /\ FeeIn(o, T) = 0 /\ HandlerAmount(o) = 0
      BY <2>2 DEF PickedUpIn, FeeIn, Shown, HandlerAmount
    <3>1. \A o \in Order : HiddenIn(o, T) = 0 /\ KeptOf(o, T) = 0
      BY <2>3, <3>0 DEF HiddenIn, KeptOf
    <3>2. /\ PickedUpCents(T) = [o \in Order |-> 0]
          /\ FeeCents(T) = [o \in Order |-> 0]
          /\ HiddenCents(T) = [o \in Order |-> 0]
          /\ KeptCents(T) = [o \in Order |-> 0]
          /\ SentCents = [o \in Order |-> 0]
      BY <3>0, <3>1
      DEF PickedUpCents, FeeCents, HiddenCents, KeptCents, SentCents
    <3>3. NoShows(T) = {}
      BY <2>2 DEF NoShows, Shown
    <3>4. IsFiniteSet(NoShows(T)) /\ Cardinality(NoShows(T)) = 0
      BY <3>3, FS_EmptySet
    <3>5. CentsFinite(T)
      BY <3>2, <3>4, TotalOfNothing DEF CentsFinite
    <3>6. ShareInv(T)
      BY <2>3, <3>2, <3>4, TotalOfNothing DEF ShareInv
    <3> QED
      BY <3>5, <3>6
  <2> QED
    BY <2>1, <2>4 DEF PageInv
<1>2. PageInv /\ [Next]_vars => PageInv'
  BY PageStep
<1>3. PageInv => PageAgrees
  BY PageEnough
<1> QED
  BY <1>1, <1>2, <1>3, PTL DEF Spec
-----------------------------------------------------------------------------
(* Every share is accounted for.                                            *)

Accounted(o) == paying[o] # "no" \/ row[o].id \/ row[o].error

(* One of the two keys of an order went through.                            *)
Through(o) == \E k \in {HandlerKey(o), RetryKey(o)} : transfers[k] = "made"

(* The handler is done, noted nothing, and the job never gets to see o.      *)
Untried(o) ==
  ended[o] # "open" /\ paying[o] = "no" /\ ~row[o].id /\ ~Retried(o)

AccountInv(o) ==
  /\ ended[o] # "open" /\ HandlerAmount(o) > 0 /\ o \notin dropped => Accounted(o)
  /\ o \in dropped => Untried(o)
  /\ paying[o] = "made" => transfers[HandlerKey(o)] = "made"
  /\ ended[o] = "open" \/ paying[o] # "no" => ~row[o].id
  /\ row[o].id => Through(o)

(* A pass that has a transfer in hand made it.                              *)
TriedMade ==
  \A x \in tried : x[3] = "made" => transfers[RetryKey(x[2])] = "made"

ShareKept == PaidInv /\ TriedMade /\ \A o \in Order : AccountInv(o)

(* Stripe forgets no transfer, and an answer "made" is true.                *)
LEMMA CallMade ==
  ASSUME NEW key \in Key, NEW seen \in Result,
         PayoutsTypeOK, CreateTransfer(key, seen)
  PROVE  /\ \A k \in Key : transfers[k] = "made" => transfers'[k] = "made"
         /\ seen = "made" => transfers'[key] = "made"
BY DEF CreateTransfer, PayoutsTypeOK, Result

(* No step takes a transfer back.                                           *)
LEMMA MadeStays ==
  ASSUME PayoutsTypeOK, [Next]_vars, NEW k \in Key, transfers[k] = "made"
  PROVE  transfers'[k] = "made"
<1>1. ASSUME NEW o \in Order, Send(o)
      PROVE  transfers'[k] = "made"
  BY <1>1, CallMade, Keys DEF Send
<1>2. ASSUME NEW c \in Pass, NEW o \in Order, RetryTry(c, o)
      PROVE  transfers'[k] = "made"
  BY <1>2, CallMade, Keys DEF RetryTry
<1>3. CASE UNCHANGED transfers
  BY <1>3
<1>4. ASSUME NEW o \in Order,
             \/ LateCancel(o) \/ Record(o)
             \/ \E how \in Settled : Settle(o, how)
      PROVE  UNCHANGED transfers
  BY <1>4 DEF LateCancel, Record, Settle
<1>5. ASSUME NEW c \in Pass, RetryScan(c)
      PROVE  UNCHANGED transfers
  BY <1>5 DEF RetryScan
<1>6. ASSUME NEW x \in tried, RetryRecord(x)
      PROVE  UNCHANGED transfers
  BY <1>6 DEF RetryRecord
<1>7. AccountUpdated \/ Restart \/ UNCHANGED vars => UNCHANGED transfers
  BY DEF AccountUpdated, Restart, vars
<1> QED
  BY <1>1, <1>2, <1>3, <1>4, <1>5, <1>6, <1>7 DEF Next

(* Every step keeps what the passes have in hand.                           *)
LEMMA TriedStep ==
  ASSUME PayoutsTypeOK, TriedMade, [Next]_vars
  PROVE  TriedMade'
<1> SUFFICES ASSUME NEW x \in tried', x[3] = "made"
             PROVE  transfers'[RetryKey(x[2])] = "made"
  BY DEF TriedMade, RetryKey
<1>1. CASE x \in tried
  BY <1>1, MadeStays, TriedParts, Keys DEF TriedMade
<1>2. ASSUME NEW c \in Pass, NEW o \in Order, RetryTry(c, o), x \notin tried
      PROVE  transfers'[RetryKey(x[2])] = "made"
  <2>1. PICK seen \in Result :
          /\ IF active THEN CreateTransfer(RetryKey(o), seen)
             ELSE seen = "error" /\ UNCHANGED transfers
          /\ tried' = tried \cup {<<c, o, seen>>}
    BY <1>2 DEF RetryTry
  <2>2. x = <<c, o, seen>>
    BY <1>2, <2>1
  <2> QED
    BY <2>1, <2>2, CallMade, Keys
<1>3. ASSUME NEW o \in Order,
             \/ LateCancel(o) \/ Send(o) \/ Record(o)
             \/ \E how \in Settled : Settle(o, how)
      PROVE  tried' = tried
  BY <1>3 DEF LateCancel, Send, Record, Settle
<1>4. ASSUME NEW c \in Pass, RetryScan(c)
      PROVE  tried' = tried
  BY <1>4 DEF RetryScan
<1>5. ASSUME NEW y \in tried, RetryRecord(y)
      PROVE  x \in tried
  BY <1>5 DEF RetryRecord
<1>6. AccountUpdated \/ UNCHANGED vars => tried' = tried
  BY DEF AccountUpdated, vars
<1>7. Restart => x \in {}
  BY DEF Restart
<1> QED
  BY <1>1, <1>2, <1>3, <1>4, <1>5, <1>6, <1>7 DEF Next

(* A row keeps its transfer, and its error unless it gets a transfer.       *)
LEMMA NoteStays ==
  ASSUME PayoutsTypeOK, NEW p \in Order,
         Success(p) \/ Failure(p) \/ UNCHANGED row, NEW o \in Order
  PROVE  /\ row[o].id \/ row[o].error => row'[o].id \/ row'[o].error
         /\ o # p => row'[o] = row[o]
         /\ Success(p) \/ Failure(p) => row'[p].id \/ row'[p].error
         /\ Failure(p) \/ UNCHANGED row => row'[o].id = row[o].id
<1>1. row[p] \in Row /\ row[o] \in Row
  BY DEF PayoutsTypeOK
<1>2. CASE Success(p)
  <2>1. row'[p].id /\ (o # p => row'[o] = row[o])
    BY <1>1, <1>2 DEF Success, PayoutsTypeOK, Row
  <2>2. Failure(p) \/ UNCHANGED row => row'[o].id = row[o].id
    BY <1>1 DEF Failure, PayoutsTypeOK, Row
  <2> QED
    BY <2>1, <2>2
<1>3. CASE Failure(p)
  BY <1>1, <1>3 DEF Failure, PayoutsTypeOK, Row
<1>4. CASE UNCHANGED row /\ ~Success(p) /\ ~Failure(p)
  BY <1>4
<1> QED
  BY <1>2, <1>3, <1>4

(* The job never gets to see an order that was left without a note.         *)
LEMMA UntriedStays ==
  ASSUME PayoutsTypeOK, [Next]_vars, NEW o \in Order, Untried(o)
  PROVE  Untried(o)'
<1>k. RetryKey(o)' = RetryKey(o)
  BY DEF RetryKey
<1>0. /\ RetryKey(o) \in Key
      /\ \A p \in Order :
           /\ HandlerKey(p) \in Key /\ HandlerKey(p) # RetryKey(o)
           /\ RetryKey(p) \in Key
           /\ (p # o => RetryKey(p) # RetryKey(o))
  BY DEF HandlerKey, RetryKey, Key
<1>1. ASSUME NEW p \in Order, NEW how \in Settled, Settle(p, how)
      PROVE  Untried(o)'
  <2>1. p # o /\ UNCHANGED <<row, todo, tried, transfers>>
    BY <1>1 DEF Settle, Untried
  <2>2. ended'[o] = ended[o] /\ paying'[o] = paying[o]
    BY <1>1, <2>1 DEF Settle, PayoutsTypeOK
  <2> QED
    BY <1>k, <2>1, <2>2 DEF Untried, Retried
<1>2. ASSUME NEW p \in Order, Send(p)
      PROVE  Untried(o)'
  <2>1. p # o /\ UNCHANGED <<ended, row, todo, tried>>
    BY <1>2 DEF Send, Untried
  <2>2. paying'[o] = paying[o]
    BY <1>2, <2>1 DEF Send, Leave, PayoutsTypeOK
  <2>3. transfers'[RetryKey(o)] = transfers[RetryKey(o)]
    <3>1. ASSUME NEW seen \in Result, CreateTransfer(HandlerKey(p), seen)
          PROVE  transfers'[RetryKey(o)] = transfers[RetryKey(o)]
      <4>1. HandlerKey(p) \in Key /\ HandlerKey(p) # RetryKey(o)
        BY <1>0
      <4>2. \A k \in Key : k # HandlerKey(p) => transfers'[k] = transfers[k]
        BY <3>1, <4>1, CallStep
      <4> QED
        BY <1>0, <4>1, <4>2
    <3> QED
      BY <1>2, <3>1 DEF Send
  <2> QED
    BY <1>k, <2>1, <2>2, <2>3 DEF Untried, Retried
<1>3. ASSUME NEW p \in Order, Record(p)
      PROVE  Untried(o)'
  <2>1. p # o /\ UNCHANGED <<ended, todo, tried, transfers>>
    BY <1>3 DEF Record, Untried, Result
  <2>2. paying'[o] = paying[o] /\ row'[o] = row[o]
    BY <1>3, <2>1 DEF Record, Leave, Success, Failure, PayoutsTypeOK
  <2> QED
    BY <1>k, <2>1, <2>2 DEF Untried, Retried
<1>4. ASSUME NEW c \in Pass, RetryScan(c)
      PROVE  Untried(o)'
  <2>1. o \notin Candidates /\ UNCHANGED <<ended, paying, row, tried, transfers>>
    BY <1>4 DEF RetryScan, Candidates, Untried, Retried
  <2>2. \A d \in Pass : o \notin todo'[d]
    BY <1>4, <2>1 DEF RetryScan, PayoutsTypeOK, Untried, Retried
  <2> QED
    BY <1>k, <2>1, <2>2 DEF Untried, Retried
<1>5. ASSUME NEW c \in Pass, NEW p \in Order, RetryTry(c, p)
      PROVE  Untried(o)'
  <2>1. PICK seen \in Result :
          /\ IF active THEN CreateTransfer(RetryKey(p), seen)
             ELSE seen = "error" /\ UNCHANGED transfers
          /\ tried' = tried \cup {<<c, p, seen>>}
    BY <1>5 DEF RetryTry
  <2>2. p # o /\ UNCHANGED <<ended, paying, row>>
    BY <1>5 DEF RetryTry, Untried, Retried
  <2>3. \A d \in Pass : todo'[d] \subseteq todo[d]
    BY <1>5 DEF RetryTry, PayoutsTypeOK
  <2>4. transfers'[RetryKey(o)] = transfers[RetryKey(o)]
    <3>1. RetryKey(p) \in Key /\ RetryKey(p) # RetryKey(o)
      BY <1>0, <2>2
    <3>2. CreateTransfer(RetryKey(p), seen) =>
            \A k \in Key : k # RetryKey(p) => transfers'[k] = transfers[k]
      BY <3>1, CallStep
    <3> QED
      BY <1>0, <2>1, <3>1, <3>2
  <2> QED
    BY <1>k, <2>1, <2>2, <2>3, <2>4 DEF Untried, Retried
<1>6. ASSUME NEW x \in tried, RetryRecord(x)
      PROVE  Untried(o)'
  <2>1. /\ x[2] \in Order /\ x[2] # o /\ tried' \subseteq tried
        /\ UNCHANGED <<ended, paying, todo, transfers>>
    BY <1>6, TriedParts DEF RetryRecord, Untried, Retried
  <2>2. row'[o] = row[o]
    BY <1>6, <2>1, NoteStays DEF RetryRecord
  <2> QED
    BY <1>k, <2>1, <2>2 DEF Untried, Retried
<1>7. CASE AccountUpdated \/ UNCHANGED vars \/ \E p \in Order : LateCancel(p)
  <2>1. UNCHANGED <<ended, paying, row, todo, tried, transfers>>
    BY <1>7 DEF AccountUpdated, LateCancel, vars
  <2> QED
    BY <1>k, <2>1 DEF Untried, Retried
<1>8. CASE Restart
  <2>1. /\ UNCHANGED <<ended, row, transfers>> /\ paying'[o] = "no"
        /\ tried' = {} /\ \A d \in Pass : todo'[d] = {}
    BY <1>8 DEF Restart
  <2> QED
    BY <1>k, <2>1 DEF Untried, Retried
<1> QED
  BY <1>1, <1>2, <1>3, <1>4, <1>5, <1>6, <1>7, <1>8 DEF Next

(* A step that leaves the handler of o alone, or ends it, and notes nothing  *)
(* new that is not true keeps its account.                                   *)
LEMMA AccountStays ==
  ASSUME PayoutsTypeOK, [Next]_vars, NEW o \in Order, AccountInv(o),
         ended'[o] = ended[o], dropped \subseteq dropped',
         Accounted(o) => Accounted(o)' \/ o \in dropped',
         paying'[o] = paying[o] \/ paying'[o] = "no",
         row'[o].id =>
           row[o].id \/ (Through(o) /\ ended[o] # "open" /\ paying'[o] = "no"),
         o \in dropped' => o \in dropped \/ Untried(o)'
  PROVE  AccountInv(o)'
<1>1. /\ HandlerKey(o)' = HandlerKey(o) /\ RetryKey(o)' = RetryKey(o)
      /\ HandlerAmount(o)' = HandlerAmount(o)
  BY DEF HandlerKey, RetryKey, HandlerAmount
<1>2. Through(o) => Through(o)'
  BY <1>1, MadeStays, Keys DEF Through
<1>3. o \in dropped' => Untried(o)'
  BY UntriedStays DEF AccountInv
<1>4. paying'[o] = "made" => transfers'[HandlerKey(o)'] = "made"
  BY <1>1, MadeStays, Keys DEF AccountInv
<1>5. row'[o].id => Through(o)'
  BY <1>2 DEF AccountInv
<1>6. ended'[o] = "open" \/ paying'[o] # "no" => ~row'[o].id
  BY DEF AccountInv
<1>7. /\ ended'[o] # "open" /\ HandlerAmount(o)' > 0 /\ o \notin dropped'
      => Accounted(o)'
  BY <1>1 DEF AccountInv
<1> QED
  BY <1>3, <1>4, <1>5, <1>6, <1>7 DEF AccountInv

(* A handler that has not left a note has not let the job see its order.    *)
LEMMA HandlerFirst ==
  ASSUME NEW o \in Order, RetryInv(o), AccountInv(o), paying[o] # "no"
  PROVE  ~row[o].id /\ ~Retried(o) /\ o \notin dropped
BY DEF RetryInv, AccountInv, Untried

(* Every step keeps the accounts.                                           *)
LEMMA AccountStep ==
  ASSUME ShareKept, [Next]_vars
  PROVE  ShareKept'
<1>t. PayoutsTypeOK
  BY DEF ShareKept, PaidInv
<1>p. PaidInv' /\ TriedMade'
  BY <1>t, PaidStep, TriedStep DEF ShareKept
<1> SUFFICES ASSUME NEW o \in Order
             PROVE  AccountInv(o)'
  BY <1>p DEF ShareKept
<1>i. AccountInv(o) /\ HandlerInv(o) /\ RetryInv(o)
  BY DEF ShareKept, PaidInv
<1>k. HandlerKey(o) \in Key /\ RetryKey(o) \in Key
  BY Keys
<1>r. RetryKey(o)' = RetryKey(o)
  BY DEF RetryKey
<1>1. ASSUME NEW p \in Order, NEW how \in Settled, Settle(p, how)
      PROVE  AccountInv(o)'
  <2>1. CASE p # o
    <3>1. ended'[o] = ended[o] /\ paying'[o] = paying[o]
          /\ UNCHANGED <<row, dropped>>
      BY <1>1, <1>t, <2>1 DEF Settle, PayoutsTypeOK
    <3> QED
      BY <1>i, <1>t, <3>1, AccountStays DEF Accounted
  <2>2. CASE p = o
    <3>1. /\ ended[o] = "open" /\ ended'[o] = how
          /\ paying'[o] = IF how = "waived" THEN "no" ELSE "send"
          /\ UNCHANGED <<row, dropped>>
      BY <1>1, <1>t, <2>2 DEF Settle, PayoutsTypeOK
    <3>2. ~row[o].id /\ o \notin dropped
      BY <1>i, <3>1 DEF AccountInv, Untried
    <3>3. how = "waived" => HandlerAmount(o)' = 0
      BY <3>1 DEF HandlerAmount
    <3> QED
      BY <3>1, <3>2, <3>3 DEF AccountInv, Accounted
  <2> QED
    BY <2>1, <2>2
<1>2. ASSUME NEW p \in Order, Send(p)
      PROVE  AccountInv(o)'
  <2>0. /\ UNCHANGED <<ended, row, todo, tried>> /\ dropped \subseteq dropped'
        /\ dropped' \subseteq dropped \cup {p} /\ paying[p] = "send"
    BY <1>2 DEF Send, Leave
  <2>1. CASE p # o
    <3>1. paying'[o] = paying[o]
      BY <1>2, <1>t, <2>1 DEF Send, Leave, PayoutsTypeOK
    <3>2. o \in dropped' => o \in dropped
      BY <2>0, <2>1
    <3> QED
      BY <1>i, <1>t, <2>0, <3>1, <3>2, AccountStays DEF Accounted
  <2>2. CASE p = o
    <3>0. ~row[o].id /\ ~Retried(o) /\ o \notin dropped /\ ended[o] # "open"
      BY <1>i, <2>0, <2>2, HandlerFirst DEF HandlerInv
    <3>1. CASE /\ paying' = [paying EXCEPT ![o] = "no"]
               /\ UNCHANGED transfers
               /\ HandlerAmount(o) > 0 => dropped' = dropped \cup {o}
      <4>1. paying'[o] = "no"
        BY <1>t, <3>1 DEF PayoutsTypeOK
      <4>2. HandlerAmount(o)' = HandlerAmount(o)
        BY <2>0 DEF HandlerAmount
      <4>3. Untried(o)'
        BY <1>r, <2>0, <3>0, <3>1, <4>1 DEF Untried, Retried
      <4> QED
        BY <3>1, <4>1, <4>2, <4>3 DEF AccountInv, Untried
    <3>2. ASSUME NEW seen \in Result, CreateTransfer(HandlerKey(o), seen),
                 paying' = [paying EXCEPT ![o] = seen], UNCHANGED dropped
          PROVE  AccountInv(o)'
      <4>1. paying'[o] = seen /\ seen # "no"
        BY <1>t, <3>2 DEF PayoutsTypeOK, Result
      <4>2. HandlerKey(o)' = HandlerKey(o)
        BY <2>0 DEF HandlerKey
      <4>3. seen = "made" => transfers'[HandlerKey(o)] = "made"
        BY <1>k, <1>t, <3>2, CallMade
      <4>4. ~row'[o].id /\ o \notin dropped'
        BY <2>0, <3>0, <3>2
      <4>5. Accounted(o)'
        BY <4>1 DEF Accounted
      <4> QED
        BY <4>2, <4>1, <4>3, <4>4, <4>5 DEF AccountInv
    <3>3. HandlerAmount(o) \in Nat
      BY AmountTypes DEF SentCents
    <3>4. \/ /\ paying' = [paying EXCEPT ![o] = "no"]
             /\ UNCHANGED transfers
             /\ HandlerAmount(o) > 0 => dropped' = dropped \cup {o}
          \/ \E seen \in Result :
               /\ CreateTransfer(HandlerKey(o), seen)
               /\ paying' = [paying EXCEPT ![o] = seen]
               /\ UNCHANGED dropped
      BY <1>2, <2>2, <3>3 DEF Send, Leave
    <3> QED
      BY <3>1, <3>2, <3>4
  <2> QED
    BY <2>1, <2>2
<1>3. ASSUME NEW p \in Order, Record(p)
      PROVE  AccountInv(o)'
  <2>0. /\ UNCHANGED <<ended, todo, tried, transfers>>
        /\ paying' = [paying EXCEPT ![p] = "no"] /\ paying[p] \in Result
        /\ \/ /\ IF paying[p] = "made" THEN Success(p) ELSE Failure(p)
              /\ UNCHANGED dropped
           \/ UNCHANGED row /\ dropped' = dropped \cup {p}
    BY <1>3 DEF Record, Leave
  <2>1. /\ row[o].id \/ row[o].error => row'[o].id \/ row'[o].error
        /\ o # p => row'[o] = row[o]
        /\ Success(p) \/ Failure(p) => row'[p].id \/ row'[p].error
        /\ Failure(p) \/ UNCHANGED row => row'[o].id = row[o].id
    BY <1>t, <2>0, NoteStays
  <2>2. CASE p # o
    <3>1. paying'[o] = paying[o] /\ row'[o] = row[o] /\ dropped \subseteq dropped'
          /\ (o \in dropped' => o \in dropped)
      BY <1>t, <2>0, <2>1, <2>2 DEF PayoutsTypeOK
    <3> QED
      BY <1>i, <1>t, <2>0, <3>1, AccountStays DEF Accounted
  <2>3. CASE p = o
    <3>0. /\ ~row[o].id /\ ~Retried(o) /\ o \notin dropped /\ ended[o] # "open"
          /\ paying'[o] = "no"
      BY <1>i, <1>t, <2>0, <2>3, HandlerFirst
      DEF HandlerInv, Result, PayoutsTypeOK
    <3>1. CASE UNCHANGED row /\ dropped' = dropped \cup {o}
      <4>1. Untried(o)'
        BY <1>r, <2>0, <3>0, <3>1 DEF Untried, Retried
      <4> QED
        BY <2>0, <3>0, <3>1, <4>1 DEF AccountInv
    <3>2. CASE (IF paying[o] = "made" THEN Success(o) ELSE Failure(o))
               /\ UNCHANGED dropped
      <4>1. row'[o].id => paying[o] = "made"
        BY <2>1, <3>0, <3>2
      <4>2. row'[o].id => Through(o)
        BY <1>i, <4>1 DEF AccountInv, Through
      <4>3. Accounted(o)'
        BY <2>1, <2>3, <3>2 DEF Accounted
      <4> QED
        BY <1>i, <1>t, <2>0, <3>0, <3>2, <4>2, <4>3, AccountStays
    <3> QED
      BY <2>0, <2>3, <3>1, <3>2
  <2> QED
    BY <2>2, <2>3
<1>4. ASSUME NEW c \in Pass, RetryScan(c) \/ \E p \in Order : RetryTry(c, p)
      PROVE  AccountInv(o)'
  <2>1. UNCHANGED <<ended, paying, row, dropped>>
    BY <1>4 DEF RetryScan, RetryTry
  <2> QED
    BY <1>i, <1>t, <2>1, AccountStays DEF Accounted
<1>5. ASSUME NEW x \in tried, RetryRecord(x)
      PROVE  AccountInv(o)'
  <2>0. /\ UNCHANGED <<ended, paying, dropped>>
        /\ x[1] \in Pass /\ x[2] \in Order /\ x[3] \in Result
        /\ x = <<x[1], x[2], x[3]>>
        /\ \/ IF x[3] = "made" THEN Success(x[2]) ELSE Failure(x[2])
           \/ UNCHANGED row
    BY <1>5, <1>t, TriedParts DEF RetryRecord
  <2>1. /\ row[o].id \/ row[o].error => row'[o].id \/ row'[o].error
        /\ o # x[2] => row'[o] = row[o]
        /\ Failure(x[2]) \/ UNCHANGED row => row'[o].id = row[o].id
    BY <1>t, <2>0, NoteStays
  <2>2. Accounted(o) => Accounted(o)'
    BY <2>0, <2>1 DEF Accounted
  <2>3. row'[o].id =>
          row[o].id \/ (Through(o) /\ ended[o] # "open" /\ paying'[o] = "no")
    <3> SUFFICES ASSUME row'[o].id, ~row[o].id
                 PROVE  Through(o) /\ ended[o] # "open" /\ paying'[o] = "no"
      OBVIOUS
    <3>1. o = x[2] /\ x[3] = "made"
      BY <2>0, <2>1
    <3>2. Retried(o)
      BY <2>0, <3>1 DEF Retried
    <3>3. Through(o)
      BY <3>1 DEF ShareKept, TriedMade, Through
    <3> QED
      BY <1>i, <2>0, <3>2, <3>3 DEF RetryInv
  <2> QED
    BY <1>i, <1>t, <2>0, <2>2, <2>3, AccountStays
<1>6. CASE AccountUpdated \/ UNCHANGED vars \/ \E p \in Order : LateCancel(p)
  <2>1. UNCHANGED <<ended, paying, row, dropped>>
    BY <1>6 DEF AccountUpdated, LateCancel, vars
  <2> QED
    BY <1>i, <1>t, <2>1, AccountStays DEF Accounted
<1>7. CASE Restart
  <2>1. /\ UNCHANGED <<ended, row, transfers>> /\ paying'[o] = "no"
        /\ dropped' = dropped \cup {p \in Order : paying[p] # "no"}
        /\ tried' = {} /\ \A c \in Pass : todo'[c] = {}
    BY <1>7 DEF Restart
  <2>2. paying[o] # "no" => Untried(o)'
    <3> SUFFICES ASSUME paying[o] # "no"
                 PROVE  Untried(o)'
      OBVIOUS
    <3>1. ~row[o].id /\ ~Retried(o) /\ ended[o] # "open"
      BY <1>i, HandlerFirst DEF HandlerInv
    <3> QED
      BY <1>r, <2>1, <3>1 DEF Untried, Retried
  <2> QED
    BY <1>i, <1>t, <2>1, <2>2, AccountStays DEF Accounted
<1> QED
  BY <1>1, <1>2, <1>3, <1>4, <1>5, <1>6, <1>7 DEF Next

(* SharesAccounted: whatever handlers, passes, account changes, late cancels, *)
(* failing statements and restarts do, a seller's share has a transfer, a     *)
(* note or a handler at work, unless the handler left without a note; then    *)
(* the job never tries it.  And no noted transfer is made up.                 *)
THEOREM SharesAccounted == Spec => []EachAccountedFor
<1>1. Init => ShareKept
  <2> SUFFICES ASSUME Init
               PROVE  ShareKept
    OBVIOUS
  <2>1. PaidInv
    <3>1. PayoutsTypeOK
      BY PayoutsAssumption DEF Init, PayoutsTypeOK, Row
    <3>2. ASSUME NEW o \in Order
          PROVE  HandlerInv(o) /\ RetryInv(o)
      BY Keys DEF Init, HandlerInv, RetryInv, Retried
    <3> QED
      BY <3>1, <3>2 DEF PaidInv
  <2>2. TriedMade
    BY DEF Init, TriedMade
  <2>3. \A o \in Order : AccountInv(o)
    BY DEF Init, AccountInv
  <2> QED
    BY <2>1, <2>2, <2>3 DEF ShareKept
<1>2. ShareKept /\ [Next]_vars => ShareKept'
  BY AccountStep
<1>3. ShareKept => EachAccountedFor
  BY DEF ShareKept, AccountInv, Accounted, Untried, Retried, Through,
         EachAccountedFor, Settled
<1> QED
  BY <1>1, <1>2, <1>3, PTL DEF Spec
=============================================================================
