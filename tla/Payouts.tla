------------------------------ MODULE Payouts -------------------------------
(***************************************************************************)
(* The seller's money.  The handler that collects or reports an order sends *)
(* the seller's share to the store's Connect account after its commit       *)
(* (transferToSeller); a failure is noted on the order, and an hourly job   *)
(* tries noted orders again (RunTransferRetry).  The payout page computes   *)
(* from the orders what the seller gets for a window.                       *)
(*                                                                         *)
(* Handlers of different orders, passes of the job and changes of the       *)
(* store's account interleave.  A handler ends an order once; a seller's    *)
(* CancelSubscription that listed it before may still turn it into a        *)
(* canceled one afterwards: see Orders.                                     *)
(***************************************************************************)
EXTENDS Fees, FiniteSets

CONSTANTS
  Order,
  Subtotal,           \* orders.subtotal_cents
  Fee,                \* what a no-show of each order is charged
  SplitBps,           \* configured NO_SHOW_PLATFORM_SPLIT_BPS
  RefundedAtColumn,   \* whether orders has the column refunded_at
  Pass,               \* runs of the retry job that can overlap
  Closable,           \* orders a seller's CancelSubscription may come late for
  Faults,             \* what the environment may do, see TransferFault
  MaxMishaps          \* how often the process may stop, or a statement fail

(* refused      Stripe refuses a transfer                                   *)
(* lost_call    a call does not arrive, or a pass cannot look up the store  *)
(*              or the charge                                               *)
(* lost_answer  the answer to a transfer does not arrive                    *)
TransferFault == {"refused", "lost_call", "lost_answer"}

ASSUME PayoutsAssumption ==
  /\ Subtotal \in [Order -> Nat \ {0}]
  /\ Fee \in [Order -> Nat]
  /\ SplitBps \in Int /\ SplitBps <= 10000
  /\ RefundedAtColumn \in BOOLEAN
  /\ IsFiniteSet(Pass)
  /\ Faults \subseteq TransferFault
  /\ Closable \subseteq Order
  /\ MaxMishaps \in Nat

VARIABLES
  active,      \* whether stores.stripe_account_status is active
  ended,       \* how the handler ended each order
  canceled,    \* ended orders that a late CancelSubscription canceled
  paying,      \* what the handler of each order has still to do
  transfers,   \* Stripe: what became of the first call under each key
  row,         \* stripe_transfer_id, transfer_error, transfer_retry_count
  todo,        \* orders each pass still has to try
  tried,       \* results that passes have not written back yet
  mishaps,     \* how often the process stopped or a statement failed so far
  lost,        \* history: orders paid by a handler that lost the answer
  dropped      \* history: orders with a share whose handler left no note

vars == <<active, ended, canceled, paying, transfers, row, todo, tried, mishaps,
          lost, dropped>>

Settled == {"picked_up", "no_show", "waived"}
Key == {"transfer", "noshow-transfer", "retry"} \X Order
Result == {"made", "error"}
Row == [id: BOOLEAN, error: BOOLEAN, retries: Nat]

PayoutsTypeOK ==
  /\ active \in BOOLEAN
  /\ ended \in [Order -> Settled \cup {"open"}]
  /\ canceled \in SUBSET Closable
  /\ paying \in [Order -> {"no", "send"} \cup Result]
  /\ transfers \in [Key -> {"none", "made", "refused"}]
  /\ row \in [Order -> Row]
  /\ todo \in [Pass -> SUBSET Order]
  /\ tried \in SUBSET (Pass \X Order \X Result)
  /\ mishaps \in 0 .. MaxMishaps
  /\ lost \in SUBSET Order
  /\ dropped \in SUBSET Order

Init ==
  /\ active \in BOOLEAN
  /\ ended = [o \in Order |-> "open"]
  /\ canceled = {}
  /\ paying = [o \in Order |-> "no"]
  /\ transfers = [k \in Key |-> "none"]
  /\ row = [o \in Order |-> [id |-> FALSE, error |-> FALSE, retries |-> 0]]
  /\ todo = [c \in Pass |-> {}]
  /\ tried = {}
  /\ mishaps = 0
  /\ lost = {}
  /\ dropped = {}
-----------------------------------------------------------------------------
(* orders.status as the job and the payout page read it.                    *)
Status(o) == IF o \in canceled THEN "canceled" ELSE ended[o]

(* Amounts.  A waived no-show is one of which nothing was captured.         *)

SellerShare(captured) == captured - PlatformShare(captured, SplitBps)

(* What the handler sends, and what the retry job sends.                    *)
HandlerAmount(o) ==
  CASE ended[o] = "picked_up" -> Subtotal[o]
    [] ended[o] = "no_show" -> SellerShare(Fee[o])
    [] OTHER -> 0

HandlerKey(o) ==
  <<IF ended[o] = "picked_up" THEN "transfer" ELSE "noshow-transfer", o>>
RetryKey(o) == <<"retry", o>>

(* GetPickupWindowPayoutSummary counts an order by its status; the no-show  *)
(* fees of the window are summed first and split once.                      *)
PickedUpSubtotal(o) == IF Status(o) = "picked_up" THEN Subtotal[o] ELSE 0
Captured(o) == IF Status(o) = "no_show" THEN Fee[o] ELSE 0

(* What the amounts of the orders add up to: their cents, counted.          *)
Cents(amount) == UNION {{o} \X (1 .. amount[o]) : o \in Order}
TotalOf(amount) == Cardinality(Cents(amount))

(* Mutant of NoShowGross: counts what was captured of every settled order.  *)
NoShowGrossOfAll ==
  TotalOf([o \in Order |-> IF Status(o) \in Settled THEN Fee[o] ELSE 0])

NoShowGross == TotalOf([o \in Order |-> Captured(o)])

SellerPayout ==
  TotalOf([o \in Order |-> PickedUpSubtotal(o)]) + SellerShare(NoShowGross)
-----------------------------------------------------------------------------
(* Stripe executes the first call under a key and replays its answer to the *)
(* later ones; an answer may be lost.                                       *)
CreateTransfer(key, seen) ==
  \/ /\ transfers[key] = "none"
     /\ \/ /\ seen = "made"
           /\ transfers' = [transfers EXCEPT ![key] = "made"]
        \/ /\ "refused" \in Faults /\ seen = "error"
           /\ transfers' = [transfers EXCEPT ![key] = "refused"]
        \/ /\ "lost_answer" \in Faults /\ seen = "error"
           /\ transfers' = [transfers EXCEPT ![key] = "made"]
  \/ /\ transfers[key] # "none"
     /\ seen = IF transfers[key] = "made" THEN "made" ELSE "error"
     /\ UNCHANGED transfers
  \/ /\ "lost_call" \in Faults /\ seen = "error"
     /\ UNCHANGED transfers

(* Mutant of Failure: counts the attempts left instead of those made.       *)
FailureCountsDown(o) ==
  row' = [row EXCEPT ![o].error = TRUE, ![o].retries = @ - 1]

(* Mutant of Failure: counts the attempt and forgets to note the error.     *)
FailureUnnoted(o) == row' = [row EXCEPT ![o].retries = @ + 1]

(* Mutant of Failure: notes the error and forgets to count the attempt.     *)
FailureUncounted(o) == row' = [row EXCEPT ![o].error = TRUE]

Failure(o) ==
  row' = [row EXCEPT ![o].error = TRUE, ![o].retries = @ + 1]

Success(o) == row' = [row EXCEPT ![o].id = TRUE, ![o].error = FALSE]
-----------------------------------------------------------------------------
(* The handler commits the end of the order and then pays the seller, on    *)
(* the context of the request, which ends when the client disconnects.      *)
Settle(o, how) ==
  /\ ended[o] = "open"
  /\ ended' = [ended EXCEPT ![o] = how]
  /\ paying' = [paying EXCEPT ![o] = IF how = "waived" THEN "no" ELSE "send"]
  /\ UNCHANGED <<active, canceled, transfers, row, todo, tried, mishaps, lost,
                 dropped>>

(* CancelSubscription listed the order while it was open and writes its     *)
(* status now; the columns of payment and transfer stay as they are.        *)
LateCancel(o) ==
  /\ o \in Closable \ canceled
  /\ ended[o] # "open"
  /\ canceled' = canceled \cup {o}
  /\ UNCHANGED <<active, ended, paying, transfers, row, todo, tried, mishaps,
                 lost, dropped>>

(* A statement fails, or the process stops.                                 *)
Mishap ==
  /\ mishaps < MaxMishaps
  /\ mishaps' = mishaps + 1

(* The handler ends without a note on the order.                            *)
Leave(o) ==
  /\ paying' = [paying EXCEPT ![o] = "no"]
  /\ dropped' = dropped \cup {o}

(* transferToSeller gives up without a note when there is nothing to pay,   *)
(* the account is not active or cannot be looked up.                        *)
Send(o) ==
  /\ paying[o] = "send"
  /\ \/ /\ HandlerAmount(o) <= 0
        /\ paying' = [paying EXCEPT ![o] = "no"]
        /\ UNCHANGED <<transfers, lost, dropped, mishaps>>
     \/ /\ HandlerAmount(o) > 0
        /\ (~active /\ UNCHANGED mishaps) \/ Mishap
        /\ Leave(o)
        /\ UNCHANGED <<transfers, lost>>
     \/ /\ HandlerAmount(o) > 0 /\ active
        /\ \E seen \in Result :
             /\ CreateTransfer(HandlerKey(o), seen)
             /\ paying' = [paying EXCEPT ![o] = seen]
             /\ lost' = IF seen = "error" /\ transfers'[HandlerKey(o)] = "made"
                        THEN lost \cup {o} ELSE lost
        /\ UNCHANGED <<dropped, mishaps>>
  /\ UNCHANGED <<active, ended, canceled, row, todo, tried>>

(* An error of the note's own statement is ignored.                         *)
Record(o) ==
  /\ paying[o] \in Result
  /\ \/ /\ IF paying[o] = "made" THEN Success(o) ELSE Failure(o)
        /\ paying' = [paying EXCEPT ![o] = "no"]
        /\ UNCHANGED <<dropped, mishaps>>
     \/ /\ Mishap
        /\ Leave(o)
        /\ UNCHANGED row
  /\ UNCHANGED <<active, ended, canceled, transfers, todo, tried, lost>>
-----------------------------------------------------------------------------
(* The retry job lists its candidates once and tries them one by one.       *)

(* Mutant of Candidates: looks for an attempt, not for a failed one.        *)
CandidatesAttempted ==
  {o \in Order : /\ row[o].id \/ row[o].error
                 /\ row[o].retries < 3
                 /\ Status(o) \in Settled}

(* Mutant of Candidates: does not look at transfer_retry_count.             *)
CandidatesUnlimited ==
  {o \in Order : ~row[o].id /\ row[o].error /\ Status(o) \in Settled}

Candidates ==
  {o \in Order : /\ ~row[o].id
                 /\ row[o].error
                 /\ row[o].retries < 3
                 /\ Status(o) \in Settled}

Results(c) == {x \in tried : x[1] = c}

(* The query names refunded_at: without that column it fails, every time.   *)
RetryScan(c) ==
  /\ RefundedAtColumn
  /\ todo[c] = {} /\ Results(c) = {}
  /\ Candidates # {}
  /\ todo' = [todo EXCEPT ![c] = Candidates]
  /\ UNCHANGED <<active, ended, canceled, paying, transfers, row, tried, mishaps,
                 lost, dropped>>

(* The amount is the subtotal, also for a no-show.                          *)
RetryTry(c, o) ==
  /\ Results(c) = {}
  /\ o \in todo[c]
  /\ todo' = [todo EXCEPT ![c] = @ \ {o}]
  /\ \E seen \in Result :
       /\ IF active THEN CreateTransfer(RetryKey(o), seen)
          ELSE seen = "error" /\ UNCHANGED transfers
       /\ tried' = tried \cup {<<c, o, seen>>}
  /\ UNCHANGED <<active, ended, canceled, paying, row, mishaps, lost, dropped>>

(* Here too the error of the statement is ignored.                          *)
RetryRecord(x) ==
  /\ x \in tried
  /\ \/ /\ IF x[3] = "made" THEN Success(x[2]) ELSE Failure(x[2])
        /\ UNCHANGED mishaps
     \/ Mishap /\ UNCHANGED row
  /\ tried' = tried \ {x}
  /\ UNCHANGED <<active, ended, canceled, paying, transfers, todo, lost, dropped>>
-----------------------------------------------------------------------------
(* account.updated: Stripe restricts the account or verifies it again.      *)
AccountUpdated ==
  /\ active' = ~active
  /\ UNCHANGED <<ended, canceled, paying, transfers, row, todo, tried, mishaps,
                 lost, dropped>>

(* The process stops: handlers and passes end where they are.               *)
Restart ==
  /\ Mishap
  /\ paying' = [o \in Order |-> "no"]
  /\ dropped' = dropped \cup {o \in Order : paying[o] # "no"}
  /\ todo' = [c \in Pass |-> {}]
  /\ tried' = {}
  /\ UNCHANGED <<active, ended, canceled, transfers, row, lost>>

Next ==
  \/ \E o \in Order :
       \/ \E how \in Settled : Settle(o, how)
       \/ LateCancel(o)
       \/ Send(o)
       \/ Record(o)
  \/ \E c \in Pass :
       \/ RetryScan(c)
       \/ \E o \in Order : RetryTry(c, o)
  \/ \E x \in tried : RetryRecord(x)
  \/ AccountUpdated
  \/ Restart

Spec == Init /\ [][Next]_vars

(* A handler goes on after its commit; the ticker starts the job every hour *)
(* and a pass goes through its list, one order after the other.             *)
HandlerStep(o) == Send(o) \/ Record(o)

PassStep(c) ==
  \/ RetryScan(c)
  \/ \E o \in Order : RetryTry(c, o)
  \/ \E x \in Results(c) : RetryRecord(x)

Fairness ==
  /\ \A o \in Order : WF_vars(HandlerStep(o))
  /\ \A c \in Pass : WF_vars(PassStep(c))

FairSpec == Spec /\ Fairness
-----------------------------------------------------------------------------
(* PaidAtMostOnce: of the transfers of an order, made by its handler and by *)
(* overlapping or repeated passes, at most one goes through, unless Stripe's *)
(* answer to the handler is lost (the job uses a key of its own).            *)
PaidAtMostOnce ==
  \A o \in Order :
    o \notin lost =>
      Cardinality({k \in Key : k[2] = o /\ transfers[k] = "made"}) <= 1

(* RetriesBounded: transfer_retry_count stops at 3 ("up to 3 attempts",      *)
(* internal_transfer_retry.go:22), give or take one for each pass that       *)
(* overlaps with the last one.                                               *)
RetriesBounded ==
  \A o \in Order : row[o].retries <= 2 + Cardinality(Pass)

(* PageAgrees: the page never promises more than the handlers send, and it   *)
(* is short of that by two things alone: what they send for orders that a    *)
(* late CancelSubscription takes off it, and rounding, less than a cent for  *)
(* each no-show.                                                             *)
PageAgrees ==
  LET sent == TotalOf([o \in Order |-> HandlerAmount(o)])
      hidden == TotalOf([o \in Order |->
                           IF o \in canceled THEN HandlerAmount(o) ELSE 0])
      rounded == sent - hidden - SellerPayout
      noShows == {o \in Order : Status(o) = "no_show"}
  IN  /\ 0 <= rounded
      /\ IF noShows = {} THEN rounded = 0 ELSE rounded < Cardinality(noShows)

(* EachAccountedFor: an ended order that owes the seller money has a         *)
(* transfer or a noted failure, or its handler is still at it, unless the    *)
(* handler ended without a note: it found the account inactive or could not  *)
(* look it up, or the process stopped or the note failed under it.  Such an  *)
(* order is never looked at again: no note, no retry.  And a noted transfer  *)
(* is one that Stripe made.                                                  *)
EachAccountedFor ==
  \A o \in Order :
    /\ ended[o] \in Settled /\ HandlerAmount(o) > 0 =>
         \/ paying[o] # "no" \/ row[o].id \/ row[o].error
         \/ o \in dropped
    /\ o \in dropped =>
         ~row[o].id /\ ~row[o].error /\ transfers[RetryKey(o)] = "none"
    /\ row[o].id =>
         \E k \in {HandlerKey(o), RetryKey(o)} : transfers[k] = "made"

(* FailedTransferSettled: again and again there is no order whose transfer   *)
(* failed and that was neither paid since nor tried three times              *)
(* (internal_transfer_retry.go:21), but for those that a late                *)
(* CancelSubscription hides from the job.                                    *)
FailedTransferSettled ==
  []<>(\A o \in Order \ canceled :
         row[o].error => row[o].id \/ row[o].retries >= 3)
=============================================================================
