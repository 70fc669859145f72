---------------------------- MODULE VoucherSync ----------------------------
(***************************************************************************)
(* BaseSyncService.sync for vouchers (app/services/voucher.py) and         *)
(* purchase orders (app/services/purchase_order.py), which ask Tally for   *)
(* the vouchers of a period that ends on the day of the request, and       *)
(* stream the answer.  stream_request does not look for an error in the    *)
(* body as request does: an answer that holds an error, or nothing, parses *)
(* to no vouchers.                                                         *)
(***************************************************************************)
EXTENDS SyncService

CONSTANTS
    DateOf,     \* the date of each voucher
    FromDate,   \* voucher_from_date, or the epoch
    LastDay     \* bound on the days that pass

ASSUME VoucherAssumption ==
    /\ DateOf \in [Objects -> Nat]
    /\ FromDate \in Nat /\ LastDay \in Nat

VARIABLES
    today,      \* datetime.date.today()
    toDate      \* the to_date of the request each worker has built

voucherVars == <<vars, today, toDate>>

VoucherInit ==
    /\ Init
    /\ today = 0
    /\ toDate = [w \in Workers |-> 0]

\* _build_xml follows the checkpoint query.
BeginPeriod(w, isFull) ==
    /\ Begin(w, isFull)
    /\ toDate' = [toDate EXCEPT ![w] = today]
    /\ UNCHANGED today

\* SVFROMDATE to SVTODATE.
InPeriod(w) == {o \in DOMAIN tally : DateOf[o] \in FromDate..toDate[w]}

FetchPeriod(w) == Receive(w, InPeriod(w)) /\ UNCHANGED <<today, toDate>>

FetchError(w) == Receive(w, {}) /\ UNCHANGED <<today, toDate>>

NextDay ==
    /\ today < LastDay
    /\ today' = today + 1
    /\ UNCHANGED <<vars, toDate>>

VoucherNext ==
    \/ /\ \/ Source
          \/ \E w \in Workers : Compare(w) \/ Commit(w) \/ Reject(w) \/ Fail(w)
          \/ Crash
       /\ UNCHANGED <<today, toDate>>
    \/ \E w \in Workers :
          \/ \E isFull \in BOOLEAN : BeginPeriod(w, isFull)
          \/ FetchPeriod(w) \/ FetchError(w)
    \/ NextDay

VoucherSpec == VoucherInit /\ [][VoucherNext]_voucherVars

\* As FairSpec: no attempt hangs, and of each mode not every attempt is
\* answered with an error, and not every one that was given vouchers fails
\* after that.
Period == UNCHANGED <<today, toDate>>
Given(w, isFull, Step(_)) == response[w] # Empty /\ InMode(w, isFull, Step) /\ Period

VoucherFairness ==
    \A w \in Workers :
        /\ WF_voucherVars((Compare(w) \/ Commit(w) \/ Fail(w)) /\ Period)
        /\ \A isFull \in BOOLEAN :
              /\ SF_voucherVars(BeginPeriod(w, isFull))
              /\ SF_voucherVars(InMode(w, isFull, FetchPeriod))
              /\ SF_voucherVars(Given(w, isFull, Compare))
              /\ SF_voucherVars(Given(w, isFull, Commit))

FairVoucherSpec == VoucherSpec /\ VoucherFairness

Due(o) == DateOf[o] \in FromDate..today

\* "Fetches all dates by default" (app/services/voucher.py:25): a voucher
\* that an incremental sync will skip, its AlterID being covered, is not one
\* that no request has ever shown.
NoDueVoucherMissed ==
    \A o \in DOMAIN tally :
        Due(o) /\ tally[o].alter_id <= checkpoint => InHistory(o)

\* What a sync moves the checkpoint past it has kept, if the period of its
\* request has it: a voucher is missed for its date alone, never because it was
\* saved, or another day began, while the sync was under way, nor because other
\* syncs have meanwhile moved the checkpoint that this one began from.
PassedIsKept ==
    [][\A w \in Workers : \A o \in InPeriod(w) :
          /\ Commit(w) /\ checkpoint' \in Highest(response[w])
          /\ tally[o].alter_id \in since[w] + 1 .. checkpoint'
          => InHistory(o)']_voucherVars

\* The full sync of the cron job makes up for it: once the user pauses, both
\* tables come to show each voucher whose date has come, whatever error
\* answers, failures and post-dated vouchers there were.
DueConverges == <>[](\A o \in DOMAIN tally : Due(o) => Mirrored(o))
=============================================================================
