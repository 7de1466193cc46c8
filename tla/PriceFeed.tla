------------------------------ MODULE PriceFeed ------------------------------
(***************************************************************************)
(* What PricingService.getIndicativePrice promises its callers, with no    *)
(* cache, no retries and no Binance: an answer within MaxLatency, which is *)
(* a recent price, an older one marked stale, or a refusal, and the last   *)
(* two only after the provider has had its chances.  Pricing implements    *)
(* it; ApiRequests builds quotes on it.                                    *)
(***************************************************************************)
EXTENDS Integers

CONSTANTS
    Callers,     \* calls of getIndicativePrice
    MaxAge,      \* how old a price not marked stale may be
    MaxStaleAge, \* how old a price may be at all
    MinOutage,   \* how long the provider fails before a call gives up
    MaxLatency,  \* how long a call may take
    MaxTime      \* bound: ticks of the clock

VARIABLES
    now,   \* the clock
    ask    \* what each call has come to

\* priceAt is the timestamp of the price: when the provider gave it.
Ask == [state : {"idle", "waiting", "priced", "failed"}, since : Nat, priceAt : Nat, stale : BOOLEAN]

NotAsked == [state |-> "idle", since |-> 0, priceAt |-> 0, stale |-> FALSE]

Init == now = 0 /\ ask = [c \in Callers |-> NotAsked]

Start(c) ==
    /\ ask[c].state = "idle"
    /\ ask' = [ask EXCEPT ![c].state = "waiting", ![c].since = now]
    /\ UNCHANGED now

Answer(c, state, priceAt, stale) ==
    /\ ask[c].state = "waiting"
    /\ ask' = [ask EXCEPT ![c].state = state, ![c].priceAt = priceAt, ![c].stale = stale]
    /\ UNCHANGED now

GiveUp(c) == now - ask[c].since >= MinOutage

AnswerFresh(c) == \E p \in 0..now : now - p <= MaxAge /\ Answer(c, "priced", p, FALSE)
AnswerStale(c) ==
    /\ GiveUp(c)
    /\ \E p \in 0..now : now - p <= MaxStaleAge /\ Answer(c, "priced", p, TRUE)
AnswerUnavailable(c) == GiveUp(c) /\ Answer(c, "failed", 0, FALSE)

Answered(c) == AnswerFresh(c) \/ AnswerStale(c) \/ AnswerUnavailable(c)

Tick ==
    /\ now < MaxTime
    /\ \A c \in Callers : ask[c].state = "waiting" => now - ask[c].since < MaxLatency
    /\ now' = now + 1
    /\ UNCHANGED ask

Next == Tick \/ \E c \in Callers : Start(c) \/ Answered(c)

vars == <<now, ask>>

\* What never goes wrong; every call is answered in the end as well.
Safety == Init /\ [][Next]_vars
Spec == Safety /\ \A c \in Callers : WF_vars(Answered(c))
=============================================================================
