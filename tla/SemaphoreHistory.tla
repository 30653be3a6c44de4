-------------------------- MODULE SemaphoreHistory --------------------------
(***************************************************************************)
(* HostSemaphore with the starts of the last MinGap remembered.            *)
(***************************************************************************)
EXTENDS HostSemaphore

VARIABLE recent  \* start -> how long ago it was, for the last MinGap

hvars == <<vars, recent>>

StartedNow == \E w \in Worker : pc[w] = "sleeping" /\ pc'[w] = "running"

\* A number for the next start.
NewStart == CHOOSE s \in 0..Cardinality(DOMAIN recent) : s \notin DOMAIN recent

RecentAfter ==
    IF Advance
    THEN [s \in {s \in DOMAIN recent : recent[s] + 1 < MinGap} |-> recent[s] + 1]
    ELSE IF StartedNow
    THEN [s \in DOMAIN recent \cup {NewStart} |-> IF s = NewStart THEN 0 ELSE recent[s]]
    ELSE recent

HInit == Init /\ recent = [s \in {} |-> 0]

HNext == Next /\ recent' = RecentAfter

HSpec == HInit /\ [][HNext]_hvars

HFairSpec == HSpec /\ Fairness

\* What the code does guarantee of the gap on one channel: no more than
\* maxPerHost requests to a host start within one minGap, since a slot is
\* free again only after its holder has moved lastStart.
BurstBounded == made =< 1 => Cardinality(DOMAIN recent) =< MaxPerHost
====
