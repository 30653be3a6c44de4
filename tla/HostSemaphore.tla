--------------------------- MODULE HostSemaphore ---------------------------
(***************************************************************************)
(* The per-host politeness gate of the fetcher (internal/crawler/          *)
(* hostsem.go), for one host: HTTP requests of any number of goroutines,   *)
(* the mutex-protected maps slots and lastStart, and the Scheduler's       *)
(* periodic GC, which drops the channel of an idle host.                   *)
(*                                                                         *)
(* Acquire holds the mutex three times and gives it up in between, so it   *)
(* is four steps: take the channel, send on it, read lastStart and compute *)
(* the wait, write lastStart and start.  Channels are numbered in the      *)
(* order chanFor makes them; a goroutine may hold one the map has dropped. *)
(***************************************************************************)
EXTENDS Naturals, FiniteSets

CONSTANTS
    Worker,      \* goroutines inside doRequest
    MaxPerHost,  \* capacity of a channel
    MinGap,      \* time between two starts
    IdleAfter,   \* hostSemGCIdleAfter
    MaxChannel   \* bound: channels made in a behaviour

ASSUME SemaphoreAssumption ==
    /\ IsFiniteSet(Worker)
    /\ MaxPerHost \in Nat \ {0} /\ MinGap \in Nat \ {0}
    /\ IdleAfter \in Nat /\ MinGap =< IdleAfter  \* a second, ten minutes
    /\ MaxChannel \in Nat

VARIABLES
    slot,   \* slots[host]: the channel, 0 when the map has none
    made,   \* channels made so far
    idle,   \* time.Since(lastStart[host]), up to IdleAfter + 1, which also
            \* stands for the zero time of a missing entry
    pc,     \* worker -> where it is
    chan,   \* worker -> the channel it got from chanFor, 0 for none
    wait    \* worker -> what is left of its timer

vars == <<slot, made, idle, pc, chan, wait>>

Never == IdleAfter + 1

Places == {"out", "blocked", "reserved", "sleeping", "running"}

TypeOK ==
    /\ slot \in 0..MaxChannel /\ made \in 0..MaxChannel /\ idle \in 0..Never
    /\ pc \in [Worker -> Places]
    /\ chan \in [Worker -> 0..MaxChannel]
    /\ wait \in [Worker -> 0..MinGap]

Init ==
    /\ slot = 0 /\ made = 0 /\ idle = Never
    /\ pc = [w \in Worker |-> "out"]
    /\ chan = [w \in Worker |-> 0]
    /\ wait = [w \in Worker |-> 0]

\* The elements of channel c: one per worker past the send.
Holders(c) == {w \in Worker : chan[w] = c /\ pc[w] \in {"reserved", "sleeping", "running"}}

\* chanFor, under the mutex.
ChanFor(w) ==
    /\ pc[w] = "out"
    /\ slot = 0 => made < MaxChannel
    /\ slot' = IF slot = 0 THEN made + 1 ELSE slot
    /\ made' = IF slot = 0 THEN made + 1 ELSE made
    /\ chan' = [chan EXCEPT ![w] = slot']
    /\ pc' = [pc EXCEPT ![w] = "blocked"]
    /\ UNCHANGED <<idle, wait>>

\* A send on a channel without a capacity.
ReserveMut(w) ==
    /\ pc[w] = "blocked"
    /\ pc' = [pc EXCEPT ![w] = "reserved"]
    /\ UNCHANGED <<slot, made, idle, chan, wait>>

\* case ch <- struct{}{}
Reserve(w) ==
    /\ pc[w] = "blocked"
    /\ Cardinality(Holders(chan[w])) < MaxPerHost
    /\ pc' = [pc EXCEPT ![w] = "reserved"]
    /\ UNCHANGED <<slot, made, idle, chan, wait>>

\* A wait that is not taken.
ComputeWaitMut(w) ==
    /\ pc[w] = "reserved"
    /\ wait' = [wait EXCEPT ![w] = 0]
    /\ pc' = [pc EXCEPT ![w] = "sleeping"]
    /\ UNCHANGED <<slot, made, idle, chan>>

\* wait := h.minGap - time.Since(h.lastStart[host]), under the mutex.
ComputeWait(w) ==
    /\ pc[w] = "reserved"
    /\ wait' = [wait EXCEPT ![w] = IF idle < MinGap THEN MinGap - idle ELSE 0]
    /\ pc' = [pc EXCEPT ![w] = "sleeping"]
    /\ UNCHANGED <<slot, made, idle, chan>>

\* The timer has fired; h.lastStart[host] = time.Now(), under the mutex.
Start(w) ==
    /\ pc[w] = "sleeping" /\ wait[w] = 0
    /\ idle' = 0
    /\ pc' = [pc EXCEPT ![w] = "running"]
    /\ UNCHANGED <<slot, made, chan, wait>>

Leave(w) ==
    /\ pc' = [pc EXCEPT ![w] = "out"]
    /\ chan' = [chan EXCEPT ![w] = 0]
    /\ wait' = [wait EXCEPT ![w] = 0]
    /\ UNCHANGED <<slot, made, idle>>

\* The context ends while the worker is blocked, or while it sleeps: the
\* second gives the slot back.
CancelAcquire(w) ==
    /\ pc[w] = "blocked" \/ (pc[w] = "sleeping" /\ wait[w] > 0)
    /\ Leave(w)

\* A request that never gives its slot back: release is not called.
ReleaseMut(w) == FALSE

\* The release func, called when the request is done, failed or redirected.
Release(w) == pc[w] = "running" /\ Leave(w)

\* GC: len(ch) == 0 and not used within idleAfter.
GC ==
    /\ slot # 0
    /\ Holders(slot) = {}
    /\ idle > IdleAfter
    /\ slot' = 0
    /\ idle' = Never
    /\ UNCHANGED <<made, pc, chan, wait>>

Advance ==
    /\ idle' = IF idle < Never THEN idle + 1 ELSE Never
    /\ wait' = [w \in Worker |-> IF wait[w] = 0 THEN 0 ELSE wait[w] - 1]
    /\ UNCHANGED <<slot, made, pc, chan>>

WorkerStep(w) ==
    \/ ChanFor(w)
    \/ Reserve(w)
    \/ ComputeWait(w)
    \/ Start(w)
    \/ CancelAcquire(w)
    \/ Release(w)

\* Requests crawl and discover feeds while the Scheduler's goroutine runs GC.
Next ==
    \/ Advance
    \/ \E w \in Worker : WorkerStep(w)
    \/ GC

Spec == Init /\ [][Next]_vars

\* Time passes, a timer that has fired and a channel with room are served,
\* and a running request ends (the HTTP client has a timeout).  A goroutine
\* that blocks is not passed over for ever: Go queues senders.
Fairness ==
    /\ WF_vars(Advance)
    /\ \A w \in Worker : /\ SF_vars(Reserve(w))
                         /\ WF_vars(ComputeWait(w))
                         /\ WF_vars(Start(w))
                         /\ WF_vars(Release(w))

FairSpec == Spec /\ Fairness

----------------------------------------------------------------------------

\* The inductive invariant: whoever is past chanFor holds a channel that was
\* made, and no channel holds more than its capacity, in the map or not.
SemaphoreInv ==
    /\ TypeOK
    /\ slot =< made
    /\ \A w \in Worker : chan[w] =< made
    /\ \A w \in Worker : pc[w] # "out" => chan[w] # 0
    /\ \A c \in 1..MaxChannel : Cardinality(Holders(c)) =< MaxPerHost

Running == {w \in Worker : pc[w] = "running"}

\* "at most maxPerHost concurrent requests to a given host", as long as the
\* collection has not replaced the host's channel: a goroutine may sit between
\* chanFor and its send when GC finds the channel empty, and then holds a
\* slot of a channel nobody else sees.
AtMostMaxPerHost == made =< 1 => Cardinality(Running) =< MaxPerHost

\* A goroutine that asks for a slot starts or gives up, also when the map
\* drops the channel it is blocked on and when the others come back for
\* more: no slot is lost to a cancelled wait or to a finished request.
EveryoneGetsThrough ==
    \A w \in Worker : (pc[w] = "blocked") ~> (pc[w] \in {"running", "out"})
====
