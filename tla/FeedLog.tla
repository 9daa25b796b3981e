------------------------------ MODULE FeedLog ------------------------------
(***************************************************************************)
(* What the live packet feed promises its clients, without saying how: the *)
(* rows form one log, numbered from 1 and never renumbered; the feed holds *)
(* a window lo..hi of it, at most Capacity rows long; a client remembers   *)
(* the last number it was given and asks for what came after it.           *)
(***************************************************************************)
EXTENDS Integers

CONSTANTS Clients, Capacity

VARIABLES lo,    \* number of the oldest row held
          hi,    \* number of the newest row ever appended
          seen   \* seen[c]: the last row number client c was given

logVars == <<lo, hi, seen>>

LogInit == /\ lo = 1
           /\ hi = 0
           /\ seen = [c \in Clients |-> 0]

\* The newest row pushes the oldest one out of a full window.
LogAppend == /\ hi' = hi + 1
             /\ \/ hi - lo + 1 < Capacity /\ lo' = lo
                \/ hi - lo + 1 = Capacity /\ lo' = lo + 1
             /\ UNCHANGED seen

\* Dropping the rows keeps the numbering.
LogClear == /\ lo' = hi + 1
            /\ UNCHANGED <<hi, seen>>

\* A client is brought up to the newest row, if the window holds any.
LogPoll(c) == /\ lo <= hi
              /\ seen' = [seen EXCEPT ![c] = hi]
              /\ UNCHANGED <<lo, hi>>

LogNext == LogAppend \/ LogClear \/ \E c \in Clients : LogPoll(c)

LogSpec == LogInit /\ [][LogNext]_logVars
=============================================================================
